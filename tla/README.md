# TLA+ models of autodeploy-web

autodeploy-web is a Go web service that builds Veeam appliance ISOs with a PowerShell script,
creates the appliances as VMs on a hypervisor, and registers them in a Veeam backup server (VBR)
over REST. This directory holds TLA+ models of its concurrent core and of what it does to the
hypervisors, to VBR and to its own data directory, the TLC configurations that check them on small
instances, and TLAPS proofs, for every instance, of the safety properties of the job manager, the
log hub, the deployment manager, the wiring, the drivers, the console sessions, the rendered scripts
and the data directory. `PROJECT.json` gives, for each definition, the lines of source it stands for, for each run
what it checks, for each property the mutation of the code that breaks it, and the list of hazards
the properties are for.

    tlc -workers 2 -config JobManager_safety.cfg MCJobManager.tla     # one run
    tlapm JobManager_proofs.tla                                       # the proofs

## 1. The system

### Components

| Component (source) | State it keeps | Operations |
| --- | --- | --- |
| Job manager (`internal/job`) | registry of jobs under `m.mu`, each job's state under `j.mu`, the channel semaphore `m.sem`, `stopCh`, SQLite table `jobs`, files `configs/.jobs/<id>.json`, `work/<id>`, `output/<id>` | Submit, worker goroutine, Delete, SetKeepCompleted, Shutdown, load at start-up |
| Log hub (`job.go`, `deploy.go`, `server/sse.go`, `server/deploy_handlers.go`) | ring of the last lines, slice of subscribers, one bounded channel per viewer, `doneCh` | AppendLine, Subscribe and its cancel function, closeSubs, the SSE handlers |
| Deployment manager (`internal/deploy`) | deployments, their nodes and VM ids, the run context and its cancel function, SQLite table `deployments` | Start, Retry, RetryWire, run and wire-only goroutines, Cancel, Remove, Delete, retention, Shutdown, load |
| Topology wiring (`internal/wiring`) | nothing across calls; per call a fan-out of goroutines, a semaphore of four, the first error; everything durable is in VBR | Wire, for a first wiring and for a re-wire |
| Veeam REST client (`internal/veeam`) | access token, `reauthMu` | Authenticate, do with one re-login on 401, WaitSession, resource calls |
| Hypervisor drivers (`internal/hypervisor`) | sessions and tasks at the hypervisor | UploadISO, CreateVM, PowerOn, SendBootCommand, GetVMIP, Destroy, for six products |
| VSA console (`server/console_handlers.go`) | map of open REST sessions with their last use | open, request, close, idle sweep |
| Craft API (`internal/craftapi`) | none of its own; the rendered script keeps variables and VBR keeps the rest | Plan, the PowerShell and the bash renderer, the run and re-run of a script |
| Data directory (`config/store.go`, `config/settings.go`, `job/runner.go`, `server/handlers.go`, `server/deploy_handlers.go`) | preset files, settings file, output folders | save and delete a preset, save and apply the settings, collect and snapshot a build, list and deploy an output, import a job's config |
| Configuration and topology catalog (`internal/config`, `internal/topology`) | none | schema, defaults, validation, table of topologies |
| HTTP server and forms (`internal/server`) | the admin session; form decoding is stateless | handlers around the managers |
| Translations, templates | none | text |
| Process (`cmd/autodeploy-web`) | signals, listener | start-up order, shutdown order |

### How they interact

An HTTP handler calls `Submit` or `Start`, which register a record, save it and spawn a goroutine.
From then on the goroutine, the handlers (`Delete`, `Cancel`, `Remove`, settings) and retention work
on the same record under short critical sections, with SQLite, files, the script, the hypervisor or
VBR called *between* them. Everything the goroutine logs passes through the record's hub to the SSE
streams. A deployment's goroutine calls `Wirer.Wire` when its VMs are up; the Wirer calls the Veeam
client from several goroutines at once. Deployments share nothing but the hypervisor, and that they
share in full: ids, names, folders, the ISO library. The handlers and the build worker meet in the
data directory, without a lock for most of it. A script of the Craft API is to do to VBR what
`Wirer.Wire` would. A restart loses all memory and reloads records from SQLite.

### What is hard, and what makes each part correct

* **Jobs.** Saves happen outside `m.mu`; retention and Delete remove files of jobs that finish
  concurrently; a crash leaves rows in the middle. Correct means: slots are counted exactly, a
  listed active job always has a goroutine, input files outlive their use, the row agrees with the
  record, a stored verdict is never overwritten, who waits for `Done()` finds the job's config, and
  every job ends.
* **Log hub.** Sends happen after unlocking, over a slice that other goroutines shift in place, to
  channels that others close. Correct means: no line twice, none missing, the last event is final, a
  stuck viewer stalls nobody, every stream ends.
* **Deployments.** Cancel and Remove race with a run that is inside a hypervisor call; a retry
  shares the node array of the original; the 30-second wait of Remove may expire. Correct means: no
  VM is lost, removed is final, wiring gets complete nodes, every stop takes effect unless the
  hypervisor call it waits for heeds no context.
* **Wiring.** Concurrent goroutines fail, finish and wait at once; answers are lost; VBR sessions
  outlive the call. Correct means: nothing is registered twice, no failure is swallowed, the HA
  preparation is done in full before the cluster is created, one failure ends everything.
* **Drivers.** `CreateVM` is a chain of remote calls, each of which may be refused, fail half way or
  lose its answer, while another deployment wants the same id, name or folder. Correct means:
  whoever gets a VM has one of its own with all its disks, it boots its own whole installer, its
  console is not another's, and nobody touches what somebody else holds.
* **Console and client.** A client may be dropped while a request uses it, and several requests meet
  a 401 at once. Correct means: one renewal per refused token, no live token given up, dropped
  clients logged out, every call ends.
* **Craft API.** The order of `Wire` is written a second time. Correct means: script and `Wire` send
  the same calls, a script that says "Done" is done, running it again repeats nothing that is there.
* **Data directory.** Files are written, renamed, listed, read and deleted by different goroutines.
  Correct means: no reader meets a file that is not whole, files and managers agree.

## 2. Modules

| Module | Models | Extends / instantiates |
| --- | --- | --- |
| `JobLifecycle` | what a client sees of one job: absent, pending, running, a verdict; and what a restart may do to it | abstract specification |
| `JobManager` | the job manager in detail | instantiates `JobLifecycle` with a refinement mapping |
| `MCJobManager` | symmetry of job ids | `JobManager` |
| `JobManager_proofs` | theorems and proofs | `JobManager`, TLAPS |
| `LogHub` | one hub, in its job and its deployment variant, with emitters and streams | – |
| `LogHub_proofs` | theorems and proofs | `LogHub`, TLAPS |
| `DeployLifecycle` | what a client sees of one deployment: its state, whether it was asked to stop, whether a Remove gave up waiting; and what a restart may do to it | abstract specification |
| `DeployManager` | the deployment manager over a failing hypervisor | instantiates `DeployLifecycle` with a refinement mapping |
| `MCDeployManager` | the plans and node sets of the runs | `DeployManager` |
| `DeployManager_proofs` | theorems and proofs | `DeployManager`, TLAPS |
| `Wiring` | `Wirer.Wire` against a VBR that refuses, loses answers and goes on working | – |
| `Wiring_proofs` | theorems and proofs | `Wiring`, TLAPS |
| `Hypervisor` | the platform (VMs, disk files, folders, ISO library) and the sequence of calls a node makes | – |
| `Proxmox`, `VSphere`, `XCPng`, `Nutanix`, `HyperV`, `Workstation` | one driver each, call by call | `Hypervisor` |
| `Drivers` | clients of one driver on one platform | the six drivers |
| `Drivers_proofs` | theorems and proofs | `Drivers`, TLAPS |
| `Console` | the console manager, and token and 401 path of `veeam.Client` | – |
| `Console_proofs` | theorems and proofs | `Console`, TLAPS |
| `VeeamCalls` | the requests of `veeam.Client` that wiring makes: method, path, body, ids | – |
| `Craft` | `Plan`, and the two rendered scripts as programs | `VeeamCalls` |
| `CraftSync` | `Wire` undisturbed, as the reference for the scripts | `Craft` |
| `MCCraft` | the topologies and options of the run | `CraftSync` |
| `Craft_proofs` | theorems and proofs | `CraftSync`, TLAPS |
| `DataDir` | the files that handlers, builds and deployments share | – |
| `DataDir_proofs` | theorems and proofs | `DataDir`, TLAPS |

### JobManager

`pc[j]` is where job j's thread (first Submit, then the worker) stands between two points where
another goroutine can interfere. What one holder of `m.mu` does is one step; the worker's
`markRunning`, `persist`, script, `markResult`, `persist`, snapshot copy and `closeDone` are
separate steps. `registry`, `state`, `finishedAt` are the memory; `row`, `configs`, `stage`,
`snapshots` the disk; `sem`, `stopping` the channels. `finished` means `Done()` is closed, `gone`
that the thread died with the process. `Persist` may fail, which the code logs and ignores
(`faulted`). `Restart` is a crash or an exit at any moment followed by `main`'s start-up: staging
cleared, rows loaded, active rows turned to failed, retention applied. A `snapshots[j]` is "kept" or
"lost": the worker drops the errors of the copy, so the copy may fail with the config in place.
`outcome` is a history variable for the refinement. In the mapping, the view of a job is its state while it is listed, and
"absent" otherwise.

### LogHub

Slices are modelled as Go has them: a window on a backing array that `append` and the removal idiom
write in place, because the alias that `Job.AppendLine` keeps is the point. `Deployment.AppendLine`
takes a copy. A line is its number. `Send` is one iteration of the range loop, after the unlock.
`phase` is the worker's epilogue: final state, closeSubs, `Done()` closed.

### DeployManager

`pc[d]`, `at[d]` are the run goroutine and its node index; `Calls` are the driver calls of
`deployNode`, each of which succeeds, fails, or hangs while its context lives, and at the calls in
`Deaf` after that, too: XCP-ng's XenAPI calls take no context and have no time limit, and neither has
Proxmox's upload. `cells` are the
backing arrays of `Spec.Nodes`, shared by a deployment and its retries as in the code; `pending` the
address polls of `resolveNodeIPs`, which use the VM reference captured when they start. `snap` is
the view a `persist` has taken and not saved yet. `Remove` is its own small program (cancel, wait up
to 30 seconds, view, destroy one VM after the other, mark, save). `vms` is the hypervisor. `gaveUp`
and `leftover` are history variables for the two exceptions the code documents. In the mapping to
`DeployLifecycle` an id that has not been given out is "new", a deployment shows its state while it is
listed and "absent" otherwise; `canceled` says that somebody asked for a stop, `gaveUp` that a Remove
no longer waits, which is when a run may go on behind the mark "removed". Both lifecycles count
restarts, so that only a restart may do what a restart does.

### Wiring

`phase` is the main goroutine, `pc[v]` the goroutine of node v; process 0 stands for the main
goroutine in `sess` and `round`. `FanLive` is `fanCtx.Err() == nil`. A call of VBR that changes
something can succeed, fail, or succeed with its answer lost; sessions run on at VBR when nobody
waits for them (`left`), and one that somebody stops ends as if it had succeeded (`stopped` says what
it was to make). The lookup that follows the creation of a repository may find no id, which the code
takes (`blank`). `AcquireSlot` and `SkipNode` are the two arms of the `select`, and the
second look at the context under the slot is in `AcquireSlot`. The login step contains the licence
(a Wirer with a licence path fails there when the context is done; one without goes on). Wiring into
an existing VBR is the same sequence with `HA = FALSE`.

### Hypervisor and the drivers

A client is one node: `pc[c]` runs through the calls `deployNode` makes (find or upload the ISO,
create the VM, attach the ISO, set the boot order, power on, type the boot command, ask for the
address), with the steps of each driver's `CreateVM` in between, and through `Destroy`. `shared`
says whether the two clients are nodes of one deployment, which come one after the other through one
driver value, or of two. `vms`, `files`, `folders` and `iso` are the platform. Every call is answered,
refused without effect (`Refused`), or done with its answer lost (`Done`, `Gone`); one that is made
of several remote calls is several steps. `cand` is the id or folder that `CreateVM` has looked up
and not taken yet. Ids, names and folders are numbers; `HyperVByName` is the cmdlets that act on
every VM of a name. The platform itself is external and modelled by what the drivers rely on.

### Console

`call[p]` is what a goroutine (a handler or the sweeper) is doing: which client it uses, the token of
its last attempt, whether it has tried again. `token[c]` is `Client.token`, `lock[c]` its
`reauthMu`, `session` the entry of `consoleManager.sessions` for one deployment, `alive` the tokens
VBR accepts. The manager's lock is held for the map alone, so `Request` and the call it makes are
separate steps. So are `Renew`, the comparison of `reauthenticate`, and `Answered`, the answer to its
login: only `reauthMu` keeps a second goroutine from asking in between. A token may expire at any time.

### VeeamCalls and Craft

A request is a record of method, path, body and the ids it names; an id is the object it identifies.
`Plan` makes the list of steps as `craftapi.Plan` does; `at`, `phase` and `env` are where the running
script is and what its variables hold. `LookUp`, `Call`, `Register`, `FindPart`, `Create`, `Pending`,
`Update`, `SessionEnds` are the shapes of step the renderers produce. `Firsts` are the objects that
"data[0]" of a lookup may mean: `Alike` tells which names a filter finds besides the one it was given.
A session that is stopped passes for one that succeeded (`SessionStops`; `stopped` says what it
was to make). `Wire`, in `CraftSync`, is the
list of requests `internal/wiring` sends for the same topology when nothing fails. A repository is
its name, so `CraftAssumption` says that nobody gives the S3 repository the name of the repository
VBR comes with: VBR refuses a second one, and the script deletes the first by that name. It also
says that the filter for that name finds no other repository.

### DataDir

A file is its name and what it holds: nothing, a part, or a value. A goroutine that has a file open
(`fd`) follows it through a rename and keeps writing it when it has been deleted. `CreateTemp`,
`WriteTemp`, `RenameTemp` are `Store.Save` and `SaveSettings`; `mu` is the store's mutex, which the
settings do not have. `build` is the end of `job/runner.go` and of the worker, the ISO standing for
every file the script leaves. `Restart` clears `work/` and applies the settings it loads.

## 3. Runs

| Run | Question | Instance | Distinct states |
| --- | --- | --- | --- |
| `job_manager` | do records, rows, files and slots agree at every step, and does a client see only the lifecycle? | 3 jobs, 1 slot, caps 1 and 2, one failing store call, one restart | 0.54 million (modulo symmetry) |
| `job_liveness` | does every submitted job end? | 3 jobs, 1 slot, no faults, no restart | 48 thousand |
| `log_hub` | what do viewers get, and do streams end? | 2 emitters, 2 streams (one may stop reading), channel and ring of 1, 2 lines, both variants | 0.17 million |
| `log_hub_panic` | (violation) can logging panic? | same, 1 line | – |
| `deploy_retries` | a deployment and its Retry/RetryWire with Cancel, Remove, Delete at any point | 2 deployments of 1 node | 1.76 million |
| `deploy_single` | rows, stops and removals of one deployment, and does a client see only its lifecycle? | 1 deployment of 2 nodes, kickstart or powered off, impatient Remove, one store fault, one restart | 0.38 million |
| `wiring_rewire` | is a re-wire after any failure sound, and the HA preparation complete? | 3 nodes (2 HR, 1 proxy), 2 slots, HA, 2 backups, one attempt at a part, wired twice | 2.6 million |
| `wiring_ends` | does one failure end the wiring? | the same with S3, two attempts, wired once | 0.11 million |
| `drivers` | two nodes on one platform: whose VM, whose disks, whose installer, whose console? | six drivers, one or two deployments, kickstart or not, 2 disks, 2 failing calls, Remove at any point | 81 thousand |
| `console` | are tokens and clients neither lost nor leaked, and does every call end? | 2 goroutines, 2 clients, 4 tokens, one fault | 0.28 million |
| `craft` | do the scripts do what `Wire` does, and can they be run again? | six topologies, each bare and with every option, both shells, with a valid license or none, 2 runs, 2 faults | 63 thousand |
| `data_dir` | can anybody read half a file, and do file and managers agree? | 2 goroutines, 2 saves, one build, one full disk or restart | 0.42 million |

**Bounds, and why they are enough.** The slot count is below the number of jobs (or nodes), so
waiting, a release that lets another in, and a shutdown or failure while somebody waits all happen.
Three jobs with a cap of one give retention a choice of victim among finished jobs while another is
active. One store fault at any call (`StoreFaults = "one"`) separates before, at and after it; the
proofs cover any number. One restart already reloads every combination of rows; the properties about
it are about one reload, and the proofs cover any number. A channel of capacity one and a ring of
one line overflow with two lines. Two deployments sharing one node array exhibit all sharing there
is between a deployment and its retry; longer chains add more writers of the same cells. `MaxEmits`,
`MaxDeploy`, `MaxRestarts` and `MaxRuns` only bound how often something is started. `Impatient` says
for which deployments the 30-second wait may expire; any deployment can in the code, and
`deploy_single` covers it where the run and the Remove are alone. One Remove at a time per
deployment is a bound too. The attempt limits of the wiring (1 or 2 here, 3 and 5 in the code) and its
slots (2 here, 4 in the code) are parameters; two attempts exhibit first, last and exhausted. Two
clients are what a conflict over an id, a name or a file takes; two disks make a `CreateVM` that
fails between them; two faults make a step fail and its rollback too. Two goroutines and two clients
in the console make every pair of open, use, replace, close and sweep meet; four tokens let both
clients renew once after they were opened. Two runs of a script with two faults are a failure, a
re-run and a failure of the re-run. Two saves in `data_dir` are what an overlap takes; the proofs
cover any number of goroutines, saves and faults. Job ids are symmetric in the safety run only;
symmetry is not sound for the liveness run.

**Deadlock** is checked in the job and deployment runs, where it can say little: an administrator
can change the retention cap at any time. Goroutines that wait for ever are what the liveness
properties are for. The other models really stop, when every line is delivered, after the last
wiring or script run, when every VM is up or destroyed, or when their bounds are used up, and say so
with `CHECK_DEADLOCK FALSE`.

**Fairness, and why the code justifies it.** A goroutine that can run does run (the Go scheduler):
weak fairness per goroutine. A worker waiting to send on `m.sem` is served in FIFO order by the
channel, so a slot that is freed again and again is not withheld from it: strong fairness on
`AcquireSlot` and nothing else. The script ends (`pwsh` is not given a deadline by the code; that it
ends is an assumption of `job_liveness`). In a deployment, a driver call may hang while its context
lives; it returns once that is done, and a `Destroy` returns, *unless the driver is deaf at that call*
(`Deaf`): the interface promises cancellation (`hypervisor.go:7`), but the XCP-ng client hands its
context to none of its calls and its HTTP client has no time limit (`xcpng.go:57`), and Proxmox's
upload takes no context (`proxmox.go:186`). A call in `Deaf` gets no fairness, and
`EveryStopTakesEffect` and `EveryRemoveReturns` name exactly the hang in such a call as their exception.
The driver of `deploy_single` is Proxmox's, deaf at the upload. An XCP-ng driver is deaf at every call,
`Destroy` included, so that of it the two properties say only that nothing but such a call holds up a
stop or a Remove. Waits for addresses and for the wiring end because `WireTimeout`
bounds them. In the hub, a stuck client is owed nothing. In the wiring, nothing is
assumed of VBR, the nodes or `WireTimeout`. In the console, a call ends because the HTTP client has a
timeout, and a Go mutex starves nobody (its starvation mode hands it over): strong fairness on
`Lock`. No fairness is assumed of users, crashes, log lines or shutdown.

**Mutants.** Every property of a passing run has a mutated definition beside the original (marked
"Mutant" in the module): a forgotten save, a slot released on the wrong path, a blind creation
without a lookup, a mutex not taken, and so on. With the mutant in place TLC must find the property
violated.

## 4. Disagreements between code and documentation

One run, `log_hub_panic`, ends in a violation of what the code says of itself: `AppendLine` sends after
unlocking; a viewer that hangs up in between closes the channel, and a send on a closed channel panics
in spite of the `default` clause that is there to drop lines "rather than stalling the runner"
(`job.go:92`).

What follows was met while modelling. The models contain these behaviours, and the properties that
would otherwise be false name them as exceptions.

Jobs and deployments:

* `README.md:412` and `docs/architecture.md:76` speak of a history that is pruned to the limit. Jobs are
  pruned when one is submitted or the limit changes, not when one finishes; what was active then and
  finishes later stays.
* The worker saves its result outside `m.mu` without asking whether the job is still listed
  (`manager.go:258`). A Delete between `markResult` and `persist` removes the row, the save inserts it
  again, and after a restart the deleted job is back, although "Delete removes the DB row too"
  (`store_test.go:132`). `RowTracksJob` judges the rows of listed jobs only.
* The errors of the config snapshot are dropped (`manager.go:264`): `Done()` of a successful job may
  close with no `job-config.json` in its output folder. An import then falls back on the job's own
  config; once the job is deleted there is none.
* A job's `AppendLine` ranges over an alias of the subscriber slice, so a viewer that leaves can make
  another miss or repeat a line; `EveryLineOnce` holds of the deployment variant, which copies.
* Cancel of a pending deployment finds no cancel function (`deploy.go:885`); the flag it sets is not
  looked at when the run starts, and it makes every later Cancel return early.
* A `CreateVM` that fails after the hypervisor has accepted the VM leaves one whose id was never
  recorded (`proxmox.go:310`), which Remove does not find.
* "The work is bounded by ctx" (`deploy.go:908`), but an XCP-ng `Destroy` looks at no context, so one
  that hangs holds up its Remove for good; a Cancel does not reach an XCP-ng call or a Proxmox upload.
* A removed deployment can be re-wired: the VM references are never cleared.
* When the context is done before the goroutines of `wireVIANodes` have their slots, they return
  without an error, and `Wire` reports success with nodes unregistered (`wiring.go:315`).
* A VBR session that was stopped has no result, and wiring (`veeam.go:235`) and both scripts take that
  for success, by design for infrastructure sessions: what it was to make may be missing from a wiring
  that returns nil, or from a script that comes to its end.
* A first hardened repository whose id the last lookup does not find counts as none
  (`wiring.go:382`): the cluster is then made without its preparation.
* The S3 repository, its credentials and the HA cluster are created again by a re-wire, which
  `README.md:286` calls idempotent.

Drivers:

* XCP-ng: `SetBootDiskThenCD` replaces the map of HVM boot parameters and with it the firmware
  setting; when `VBD.Create` fails the VDI it was for is not destroyed; the session is never renewed,
  although the comment speaks of "re-logging in when needed".
* Workstation: VNC ports are counted per driver value, so two deployments on one host may get the
  same one; the exit code of the command that deletes the VM is not looked at.
* Hyper-V: most cmdlets take the name, and act on every VM that has it.
* vSphere, Hyper-V and Workstation write a library ISO in place, so `FindISO` returns one that is
  still being uploaded.
* `GetVMIP` is documented to return the first non-loopback, non-link-local IPv4 address
  (`hypervisor.go:101`); vSphere, XCP-ng, Nutanix and Workstation return the first address their
  platform reports, or filter it less.

Console: a request that is in flight when its client is dropped logs that client in again, and so
does nothing to end the token; a lost answer does the same.

Craft API against `Wire` (`render.go:687` and `craftapi.go:6` promise the same calls). `InSync` leaves
out these cases, listed in `Mirrored`:

* HA without a hardened repository (Wire skips the preparation, the plan does not), HA with no cluster
  address, backups left in the default repository (Wire deletes them, the script does not).
* The body of the basic-auth call lacks its type; the S3 endpoint is not normalised; the mount server
  is found by hostname or taken as the first of the list; a VBR server that is known by its hostname
  only is not found. A node without a hostname gives its repository its address in the script
  (`craftapi.go:686`) and nothing in Wire.
* Nodes that share an address, or the name of their repository, with each other or with the VBR
  server: both sides find the second one registered. `Wire` of `CraftSync` has no lookups, so the
  comparison leaves these topologies out (the proof of `InSync` asked for it; the run has none).
* "GET first, POST only when not already valid" (`craftapi.go:196`): the GET is sent, and the POST after
  it whatever it answers. `Wire` skips the installation where the license is valid (`wiring.go:613`).
* "We pin the primary VSA" (`craftapi.go:253`) by `data[0]` of a name filter, which on a re-run may be a
  node whose address contains the VSA's. The other lookups keep the exact name only.
* A proxy is created without a look whether it exists, so a re-run adds a second one.
* In standalone mode (wiring into somebody else's VBR) the licence is installed, too, on every run,
  and a hardened repository has no mount server. The scripts do not wait for the secondary node.
* bash: `${hrMount_id}` stands in single quotes (`render.go:826`), so the body of a hardened
  repository names no mount server; refused calls are read over; a lookup that fails counts as "not
  found"; a failed component-update session ends the script, where PowerShell and Wire go on.
* A re-run after the default repository is gone sends a DELETE with an empty id, which stops the
  PowerShell script.

Data directory:

* `SaveSettings` says that it "atomically writes", matching `config.Store.Save` (`settings.go:35`), and
  has no mutex: two overlapping requests share `settings.json.tmp`, which may leave a torn file
  (`LoadSettings` then falls back to 20) or file and managers with different caps.
* A cross-device copy that fails is only logged, and a failed script's part of an ISO is collected:
  both are listed as outputs (`spoilt`).
* The PS1 override is truncated and written in place while a job may be copying it.

## 5. Proofs

`JobManager_proofs` proves, for every set of job ids (finite or not), every capacity, every set of
retention caps and any number of store failures and restarts, from `JobManagerAssumption` alone
(capacity and caps are positive naturals):

* `TypeCorrect` and `SlotsBalanceTheorem`, from `TypedSlots`: the types together with `sem =
  Cardinality(Holders)`, `Holders` finite and `sem <= MaxConcurrent`. Neither is inductive alone:
  that `sem - 1` stays a natural number needs the balance, and the balance needs the types. The
  lemmas `SlotsGain`, `SlotsLose`, `SlotsKeep` carry the cardinality arithmetic once.
* `ActiveIsOwnedTheorem`, `ConfigKeptTheorem`, `DoneMeansCompleteTheorem` and
  `DurableVerdictTheorem`, from `JobInv`: types and, for every job, `Sound(j)`, a conjunction of
  four facts indexed by where the thread stands: `Phase` (which states go with which pc), `Kept`
  (the config file and the registration of unfinished jobs), `Files` (staging and snapshots) and
  `RowVerdict` (a row with a verdict belongs to a thread that has recorded that verdict).
  `DoneMeansComplete` asks for a snapshot that was tried, and for the config itself where it failed. The
  properties are not inductive: that a late save cannot overwrite a verdict needs to know that the
  thread's record already carries it, and that retention spares inputs needs that a job without a
  verdict is in an active state. The step lemma has one case per action; Delete, retention and
  Restart are the ones that touch other jobs.
* `RowTracksJobTheorem`, from `JobInv` and `Tracked(j)`: while no call has failed, what the row of j
  holds at each place of its thread, the places just before a save included.
* `Refinement`: the initial state maps to the initial state of `JobLifecycle`, and every step to a
  lifecycle step or a stutter; a Submit that prunes is one abstract step, a Restart is `Reboot`.

`DataDir_proofs` proves, for any set of goroutines (0 is not one of them: it stands for the unlocked
mutex) and any number of saves, faults and restarts:

* `StoredIsWholeTheorem` and `CapsAgreeTheorem`, from `SaveInv`. Neither property is inductive: that a
  rename puts a whole file in place needs `TempFile` (what the temporary file holds between the write
  and the rename), which needs that nobody else writes it, which is `OneSaver` with `Handles` (which
  file an open handle has come to mean). For the presets `OneSaver` follows from the mutex (`Locked`),
  for the settings from the exception of the property. `Applied` says how far a settings request has
  got when file and managers differ. Types alone are not inductive either: that a rename finds a name
  needs `Named`. Steps that have nothing to do with a save are one lemma (`SaveElsewhere`).
* `DeployedIsWholeTheorem` and `ImportFallsBackTheorem`, from `BuildInv`, which needs `SaveInv` for one
  fact: no handle of a save ever means a file of the output folder. The argument is the order of
  the worker: the snapshot is whole only when the build is over (`LastIsConf`), from the collection
  on the ISO is whole or gone (`Collected`), and a deployment looks for the ISO after the snapshot
  (`Seen`).

`DeployManager_proofs` proves, for any set of deployments, plans of any length, any caps and any
number of retries, cancels, faults and restarts, from the assumptions of the module alone:

* `CreatedVMsAreRecorded`, `RowsFollowRecords`, `WiringGetsAddresses` and `RetentionHolds`, from
  `ManagerInv`. None is inductive. That a made VM is on record, and on the list of a Remove that is
  destroying (`Accounted`), needs that such a Remove has the record to itself unless it gave up
  waiting (`RemoverAlone`), and that state and place of the run agree (`Agreed`). The row of a record
  at rest is that record (`RowSaved`) because at every other place it is behind in one known way
  (`RowBehind`). The wiring gets its addresses (`Deployed`) because a node that has none has a poll
  at work on the array the run was started with, whoever shares it (`Placed`). Retention rests on
  `AtMostNewest`: of a finite set of numbers at most n have fewer than n above them, which takes a
  least element and so well-foundedness.
* `ClientsSeeALifecycle`: the initial states are initial states of `DeployLifecycle`, and each step is
  one of its steps or a stutter under the mapping of the module.

`Wiring_proofs` proves, for any topology, number of slots, attempts, backups and wirings, from
`WiringAssumption`:

* `NothingRegisteredTwice`, from `Once`: the goroutine of a node that is about to add something has
  looked it up before, under one slot, and no session of an earlier wiring is still adding it
  (`HostOnce`, `PartOnce`). The exception about left sessions is the one of the property.
* `NilMeansWired`, from `Achieved(v)`, what a goroutine has done by the place where it stands;
  `ClusterIsPrepared` and `ConfigBackupIsKept`, from `Prepared`: the order of `wireHA`, and that what
  it has brought about stays so, on a re-wire too. A stopped session is the one way past a step without
  its effect, and what it was to make is in `stopped` for good. `Resolving` and `Budget` are the types'
  help.

`Console_proofs` proves, for any number of goroutines, clients and tokens, from `ConsoleAssumption`:
`DroppedClientsAreLoggedOut` and the action property `NoTokenIsLost`, from `ConsoleInv`: a client
belongs to the goroutine that opens it until it is the session's (`OpenerAlone`), nobody logs the
session's client out (`SessionInUse`), a token that was refused is never accepted again
(`Refused`), one goroutine at a time compares the tokens of a client and asks for another, and what
it has found unchanged stays so until the answer (`Renewing`, the argument about `reauthMu`), and a
dropped client has one goroutine left at most, which knows its token (`Logout`).

`LogHub_proofs` proves, for any number of emitters, viewers and lines and any capacity, from
`LogHubAssumption`:

* `ViewersSeeEveryLine` is about the deployment's hub, which copies the slice before it sends, and
  `StreamsEndWithTheOutcome` about both. `Roster` (the slice is a window on its backing array, with
  nobody in it twice) holds of both variants; `CopyInv` adds what a fan-out still owes to whom and that
  it was not sent yet (`Flight`), that two fan-outs are of two lines (`TwoLines`), that a copy has
  nobody twice (`Fan`), and that what was sent came after the history, each line once (`Sound`). The
  lemmas `AppendShape` and `RemoveShape` say what Go's `append` and the removal idiom do to the
  window; `MoveOne` and `AddOne` what reading and sending do to a stream.

`Drivers_proofs` proves, for any set of clients and disks, any number of failing calls and both
sharings, from `HypervisorAssumption`, of all six drivers:

* `VMsAreTheirOwn`, `NodesInstall` and the action property `OthersAreLeftAlone`. Every action of a
  driver has one of twelve shapes (`Fetches`, `Chooses`, `Creates`, `Alters`, `Destroys`, ...), one lemma
  per driver; the invariant is then kept shape by shape and not action by action. `DriversInv`
  says of a client what its place in the sequence of calls entitles it to (`Staged`, `Held`, `Half`,
  `Reserved`, `Build`), of the library which entries are whole, and of a VM where its files are
  (`Home`), which of them exist (`Kept`) and that two VMs never use the same ones (`Alone`).
  `Bystander` and `RespectsOthers` say what a step of one client leaves to the others, and are the core
  of both safety and `HandsOff`. The address a node reports is left out of the types: it is made by
  `SelectSeq`, and nothing rests on it.

`Craft_proofs` proves, for every specification (any nodes, options and object storage), either shell,
any number of runs and of calls that fail, from `CraftAssumption`:

* `EndMeansWired`, `ClusterComesLast` and the action property `NothingIsAddedTwice`, from
  `CraftInvariant`. The difficulty is that the plan is made anew at each step from the variables
  captured so far, and has any length. `PlanFacts` says what does not depend on them: the steps of
  `Outline`, the plan with no variable set, have the same kinds and nodes; each step has one of eight
  forms (`PlainForm` to `StoreForm`); there is one for everything that is asked for; and the step that
  makes the cluster comes after one that removes the default repository (`Ordered`).
* `CraftInv` then says of every step of the outline that was passed what it has left on the server, or
  that its session was stopped (`Settled`, `Done`), what the lookups of the step at hand have found (`Found`), which phases a kind of step
  has (`Placed`), what the variables for repositories can hold (`Captured`), and that the server has
  the repository of its configuration backup (`Backed`). None of the three properties is inductive
  alone: a rerun begins with no variable set, on a server that has kept what the last run left
  (`Grown`), and that an accepted DELETE is that of the default repository, rests on `Captured` and on
  the ids the server knows.
* Each form of request has a lemma about its effect, each action one that reduces it to `Outcome`.
  The proof found an ambiguity in the model, now gone: two arms of `Effect` held of a DELETE.
* `ScriptsSendTheSame`: `InSync`, which compares two lists of requests, body by body, for topologies
  of any size. The argument goes along `Ideal`, the plan with every variable set to what it is meant
  to hold (`Intended`). Of `Ideal` alone, part by part in the order of `Plan`, `IdealFacts` shows that
  what its steps send (`Writes`, `SendsAll`) is `Wire`; that the plan at hand has the same step wherever
  the variables the step reads hold what they are meant to (`Twins`); that every variable is set by
  a step before the one that reads it (`Fed`); and that no step undoes or repeats an earlier one
  (`Apart`). Of a run without a fault, `InStep` says that `sent` is `Sends(Ideal, at - 1)` and the
  part that belongs to the phase, that the steps passed have left their variables and objects
  (`Kept`), and that the server holds nothing else (`Bounded`). With the two, every request is
  accepted (`Accepted`) and every lookup before an add finds nothing, which is what keeps the script
  on its way. `InStep` was checked with TLC in all states of the run before it was proved.
* `Among` and the `FlattenSeq` of the community modules are recursive functions, so that such functions
  exist is shown first (`FilterExists`, `FlatteningExists`). What holds of each beginning of a
  sequence is proved by induction on its length, as a set of lengths (`UpTo`).
* `Names` is `STRING` with the literals of the model added, because the provers do not know that a
  literal is a string.

Model-checked only: liveness (`EveryJobFinishes`, `EveryStopTakesEffect`, `EveryRemoveReturns`, `LoggingNeverStalls`,
`StreamsEnd`, `FailureEndsWiring`, `CallsEnd`), which the prover cannot do under fairness.

## 6. Not modelled

* Authentication: cryptographic primitives and request filtering.
* Configuration schema, defaults, validation, topology catalog: checks and tables without state.
* Driver operations without a caller (`DetachISO`, `SetBootFromCD`, `SetBootFromDisk`, `PowerOff`) and
  discovery, which only reads. `Deployment.emit` (progress events through the same fan-out, not
  buffered).
* Form decoding, page rendering, translations, uploads of media, the PS1 override.
* Boot-command text, log wording, upload percentages, step labels.
* The bytes and tables of SQLite: a row is its state and finish time; one call is atomic.
* TLS, timeouts as durations, JSON decoding.
* Which last lines of a script the operating system delivers after it has exited.

## 7. Plan

Done: every component that keeps state shared between actors is modelled, and every safety invariant
and safety action property that a run checks is proved. Possible extensions: the
preparation of a build (the override script that a job copies), and discovery.
