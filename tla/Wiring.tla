------------------------------- MODULE Wiring -------------------------------
(***************************************************************************)
(* internal/wiring: the Wirer registers a deployed topology in the Veeam   *)
(* server (VBR) over REST.  One goroutine per VIA node adds the node as a  *)
(* host and then its hardened repository (HR) or its proxy; the main       *)
(* goroutine joins them, prepares and creates the HA cluster, and applies  *)
(* the advanced options.  Process 0 is the main goroutine, process v the   *)
(* goroutine of the v-th VIA node of the topology.                         *)
(*                                                                         *)
(* VBR is external: it answers a call, refuses it, or does it and loses    *)
(* the answer, and it runs sessions that may outlive the wiring that       *)
(* started them.  A session that somebody stopped ends without a result,   *)
(* which WaitSession takes for success although nothing may be there.  A   *)
(* call made with a done context has no effect.                            *)
(***************************************************************************)
EXTENDS Naturals, FiniteSets

CONSTANTS
    N,                    \* VIA nodes
    HRs,                  \* the VIA-HR nodes; the others are VIA-Proxy nodes
    HA,                   \* two VSA nodes
    S3,                   \* an object-storage repository is configured
    Backups,              \* backups in the Default Backup Repository at first
    MaxParallel,          \* maxParallelWiring, 4 in the code
    MaxComponentAttempts, \* maxComponentAttempts, 3 in the code
    MaxS3Attempts,        \* maxS3Attempts, 5 in the code
    MaxRuns               \* bound: calls of Wire (the first, then re-wires)

Via  == 1 .. N
Proc == 0 .. N

ASSUME WiringAssumption ==
    /\ N \in Nat /\ HRs \subseteq Via
    /\ HA \in BOOLEAN /\ S3 \in BOOLEAN
    /\ MaxParallel \in Nat \ {0} /\ MaxComponentAttempts \in Nat \ {0}
    /\ MaxS3Attempts \in Nat \ {0} /\ MaxRuns \in Nat

VARIABLES
    phase,     \* where the main goroutine is
    pc,        \* where each node's goroutine is
    round,     \* createWithComponents attempt of each process
    tries,     \* retryS3 attempt
    sess,      \* the session a process waits for
    hrResults, \* nodes whose hardened repository this fan-out has recorded
    blank,     \* those of them recorded with an empty id
    todo,      \* backups removeDefaultRepository has listed and not deleted yet
    err,       \* firstErr # nil
    ctx,       \* the caller's context, done once canceled or after WireTimeout
    result,    \* what the last Wire returned
    runs,
    hosts, parts, s3repos,  \* VBR: copies of each host, of its HR or proxy, of the S3 repository
    backups, defaultRepo,   \* VBR: the Default Backup Repository
    backupTo,               \* VBR: where the config backup goes, 0 for the default repository
    cluster,                \* VBR: the HA cluster exists
    left,                   \* VBR: sessions whose wiring no longer waits for them
    raced,                  \* nodes that were looked up while such a session was adding them
    stopped                 \* nodes whose part's session ended in this wiring without result or part

retry == <<round, tries>>
found == <<hrResults, blank>>
repos == <<backups, defaultRepo, backupTo>>
added == <<hosts, parts, s3repos, cluster>>
vars  == <<phase, pc, retry, sess, found, todo, err, ctx, result, runs, added, repos,
           left, raced, stopped>>

WorkerPcs == {"spawned", "entered", "up", "lookup", "hostwait", "relookup", "part", "create",
              "update", "partwait", "resolve", "done"}
Phases    == {"idle", "ready", "mount", "fan", "redirect", "purge", "delete", "pair", "create",
              "clusterwait", "advanced", "folder", "s3", "update", "s3wait"}

-----------------------------------------------------------------------------
Live    == ctx = "live"
FanLive == Live /\ ~err     \* fanCtx: canceled with ctx, and by the first failure

\* Slots of the semaphore in use.
Holding == {v \in Via : pc[v] \notin {"spawned", "done"}}

\* hardenedRepoID: the id recorded with the lowest index, 0 for none or an empty one.
HardenedRepo ==
    LET first == CHOOSE v \in hrResults : \A u \in hrResults : v <= u
    IN  IF hrResults = {} \/ first \in blank THEN 0 ELSE first

\* What the session of a waiting process creates.
Kind(p) == IF p = 0 THEN (IF phase = "clusterwait" THEN "cluster" ELSE "s3")
           ELSE (IF pc[p] = "hostwait" THEN "host" ELSE "part")

Waiting(p) == IF p = 0 THEN phase \in {"clusterwait", "s3wait"}
              ELSE pc[p] \in {"hostwait", "partwait"}

\* The session that is left to itself when p gives up.
Abandoned(p) == IF Waiting(p) /\ sess[p] = "running" THEN {<<p, Kind(p)>>} ELSE {}

Init ==
    /\ phase = "idle" /\ pc = [v \in Via |-> "done"]
    /\ round = [p \in Proc |-> 1] /\ tries = 1
    /\ sess = [p \in Proc |-> "none"] /\ hrResults = {} /\ blank = {} /\ todo = {}
    /\ err = FALSE /\ ctx = "live" /\ result = "none" /\ runs = 0
    /\ hosts = [v \in Via |-> 0] /\ parts = [v \in Via |-> 0] /\ s3repos = 0
    /\ backups = Backups /\ defaultRepo = TRUE /\ backupTo = 0
    /\ cluster = FALSE /\ left = {} /\ raced = {} /\ stopped = {}

\* Wire is called, by a deployment or by a re-wire of it.
Wire ==
    /\ phase = "idle" /\ runs < MaxRuns
    /\ runs' = runs + 1 /\ phase' = "ready" /\ result' = "none"
    /\ ctx' = "live" /\ err' = FALSE
    /\ round' = [p \in Proc |-> 1] /\ tries' = 1
    /\ sess' = [p \in Proc |-> "none"] /\ hrResults' = {} /\ blank' = {} /\ todo' = {}
    /\ stopped' = {}
    /\ UNCHANGED <<pc, added, repos, left, raced>>

\* The deployment is stopped, or WireTimeout expires.
CtxDone ==
    /\ phase # "idle" /\ Live /\ ctx' = "done"
    /\ UNCHANGED <<phase, pc, retry, sess, found, todo, err, result, runs, added, repos,
                   left, raced, stopped>>

-----------------------------------------------------------------------------
(* The goroutine of node v.                                                *)

notWorkers == <<phase, tries, todo, ctx, result, runs, added, repos, stopped>>

\* The goroutine moves on and changes nothing else.
Goto(v, from, to) ==
    /\ pc[v] = from /\ pc' = [pc EXCEPT ![v] = to]
    /\ UNCHANGED <<err, notWorkers>>

Move(v, from, to) == Goto(v, from, to) /\ UNCHANGED <<round, sess, found, left, raced>>

\* A slot; a canceled fan-out is noticed again once the slot is held.
AcquireSlot(v) ==
    /\ Cardinality(Holding) < MaxParallel
    /\ Move(v, "spawned", IF FanLive THEN "entered" ELSE "done")

\* The fan-out is canceled before a slot is free: the goroutine just returns.
SkipNode(v) == ~FanLive /\ Move(v, "spawned", "done")

\* The node has an address: waitNodeUp is next.
CheckAddress(v) == Move(v, "entered", "up")

NodeUp(v) == FanLive /\ Move(v, "up", "lookup")

\* A former wiring's session is adding what a lookup now finds missing.
Racing(v, kind) == raced' = raced \cup IF <<v, kind>> \in left THEN {v} ELSE {}

\* FindManagedServerByName: an unknown host is added, in a session.
AddHost(v) ==
    /\ FanLive /\ hosts[v] = 0 /\ Goto(v, "lookup", "hostwait")
    /\ sess' = [sess EXCEPT ![v] = "running"] /\ Racing(v, "host")
    /\ UNCHANGED <<round, found, left>>

SkipHost(v) == FanLive /\ hosts[v] > 0 /\ Move(v, "lookup", "part")

HostAdded(v) == FanLive /\ sess[v] = "ok" /\ Move(v, "hostwait", "relookup")

\* The second FindManagedServerByName; a host still unknown is a failure.
ResolveHost(v) == FanLive /\ hosts[v] > 0 /\ Move(v, "relookup", "part")

\* Mutant: a part is created without looking for it.
PartMissingBlind(v) ==
    /\ FanLive /\ Goto(v, "part", "create")
    /\ Racing(v, "part") /\ UNCHANGED <<round, sess, found, left>>

\* FindRepositoryByName, FindProxyByHost: what is missing is created ...
PartMissing(v) ==
    /\ FanLive /\ parts[v] = 0 /\ Goto(v, "part", "create")
    /\ Racing(v, "part") /\ UNCHANGED <<round, sess, found, left>>

\* ... and what exists is not created again.
SkipPart(v) ==
    /\ FanLive /\ parts[v] > 0 /\ Goto(v, "part", "done")
    /\ hrResults' = hrResults \cup ({v} \cap HRs)
    /\ UNCHANGED <<round, sess, blank, left, raced>>

\* AddHardenedRepository, AddVmwareProxy: accepted, it runs in a session.
CreatePart(v) ==
    /\ FanLive /\ Goto(v, "create", "partwait")
    /\ sess' = [sess EXCEPT ![v] = "running"]
    /\ UNCHANGED <<round, found, left, raced>>

\* Refused, as the host is pending a components update.
PartPending(v) == FanLive /\ round[v] < MaxComponentAttempts /\ Move(v, "create", "update")

\* UpdateHostComponents and the wait for it; whatever comes of them, create again.
UpdateComponents(v) ==
    /\ Goto(v, "update", "create") /\ round' = [round EXCEPT ![v] = @ + 1]
    /\ UNCHANGED <<sess, found, left, raced>>

PartCreated(v) ==
    /\ FanLive /\ sess[v] = "ok" /\ Move(v, "partwait", IF v \in HRs THEN "resolve" ELSE "done")

\* The repository is looked up and its id recorded for the config backup, an empty one too.
ResolveRepo(v) ==
    /\ FanLive /\ Goto(v, "resolve", "done") /\ hrResults' = hrResults \cup {v}
    /\ blank' = IF parts[v] = 0 THEN blank \cup {v} ELSE blank
    /\ UNCHANGED <<round, sess, left, raced>>

\* fail: the first error is kept, the fan-out canceled, the slot released.
Fail(v) == pc' = [pc EXCEPT ![v] = "done"] /\ err' = TRUE

\* Mutant: waitNodeUp does not look at fanCtx.
FailNodeDeaf(v) ==
    /\ pc[v] \notin {"spawned", "done", "update", "up"}
    /\ Fail(v) /\ left' = left \cup Abandoned(v)
    /\ UNCHANGED <<round, sess, found, raced, notWorkers>>

FailNode(v) ==
    /\ pc[v] \notin {"spawned", "done", "update"}
    /\ Fail(v) /\ left' = left \cup Abandoned(v)
    /\ UNCHANGED <<round, sess, found, raced, notWorkers>>

\* An add is accepted but its answer lost: a failure here, a session at VBR.
FailUnanswered(v) ==
    /\ FanLive /\ pc[v] \in {"lookup", "create"} /\ (pc[v] = "lookup" => hosts[v] = 0)
    /\ Fail(v)
    /\ LET kind == IF pc[v] = "lookup" THEN "host" ELSE "part"
       IN  /\ left' = left \cup {<<v, kind>>}
           /\ IF kind = "host" THEN Racing(v, kind) ELSE UNCHANGED raced
    /\ UNCHANGED <<round, sess, found, notWorkers>>

Worker(v) ==
    \/ AcquireSlot(v) \/ SkipNode(v) \/ CheckAddress(v) \/ NodeUp(v)
    \/ AddHost(v) \/ SkipHost(v) \/ HostAdded(v) \/ ResolveHost(v)
    \/ PartMissing(v) \/ SkipPart(v)
    \/ CreatePart(v) \/ PartPending(v) \/ UpdateComponents(v)
    \/ PartCreated(v) \/ ResolveRepo(v) \/ FailNode(v) \/ FailUnanswered(v)

-----------------------------------------------------------------------------
(* The main goroutine.                                                     *)

notMain == <<found, err, ctx, runs, added, raced, stopped>>

\* The next phase, and nothing but it.
Proceed(from, to) ==
    /\ phase = from /\ phase' = to
    /\ UNCHANGED <<pc, retry, sess, todo, result, repos, left, notMain>>

Return(r) == phase' = "idle" /\ result' = r

\* waitReady polls until it is logged in; then the licence, unless it is installed.
Ready == Live /\ Proceed("ready", "mount")

\* resolveMountServer goes on whatever it finds; every node gets its goroutine.
ResolveMount ==
    /\ phase = "mount" /\ phase' = "fan" /\ pc' = [v \in Via |-> "spawned"]
    /\ UNCHANGED <<retry, sess, todo, result, repos, left, notMain>>

\* Mutant: firstErr is not looked at.
JoinIgnoringErrors ==
    /\ phase = "fan" /\ \A v \in Via : pc[v] = "done"
    /\ phase' = IF ~HA THEN "advanced" ELSE IF HardenedRepo = 0 THEN "pair" ELSE "redirect"
    /\ UNCHANGED <<pc, retry, sess, todo, result, repos, left, notMain>>

\* Mutant: the cluster is created without its preparation.
JoinUnprepared ==
    /\ phase = "fan" /\ \A v \in Via : pc[v] = "done"
    /\ IF err THEN Return("error")
       ELSE phase' = (IF ~HA THEN "advanced" ELSE "pair") /\ UNCHANGED result
    /\ UNCHANGED <<pc, retry, sess, todo, repos, left, notMain>>

\* wg.Wait: the first error is Wire's, otherwise the HA preparation or the rest follows.
Join ==
    /\ phase = "fan" /\ \A v \in Via : pc[v] = "done"
    /\ IF err THEN Return("error")
       ELSE /\ phase' = IF ~HA THEN "advanced" ELSE IF HardenedRepo = 0 THEN "pair" ELSE "redirect"
            /\ UNCHANGED result
    /\ UNCHANGED <<pc, retry, sess, todo, repos, left, notMain>>

\* A call changes the repositories; if its answer is lost, Wire fails nevertheless.
Call(from, to) ==
    /\ Live /\ phase = from
    /\ (phase' = to /\ UNCHANGED result) \/ Return("error")
    /\ UNCHANGED <<pc, retry, sess, left, notMain>>

\* Mutant: a failed redirection is passed over.
RedirectAnyway ==
    /\ phase = "redirect" /\ phase' = "purge" /\ backupTo' \in {backupTo, HardenedRepo}
    /\ UNCHANGED <<pc, retry, sess, todo, result, backups, defaultRepo, left, notMain>>

RedirectConfigBackup ==
    Call("redirect", "purge") /\ backupTo' = HardenedRepo /\ UNCHANGED <<todo, backups, defaultRepo>>

\* removeDefaultRepository: nothing to do, or the backups in it are listed ...
DefaultAbsent == Live /\ ~defaultRepo /\ Proceed("purge", "pair")

ListBackups ==
    /\ Live /\ defaultRepo /\ phase = "purge" /\ phase' = "delete" /\ todo' = backups
    /\ UNCHANGED <<pc, retry, sess, result, repos, left, notMain>>

\* ... and deleted one by one, the session of each taken as part of the call, and the
\* repository last.
DeleteBackup(b) ==
    /\ b \in todo /\ Call("delete", "delete")
    /\ todo' = todo \ {b} /\ backups' = backups \ {b} /\ UNCHANGED <<defaultRepo, backupTo>>

DeleteRepository ==
    /\ todo = {} /\ Call("delete", "pair")
    /\ defaultRepo' = FALSE /\ UNCHANGED <<todo, backups, backupTo>>

\* createHA: the secondary is up, its credentials and certificate are there.
PairSecondary == Live /\ Proceed("pair", "create")

\* A creation runs in a session; if the answer is lost, it runs without us.
Create(from, to, kind) ==
    /\ Live /\ phase = from
    /\ \/ /\ phase' = to /\ sess' = [sess EXCEPT ![0] = "running"]
          /\ UNCHANGED <<result, left>>
       \/ Return("error") /\ left' = left \cup {<<0, kind>>} /\ UNCHANGED sess
    /\ UNCHANGED <<pc, retry, todo, repos, notMain>>

CreateHACluster == Create("create", "clusterwait", "cluster")

ClusterCreated == Live /\ sess[0] = "ok" /\ Proceed("clusterwait", "advanced")

\* applyAdvanced: settings and S3 credentials, when they are configured.
ApplySettings == S3 /\ Live /\ Proceed("advanced", "folder")

Done == ~S3 /\ phase = "advanced" /\ Return("ok")
            /\ UNCHANGED <<pc, retry, sess, todo, repos, left, notMain>>

\* The mount server lookup and the folder: a failure is logged and passed over.
CreateFolder == Proceed("folder", "s3")

AddS3Repository == Create("s3", "s3wait", "s3")

\* retryS3: not ready yet, the same call again.
RetryS3 ==
    /\ Live /\ phase = "s3" /\ tries < MaxS3Attempts /\ tries' = tries + 1
    /\ UNCHANGED <<phase, pc, round, sess, todo, result, repos, left, notMain>>

S3Pending == Live /\ round[0] < MaxComponentAttempts /\ Proceed("s3", "update")

S3Update ==
    /\ phase = "update" /\ phase' = "s3"
    /\ round' = [round EXCEPT ![0] = @ + 1] /\ tries' = 1
    /\ UNCHANGED <<pc, sess, todo, result, repos, left, notMain>>

S3Created == phase = "s3wait" /\ Live /\ sess[0] = "ok" /\ Return("ok")
                 /\ UNCHANGED <<pc, retry, sess, todo, repos, left, notMain>>

\* A call fails, a session fails or takes too long, or the context is done.
Abort ==
    /\ phase \in Phases \ {"idle", "mount", "fan", "folder", "update"}
    /\ phase = "advanced" => S3
    /\ Return("error") /\ left' = left \cup Abandoned(0)
    /\ UNCHANGED <<pc, retry, sess, todo, repos, notMain>>

Main ==
    \/ Ready \/ ResolveMount \/ Join
    \/ RedirectConfigBackup \/ DefaultAbsent \/ ListBackups
    \/ (\E b \in Backups : DeleteBackup(b)) \/ DeleteRepository
    \/ PairSecondary \/ CreateHACluster \/ ClusterCreated
    \/ ApplySettings \/ Done \/ CreateFolder
    \/ AddS3Repository \/ RetryS3 \/ S3Pending \/ S3Update \/ S3Created
    \/ Abort

-----------------------------------------------------------------------------
(* VBR's sessions.                                                         *)

\* What a successful session leaves behind.
Created(p, kind) ==
    /\ hosts' = IF kind = "host" THEN [hosts EXCEPT ![p] = @ + 1] ELSE hosts
    /\ parts' = IF kind = "part" THEN [parts EXCEPT ![p] = @ + 1] ELSE parts
    /\ s3repos' = IF kind = "s3" THEN s3repos + 1 ELSE s3repos
    /\ cluster' = (cluster \/ kind = "cluster")

notSessions == <<phase, pc, retry, found, todo, err, ctx, result, runs, repos, raced>>

SessionEnds(p) ==
    /\ Waiting(p) /\ sess[p] = "running"
    /\ \/ sess' = [sess EXCEPT ![p] = "ok"] /\ Created(p, Kind(p)) /\ UNCHANGED stopped
       \/ sess' = [sess EXCEPT ![p] = "failed"] /\ UNCHANGED <<added, stopped>>
       \/ /\ sess' = [sess EXCEPT ![p] = "ok"] /\ UNCHANGED added   \* state "Stopped", no result
          /\ stopped' = IF Kind(p) = "part" THEN stopped \cup {p} ELSE stopped
    /\ UNCHANGED <<left, notSessions>>

LeftSessionEnds ==
    \E s \in left :
        /\ left' = left \ {s}
        /\ Created(s[1], s[2]) \/ UNCHANGED added
        /\ UNCHANGED <<sess, stopped, notSessions>>

Next ==
    \/ Wire \/ CtxDone \/ Main
    \/ \E v \in Via : Worker(v)
    \/ \E p \in Proc : SessionEnds(p)
    \/ LeftSessionEnds

Spec == Init /\ [][Next]_vars

\* Goroutines run.  VBR and the nodes owe nothing, and no timeout is assumed.
FairSpec == Spec /\ WF_vars(Main) /\ \A v \in Via : WF_vars(Worker(v))

-----------------------------------------------------------------------------
(* Properties.                                                             *)

\* The host is registered, and its repository or proxy.
Registered(v) == hosts[v] > 0 /\ parts[v] > 0

\* The variables keep their types; a creation refused for its host's components is
\* tried at most maxComponentAttempts times, an S3 call at most maxS3Attempts times.
TypeOK ==
    /\ phase \in Phases /\ pc \in [Via -> WorkerPcs]
    /\ round \in [Proc -> 1 .. MaxComponentAttempts] /\ tries \in 1 .. MaxS3Attempts
    /\ sess \in [Proc -> {"none", "running", "ok", "failed"}]
    /\ hrResults \subseteq HRs /\ blank \subseteq hrResults /\ todo \subseteq backups /\ backups \subseteq Backups
    /\ err \in BOOLEAN /\ ctx \in {"live", "done"}
    /\ result \in {"none", "ok", "error"} /\ runs \in 0 .. MaxRuns
    /\ hosts \in [Via -> Nat] /\ parts \in [Via -> Nat] /\ s3repos \in Nat
    /\ defaultRepo \in BOOLEAN /\ cluster \in BOOLEAN /\ backupTo \in {0} \cup HRs
    /\ left \subseteq (Via \X {"host", "part"}) \cup ({0} \X {"cluster", "s3"})
    /\ raced \subseteq Via /\ stopped \subseteq Via

\* However often a topology is wired, with errors and lost answers in between, no host,
\* repository or proxy is registered twice, unless a wiring looked for it while the session
\* of a former one was still adding it (find-before-add, in wireVIANodes).
NoDuplicates == \A v \in Via \ raced : hosts[v] <= 1 /\ parts[v] <= 1

\* As good as registered for the fan-out: only a part whose session was stopped is missing,
\* which WaitSession takes for success; a host that is missing is noticed in any case.
Settled(v) == hosts[v] > 0 /\ (parts[v] > 0 \/ v \in stopped)

\* The first hardened repository of the topology exists; its session was not stopped.
FirstHardened == \E v \in HRs \ stopped : \A u \in HRs : v <= u

\* A Wire that returns nil, with its context alive, has registered every node, the parts whose
\* session was stopped excepted: no failure of a goroutine is lost among the others, and none
\* gives up without one (wireVIANodes, WaitSession).
WiredUnlessStopped == result = "ok" /\ Live => \A v \in Via : Settled(v)

\* createHA asks for the cluster only when every node is registered and, in a topology with
\* a hardened repository, the config backup is on it and the default repository gone.  A
\* stopped session excepts the part, and the move if that part is the first repository.
ClusterPrerequisites ==
    phase = "create" => /\ \A v \in Via : Settled(v)
                        /\ FirstHardened => backupTo # 0 /\ ~defaultRepo

\* VBR's config backup never loses its repository: the default one is removed only once the
\* redirection is known to have worked, in whichever step a wiring fails (Wire).  It goes to
\* the first hardened repository of the topology, in whatever order the goroutines end and
\* whichever of them fail (hrResults, wireVIANodes).
ConfigBackupHasRepo ==
    IF backupTo = 0 THEN defaultRepo ELSE \A v \in HRs : backupTo <= v

\* One failure, or a done context, ends the wiring: no goroutine waits for a node, a session
\* or a slot for ever, and the join is reached.  No timeout is assumed (fanCtx, wg.Wait).
FailureEndsWiring == (err \/ ~Live) ~> (phase = "idle")
=============================================================================
