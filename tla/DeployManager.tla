--------------------------- MODULE DeployManager ---------------------------
(***************************************************************************)
(* The deployment manager: internal/deploy/deploy.go with the rows of      *)
(* store.go, over a hypervisor and a wiring step that may fail at any call.*)
(*                                                                         *)
(* A deployment has a run goroutine (pc, at) that creates its VMs node by  *)
(* node and wires them, and may have a Remove call in progress (remover,   *)
(* todo).  Both work on the same record under short critical sections, with*)
(* calls to the hypervisor and to SQLite in between.  A VM is named by the *)
(* deployment and the node it was created for: <<d, n>>.                   *)
(***************************************************************************)
EXTENDS Integers, FiniteSets

CONSTANTS
    MaxDeploy,    \* bound on deployments started, for model checking
    Nodes,        \* 1..N: indexes of Spec.Nodes, in order
    Plans,        \* the submitted specs: [power, kick, wire, dhcp], see PlanSet
    KeepChoices,  \* values max_history may take
    StoreFaults,  \* store calls that may fail: "none", "one" or "any"
    Impatient,    \* deployments whose run may outlast the 30 seconds a Remove waits
                  \* (all of them in the code; a bound for model checking)
    Deaf,         \* <<d, call>>: calls at which the driver of d does not heed its context
                  \* and has no time limit of its own, so that it may hang for good
    MaxRestarts   \* bound on process restarts, for model checking

\* PowerOn, remote kickstart, Wirer # nil, and the nodes without a static IP.
PlanSet == [power : BOOLEAN, kick : BOOLEAN, wire : BOOLEAN, dhcp : SUBSET Nodes]

\* The places of a run at which a call to the hypervisor is in progress.
Calls == {"upload", "create", "built", "attach", "boot", "kick"}

ASSUME DeployManagerAssumption ==
    /\ MaxDeploy \in Nat
    /\ Nodes # {} /\ IsFiniteSet(Nodes) /\ Nodes = 1 .. Cardinality(Nodes)
    /\ Plans \subseteq PlanSet
    /\ KeepChoices \subseteq Nat \ {0}
    /\ KeepChoices # {}
    /\ StoreFaults \in {"none", "one", "any"}
    /\ Impatient \subseteq 1 .. MaxDeploy
    /\ Deaf \subseteq (1 .. MaxDeploy) \X (Calls \cup {"destroy"})
    /\ MaxRestarts \in Nat

VARIABLES
    last,      \* deployments started so far; ids are 1..last, in CreatedAt order
    pc, at,    \* where the run goroutine of d stands, and its loop index
    registry,  \* m.deployments
    state,     \* d.State
    vmid,      \* d.Nodes[n].VMID
    canceled,  \* d.canceled
    ctx,       \* the run context: "none" before d.cancel is set, "live", "done"
    spec,      \* d.spec: kind of run, plan, backing array of Nodes, live HV client
    cells,     \* the backing arrays of Spec.Nodes: Ref and IP of each node
    pending,   \* resolveNodeIPs: the polls still going on, node and VM asked about
    snap,      \* the View the deferred persist has taken and not yet saved
    row,       \* the row of table deployments, by id
    remover,   \* where the Remove call on d stands
    todo,      \* VMs it has still to destroy
    vms,       \* hypervisor: what became of VM <<d, n>>
    stopping,  \* m.stopCh is closed
    keep,      \* m.keepCompleted
    restarts,  \* how often the process was started again
    faulted,   \* some store call has failed
    gaveUp,    \* history: a Remove of d stopped waiting before the run ended
    leftover   \* history: a Destroy of a VM of d failed

run    == <<pc, at, ctx, pending, snap>>
record == <<registry, state, vmid, canceled>>
memory == <<last, spec, cells>>
rm     == <<remover, todo, gaveUp, leftover>>
env    == <<stopping, keep, restarts>>
vars   == <<run, record, memory, row, faulted, rm, vms, env>>

Dep   == 1 .. MaxDeploy
VM    == Dep \X Nodes
NoVM  == <<0, 0>>
Refs  == VM \cup {NoVM}

\* IP of a node: unknown (DHCP), static, or the lease of a VM, named by that VM.
NoIP      == <<0, 0>>
Static(n) == <<0, n>>
IPs       == VM \cup ({0} \X (Nodes \cup {0}))

Active == {"pending", "running"}
Final  == {"done", "failed", "canceled", "removed"}

NoRow   == [state |-> "none", vmid |-> [n \in Nodes |-> NoVM]]
Rows    == [state : Active \cup Final \cup {"none"}, vmid : [Nodes -> Refs]]
NoCells == [n \in Nodes |-> [ref |-> NoVM, ip |-> NoIP]]
NoPlan  == [power |-> FALSE, kick |-> FALSE, wire |-> FALSE, dhcp |-> {}]
NoSpec  == [kind |-> "none", plan |-> NoPlan, array |-> 0, hv |-> FALSE]

\* The run goroutine.
Started == Calls \cup {"loop", "resolve", "wire"}
Ending  == {"stopped", "saving", "saved", "pruned"}
Live    == {"registered", "spawned"} \cup Started \cup Ending
Over    == {"finished", "gone"}

TypeOK ==
    /\ last \in 0 .. MaxDeploy
    /\ pc \in [Dep -> Live \cup Over \cup {"unused"}]
    /\ at \in [Dep -> 1 .. Cardinality(Nodes) + 1]
    /\ registry \subseteq 1 .. last
    /\ state \in [Dep -> Active \cup Final \cup {"none"}]
    /\ vmid \in [Dep -> [Nodes -> Refs]]
    /\ canceled \in [Dep -> BOOLEAN]
    /\ ctx \in [Dep -> {"none", "live", "done"}]
    /\ spec \in [Dep -> [kind : {"none", "full", "wire"}, plan : PlanSet,
                         array : 0 .. MaxDeploy, hv : BOOLEAN]]
    /\ cells \in [Dep -> [Nodes -> [ref : Refs, ip : IPs]]]
    /\ pending \in [Dep -> SUBSET (Nodes \X VM)]
    /\ snap \in [Dep -> Rows] /\ row \in [Dep -> Rows]
    /\ remover \in [Dep -> {"none", "waiting", "destroying", "marked"}]
    /\ todo \in [Dep -> SUBSET VM]
    /\ vms \in [VM -> {"absent", "building", "made", "orphan"}]
    /\ stopping \in BOOLEAN
    /\ keep \in KeepChoices
    /\ restarts \in Nat
    /\ faulted \in BOOLEAN
    /\ gaveUp \in [Dep -> BOOLEAN] /\ leftover \in [Dep -> BOOLEAN]

Init ==
    /\ last = 0
    /\ pc = [d \in Dep |-> "unused"] /\ at = [d \in Dep |-> 1]
    /\ registry = {}
    /\ state = [d \in Dep |-> "none"]
    /\ vmid = [d \in Dep |-> [n \in Nodes |-> NoVM]]
    /\ canceled = [d \in Dep |-> FALSE]
    /\ ctx = [d \in Dep |-> "none"]
    /\ spec = [d \in Dep |-> NoSpec]
    /\ cells = [d \in Dep |-> NoCells]
    /\ pending = [d \in Dep |-> {}]
    /\ snap = [d \in Dep |-> NoRow] /\ row = [d \in Dep |-> NoRow]
    /\ remover = [d \in Dep |-> "none"] /\ todo = [d \in Dep |-> {}]
    /\ vms = [v \in VM |-> "absent"]
    /\ stopping = FALSE
    /\ keep \in KeepChoices
    /\ restarts = 0
    /\ faulted = FALSE
    /\ gaveUp = [d \in Dep |-> FALSE] /\ leftover = [d \in Dep |-> FALSE]

-----------------------------------------------------------------------------
(* Helpers. *)

StoreMayFail == StoreFaults = "any" \/ (StoreFaults = "one" /\ ~faulted)
View(d)      == [state |-> state[d], vmid |-> vmid[d]]
Cell(d)      == cells[spec[d].array]

\* Store.Save of rec; an error is logged and swallowed.
Save(d, rec) ==
    \/ row' = [row EXCEPT ![d] = rec] /\ UNCHANGED faulted
    \/ StoreMayFail /\ faulted' = TRUE /\ UNCHANGED row

\* Take the deployments of D out of reg and delete their rows; Store.Delete may fail.
Drop(D, reg) ==
    /\ registry' = reg \ D
    /\ \E kept \in SUBSET D :
        /\ kept # {} => StoreMayFail
        /\ row' = [d \in Dep |-> IF d \in D \ kept THEN NoRow ELSE row[d]]
        /\ faulted' = (faulted \/ kept # {})

Finished(reg, st) == {d \in reg : st[d] \in Final}

\* Mutant of Oldest: one too many is kept.
OldestButOne(reg, st, n) ==
    LET fin == Finished(reg, st)
    IN  {d \in fin : Cardinality({e \in fin : e > d}) > n}

\* What pruneCompleted drops: the finished deployments that n newer finished ones
\* exceed (ids are in CreatedAt order).
Oldest(reg, st, n) ==
    LET fin == Finished(reg, st)
    IN  {d \in fin : Cardinality({e \in fin : e > d}) >= n}

Goto(d, from, to)   == pc[d] = from /\ pc' = [pc EXCEPT ![d] = to]

\* The run returns: the final state is set, the deferred cancel has run.
Stop(d, st) ==
    /\ pc' = [pc EXCEPT ![d] = "stopped"]
    /\ state' = [state EXCEPT ![d] = st]
    /\ ctx' = [ctx EXCEPT ![d] = "done"]

\* Cancel (locked): the first call sets the flag and cancels the run context if
\* there is one by now; later calls return early.  Nothing reads the flag of a run
\* that is over, and it is left as it is there.
Canceling(d) ==
    /\ canceled' = [canceled EXCEPT ![d] = @ \/ pc[d] \in Live \ Ending]
    /\ ctx' = IF ctx[d] = "live" /\ ~canceled[d] THEN [ctx EXCEPT ![d] = "done"] ELSE ctx

\* A new record d enters the registry as pending.
Register(d, s, ids) ==
    /\ d = last + 1 /\ d \in Dep
    /\ last' = d
    /\ pc' = [pc EXCEPT ![d] = "registered"]
    /\ registry' = registry \cup {d}
    /\ state' = [state EXCEPT ![d] = "pending"]
    /\ spec' = [spec EXCEPT ![d] = s]
    /\ vmid' = [vmid EXCEPT ![d] = ids]
    /\ UNCHANGED <<at, ctx, pending, snap, canceled, row, faulted, rm, vms, env>>

-----------------------------------------------------------------------------
(* Start, Retry and RetryWire, on the goroutine of an HTTP handler. *)

NoVMs == [n \in Nodes |-> NoVM]

Start(plan) ==
    LET d == last + 1
    IN  /\ Register(d, [kind |-> "full", plan |-> plan, array |-> d, hv |-> TRUE],
                    NoVMs)
        /\ cells' = [cells EXCEPT ![d] = [n \in Nodes |->
                        [ref |-> NoVM, ip |-> IF n \in plan.dhcp THEN NoIP ELSE Static(n)]]]

\* The same spec again, backing array of Nodes included; any state will do.
Retry(d) ==
    /\ d \in registry
    /\ spec[d].hv
    /\ Register(last + 1, [spec[d] EXCEPT !.kind = "full"], NoVMs)
    /\ UNCHANGED cells

\* The wiring step alone, for the VMs the array refers to.
RetryWire(d) ==
    /\ d \in registry
    /\ state[d] # "running"
    /\ spec[d].plan.wire
    /\ \E n \in Nodes : Cell(d)[n].ref # NoVM
    /\ Register(last + 1, [spec[d] EXCEPT !.kind = "wire"],
                [n \in Nodes |-> Cell(d)[n].ref])
    /\ UNCHANGED cells

\* Start and startWireOnly: the pending row, then the goroutine is spawned.
PersistPending(d) ==
    /\ Goto(d, "registered", "spawned")
    /\ Save(d, View(d))
    /\ UNCHANGED <<at, ctx, pending, snap, record, memory, rm, vms, env>>

-----------------------------------------------------------------------------
(* run and runWireOnly. *)

\* resolveNodeIPs polls for the nodes without an address, each with the Ref of now.
Polls(d) == {<<n, Cell(d)[n].ref>> :
                n \in {m \in Nodes : Cell(d)[m].ip = NoIP /\ Cell(d)[m].ref # NoVM}}

\* setState(running), the run context, d.cancel.
\* A wire-only run goes straight to the wiring.
RunBegin(d) ==
    /\ Goto(d, "spawned", IF spec[d].kind = "full" THEN "loop" ELSE "resolve")
    /\ state' = [state EXCEPT ![d] = "running"]
    /\ ctx' = [ctx EXCEPT ![d] = "live"]
    /\ pending' = [pending EXCEPT ![d] = IF spec[d].kind = "full" THEN {} ELSE Polls(d)]
    /\ UNCHANGED <<at, snap, registry, vmid, canceled, memory, row, faulted, rm, vms, env>>

\* Mutant: stopCh is only watched by runs that were asked to stop.
StopSignalMissed(d) ==
    /\ stopping /\ canceled[d]
    /\ ctx[d] = "live"
    /\ ctx' = [ctx EXCEPT ![d] = "done"]
    /\ UNCHANGED <<pc, at, pending, snap, record, memory, row, faulted, rm, vms, env>>

\* The goroutine that waits for stopCh cancels the run context.
StopSignal(d) ==
    /\ stopping
    /\ ctx[d] = "live"
    /\ ctx' = [ctx EXCEPT ![d] = "done"]
    /\ UNCHANGED <<pc, at, pending, snap, record, memory, row, faulted, rm, vms, env>>

\* deployNode begins: FindISO or UploadISO is called.
NodeBegin(d) ==
    /\ at[d] \in Nodes
    /\ Goto(d, "loop", "upload")
    /\ UNCHANGED <<at, ctx, pending, snap, registry, state, vmid, canceled, memory, row, faulted,
                   rm, vms, env>>

UploadISO(d) ==
    /\ Goto(d, "upload", "create")
    /\ UNCHANGED <<at, ctx, pending, snap, registry, state, vmid, canceled, memory, row, faulted,
                   rm, vms, env>>

\* HV.CreateVM: the hypervisor has accepted the VM and the driver waits for its task.
CreateVM(d) ==
    /\ Goto(d, "create", "built")
    /\ vms' = [vms EXCEPT ![<<d, at[d]>>] = "building"]
    /\ UNCHANGED <<at, ctx, pending, snap, record, memory, row, faulted, rm, env>>

\* Mutant: the VM id is only set together with Spec.Nodes[i].Ref.
CreatedUnrecorded(d) ==
    /\ Goto(d, "built", "attach")
    /\ vms' = [vms EXCEPT ![<<d, at[d]>>] = "made"]
    /\ UNCHANGED <<at, ctx, pending, snap, registry, state, vmid, canceled, memory, row, faulted,
                   rm, env>>

\* HV.CreateVM returns the VM, whose id is recorded before anything else is done.
Created(d) ==
    /\ Goto(d, "built", "attach")
    /\ vms' = [vms EXCEPT ![<<d, at[d]>>] = "made"]
    /\ vmid' = [vmid EXCEPT ![d][at[d]] = <<d, at[d]>>]
    /\ UNCHANGED <<at, ctx, pending, snap, registry, state, canceled, memory, row, faulted, rm, env>>

\* deployNode returns, and the Ref goes into the (shared) array.
NodeEnd(d) ==
    /\ pc' = [pc EXCEPT ![d] = "loop"]
    /\ cells' = [cells EXCEPT ![spec[d].array][at[d]].ref = <<d, at[d]>>]
    /\ at' = [at EXCEPT ![d] = @ + 1]
    /\ UNCHANGED <<ctx, pending, snap, registry, state, vmid, canceled, last, spec, row, faulted,
                   rm, vms, env>>

PoweredOn(d) == spec[d].plan.power \/ spec[d].plan.kick

\* AttachISO and SetBootDiskThenCD have succeeded.
Attach(d) ==
    /\ pc[d] = "attach"
    /\ \/ ~PoweredOn(d) /\ NodeEnd(d)
       \/ /\ PoweredOn(d)
          /\ pc' = [pc EXCEPT ![d] = "boot"]
          /\ UNCHANGED <<at, ctx, pending, snap, registry, state, vmid, canceled, memory, row,
                         faulted, rm, vms, env>>

PowerOn(d) ==
    /\ pc[d] = "boot"
    /\ \/ ~spec[d].plan.kick /\ NodeEnd(d)
       \/ /\ spec[d].plan.kick
          /\ pc' = [pc EXCEPT ![d] = "kick"]
          /\ UNCHANGED <<at, ctx, pending, snap, registry, state, vmid, canceled, memory, row,
                         faulted, rm, vms, env>>

\* BootWait has passed (the select also watches the context) and SendKeys succeeds.
SendKeys(d) ==
    /\ pc[d] = "kick"
    /\ NodeEnd(d)

\* Mutant: a run that Shutdown has stopped counts as canceled.
NodeFailByContext(d) ==
    /\ pc[d] \in Calls
    /\ Stop(d, IF ctx[d] = "done" THEN "canceled" ELSE "failed")
    /\ vms' = IF pc[d] = "built" THEN [vms EXCEPT ![<<d, at[d]>>] = "orphan"] ELSE vms
    /\ UNCHANGED <<at, pending, snap, registry, vmid, canceled, memory, row, faulted, rm, env>>

\* Any call of deployNode returns an error: the hypervisor's, or the canceled
\* context's.  A CreateVM that fails while it waits leaves a VM nobody has the id of.
NodeFail(d) ==
    /\ pc[d] \in Calls
    /\ Stop(d, IF canceled[d] THEN "canceled" ELSE "failed")
    /\ vms' = IF pc[d] = "built" THEN [vms EXCEPT ![<<d, at[d]>>] = "orphan"] ELSE vms
    /\ UNCHANGED <<at, pending, snap, registry, vmid, canceled, memory, row, faulted, rm, env>>

\* "All nodes deployed."  Wiring needs a Wirer and powered VMs.
AllDeployed(d) ==
    /\ pc[d] = "loop"
    /\ at[d] \notin Nodes
    /\ IF spec[d].plan.wire /\ spec[d].plan.power
       THEN /\ pc' = [pc EXCEPT ![d] = "resolve"]
            /\ pending' = [pending EXCEPT ![d] = Polls(d)]
            /\ UNCHANGED <<state, ctx>>
       ELSE Stop(d, "done") /\ UNCHANGED pending
    /\ UNCHANGED <<at, snap, registry, vmid, canceled, memory, row, faulted, rm, vms, env>>

\* GetVMIP has answered a poll: the lease of the VM asked about is node n's address.
ResolveIP(d, n) ==
    /\ pc[d] = "resolve"
    /\ \E p \in pending[d] :
        /\ p[1] = n
        /\ cells' = [cells EXCEPT ![spec[d].array][n].ip = p[2]]
        /\ pending' = [pending EXCEPT ![d] = @ \ {p}]
    /\ UNCHANGED <<pc, at, ctx, snap, record, last, spec, row, faulted, rm, vms, env>>

\* Mutant: the loop over the results ends one too early.
WireBeginEarly(d) ==
    /\ Goto(d, "resolve", "wire")
    /\ Cardinality(pending[d]) <= 1
    /\ UNCHANGED <<at, ctx, pending, snap, record, memory, row, faulted, rm, vms, env>>

\* All addresses are known: Wirer.Wire is called with Spec.Nodes.
WireBegin(d) ==
    /\ Goto(d, "resolve", "wire")
    /\ pending[d] = {}
    /\ UNCHANGED <<at, ctx, pending, snap, record, memory, row, faulted, rm, vms, env>>

\* Resolution or wiring fails: an error, WireTimeout, or the canceled context.
WireFail(d) ==
    /\ pc[d] \in {"resolve", "wire"}
    /\ Stop(d, IF canceled[d] THEN "canceled" ELSE "failed")
    /\ pending' = [pending EXCEPT ![d] = {}]
    /\ UNCHANGED <<at, snap, registry, vmid, canceled, memory, row, faulted, rm, vms, env>>

\* "Topology wired."  A full run promotes its nodes from installing to ready.
Wired(d) ==
    /\ pc[d] = "wire"
    /\ Stop(d, "done")
    /\ UNCHANGED <<at, pending, snap, registry, vmid, canceled, memory, row, faulted, rm, vms, env>>

\* The deferred function: FinishedAt, then persist takes its View ...
TakeView(d) ==
    /\ Goto(d, "stopped", "saving")
    /\ snap' = [snap EXCEPT ![d] = View(d)]
    /\ UNCHANGED <<at, ctx, pending, record, memory, row, faulted, rm, vms, env>>

\* Mutant: the final record is not saved.
SaveFinalForgotten(d) ==
    /\ Goto(d, "saving", "saved")
    /\ snap' = [snap EXCEPT ![d] = NoRow]
    /\ UNCHANGED <<at, ctx, pending, record, memory, row, faulted, rm, vms, env>>

\* ... and saves it, with no lock held in between.
SaveFinal(d) ==
    /\ Goto(d, "saving", "saved")
    /\ Save(d, snap[d])
    /\ snap' = [snap EXCEPT ![d] = NoRow]
    /\ UNCHANGED <<at, ctx, pending, record, memory, rm, vms, env>>

\* pruneCompleted under m.mu, one more deployment having finished.
PruneFinished(d) ==
    /\ Goto(d, "saved", "pruned")
    /\ Drop(Oldest(registry, state, keep), registry)
    /\ UNCHANGED <<at, ctx, pending, snap, state, vmid, canceled, memory, rm, vms, env>>

\* closeSubs and close(d.done).
CloseDone(d) ==
    /\ Goto(d, "pruned", "finished")
    /\ UNCHANGED <<at, ctx, pending, snap, record, memory, row, faulted, rm, vms, env>>

-----------------------------------------------------------------------------
(* Cancel, Remove, Delete and retention. *)

Cancel(d) ==
    /\ d \in registry
    /\ Canceling(d)
    /\ UNCHANGED <<pc, at, pending, snap, registry, state, vmid, memory, row, faulted, rm,
                   vms, env>>

\* Remove begins with a Cancel and waits for Done(), 30 seconds or its own context.
\* (A bound: a second Remove of d begins after the first one has returned.)
RemoveBegin(d) ==
    /\ d \in registry
    /\ remover[d] = "none"
    /\ remover' = [remover EXCEPT ![d] = "waiting"]
    /\ Canceling(d)
    /\ UNCHANGED <<pc, at, pending, snap, registry, state, vmid, memory, row, faulted,
                   todo, gaveUp, leftover, vms, env>>

\* Mutant: the nodes of the record are looked at before the wait.
RemoveViewEarly(d) ==
    /\ remover[d] = "waiting"
    /\ remover' = [remover EXCEPT ![d] = "destroying"]
    /\ todo' = [todo EXCEPT ![d] = IF spec[d].hv
                                     THEN {vmid[d][n] : n \in Nodes} \ {NoVM} ELSE {}]
    /\ UNCHANGED <<run, record, memory, row, faulted, gaveUp, leftover, vms, env>>

\* Mutant: the wait has no time limit.
RemoveViewPatient(d) ==
    /\ remover[d] = "waiting"
    /\ pc[d] \in Over
    /\ remover' = [remover EXCEPT ![d] = "destroying"]
    /\ todo' = [todo EXCEPT ![d] = IF spec[d].hv
                                     THEN {vmid[d][n] : n \in Nodes} \ {NoVM} ELSE {}]
    /\ UNCHANGED <<run, record, memory, row, faulted, gaveUp, leftover, vms, env>>

\* The wait is over, with the run or without it; the View tells what to destroy.  A
\* reloaded deployment has no hypervisor client and destroys nothing.
RemoveView(d) ==
    /\ remover[d] = "waiting"
    /\ pc[d] \in Over \/ d \in Impatient
    /\ gaveUp' = [gaveUp EXCEPT ![d] = @ \/ pc[d] \notin Over]
    /\ remover' = [remover EXCEPT ![d] = "destroying"]
    /\ todo' = [todo EXCEPT ![d] = IF spec[d].hv
                                     THEN {vmid[d][n] : n \in Nodes} \ {NoVM} ELSE {}]
    /\ UNCHANGED <<run, record, memory, row, faulted, leftover, vms, env>>

\* Destroy of one VM: done, or an error that is collected and reported at the end.
DestroyVM(d, v) ==
    /\ remover[d] = "destroying"
    /\ v \in todo[d]
    /\ todo' = [todo EXCEPT ![d] = @ \ {v}]
    /\ \/ vms' = [vms EXCEPT ![v] = "absent"] /\ UNCHANGED leftover
       \/ leftover' = [leftover EXCEPT ![d] = TRUE] /\ UNCHANGED vms
    /\ UNCHANGED <<run, record, memory, row, faulted, remover, gaveUp, env>>

RemoveMark(d) ==
    /\ remover[d] = "destroying"
    /\ todo[d] = {}
    /\ remover' = [remover EXCEPT ![d] = "marked"]
    /\ state' = [state EXCEPT ![d] = "removed"]
    /\ vmid' = [vmid EXCEPT ![d] = NoVMs]
    /\ UNCHANGED <<run, registry, canceled, memory, row, faulted, todo, gaveUp, leftover, vms, env>>

\* persist.  Its View and its Save are one step: between them the record changes
\* only under a run this Remove has given up on.
RemovePersist(d) ==
    /\ remover[d] = "marked"
    /\ remover' = [remover EXCEPT ![d] = "none"]
    /\ Save(d, View(d))
    /\ UNCHANGED <<run, record, memory, todo, gaveUp, leftover, vms, env>>

Delete(d) ==
    /\ d \in registry
    /\ state[d] \notin Active
    /\ Drop({d}, registry)
    /\ UNCHANGED <<run, state, vmid, canceled, memory, rm, vms, env>>

SetKeepCompleted(n) ==
    /\ keep' = n
    /\ Drop(Oldest(registry, state, n), registry)
    /\ UNCHANGED <<run, state, vmid, canceled, memory, rm, vms, stopping, restarts>>

Shutdown ==
    /\ ~stopping
    /\ stopping' = TRUE
    /\ UNCHANGED <<run, record, memory, row, faulted, rm, vms, keep, restarts>>

\* What loadFromStore makes of a row.
Loaded(d) == IF row[d].state \in Active THEN "failed" ELSE row[d].state

\* The process ends at any point and starts again: the rows become inert records
\* without spec and client, unfinished ones failed (and saved as such); then main
\* applies the retention cap.  An unreadable store is an empty registry.
Restart ==
    /\ restarts < MaxRestarts
    /\ restarts' = restarts + 1
    /\ pc' = [d \in Dep |-> IF d <= last THEN "gone" ELSE "unused"]
    /\ at' = [d \in Dep |-> 1]
    /\ ctx' = [d \in Dep |-> "none"]
    /\ pending' = [d \in Dep |-> {}]
    /\ snap' = [d \in Dep |-> NoRow]
    /\ canceled' = [d \in Dep |-> FALSE]
    /\ spec' = [d \in Dep |-> NoSpec]
    /\ remover' = [d \in Dep |-> "none"] /\ todo' = [d \in Dep |-> {}]
    /\ stopping' = FALSE
    /\ \/ \E bad \in SUBSET {d \in Dep : row[d].state \in Active} :
            LET loaded == [d \in Dep |-> Loaded(d)]
                old    == Oldest({d \in Dep : row[d] # NoRow}, loaded, keep)
            IN  /\ state' = loaded
                /\ vmid' = [d \in Dep |-> row[d].vmid]
                /\ registry' = {d \in Dep : row[d] # NoRow} \ old
                /\ \E kept \in SUBSET old :
                    /\ bad \cup kept # {} => StoreMayFail
                    /\ faulted' = (faulted \/ bad \cup kept # {})
                    /\ row' = [d \in Dep |-> IF d \in old \ kept THEN NoRow
                                             ELSE IF d \in bad \/ row[d] = NoRow THEN row[d]
                                             ELSE [row[d] EXCEPT !.state = loaded[d]]]
       \/ /\ StoreMayFail
          /\ faulted' = TRUE
          /\ registry' = {}
          /\ state' = [d \in Dep |-> "none"]
          /\ vmid' = [d \in Dep |-> NoVMs]
          /\ UNCHANGED row
    /\ cells' = [d \in Dep |-> NoCells]
    /\ gaveUp' = [d \in Dep |-> FALSE] /\ leftover' = [d \in Dep |-> FALSE]
    /\ UNCHANGED <<last, vms, keep>>

-----------------------------------------------------------------------------

Run(d) ==
    \/ RunBegin(d) \/ NodeBegin(d) \/ UploadISO(d) \/ CreateVM(d) \/ Created(d)
    \/ Attach(d) \/ PowerOn(d) \/ SendKeys(d) \/ NodeFail(d) \/ AllDeployed(d)
    \/ \E n \in Nodes : ResolveIP(d, n)
    \/ WireBegin(d) \/ WireFail(d) \/ Wired(d)
    \/ TakeView(d) \/ SaveFinal(d) \/ PruneFinished(d) \/ CloseDone(d)

Remove(d) ==
    \/ RemoveView(d) \/ RemoveMark(d) \/ RemovePersist(d)
    \/ \E v \in VM : DestroyVM(d, v)

Request ==
    \/ \E plan \in Plans : Start(plan)
    \/ \E d \in Dep : \/ Retry(d) \/ RetryWire(d) \/ Cancel(d) \/ RemoveBegin(d) \/ Delete(d)
    \/ \E n \in KeepChoices : SetKeepCompleted(n)

Next ==
    \/ Request
    \/ \E d \in Dep : PersistPending(d) \/ Run(d) \/ StopSignal(d) \/ Remove(d)
    \/ Shutdown
    \/ Restart

Spec == Init /\ [][Next]_vars

(* Fairness.  A goroutine that can run does run.  A call of deployNode may hang *)
(* for as long as its context is live, and returns an error once it is done,    *)
(* unless the driver does not heed the context there (Deaf): the XenAPI calls   *)
(* of XCP-ng and the upload of Proxmox have neither context nor time limit.     *)
(* The waits for addresses and for the wiring watch the context and have        *)
(* WireTimeout; the context of a Remove has a time limit; SQLite returns.       *)
(* Nothing is assumed of users or of crashes.                                   *)
FairRun(d) ==
    \/ PersistPending(d) \/ RunBegin(d) \/ NodeBegin(d) \/ AllDeployed(d)
    \/ ctx[d] = "done" /\ <<d, pc[d]>> \notin Deaf /\ NodeFail(d)
    \/ \E n \in Nodes : ResolveIP(d, n)
    \/ WireBegin(d) \/ WireFail(d) \/ Wired(d)
    \/ TakeView(d) \/ SaveFinal(d) \/ PruneFinished(d) \/ CloseDone(d)

FairRemove(d) ==
    \/ RemoveView(d) \/ RemoveMark(d) \/ RemovePersist(d)
    \/ <<d, "destroy">> \notin Deaf /\ \E v \in VM : DestroyVM(d, v)

FairSpec ==
    /\ Spec
    /\ \A d \in Dep : WF_vars(FairRun(d)) /\ WF_vars(StopSignal(d)) /\ WF_vars(FairRemove(d))

-----------------------------------------------------------------------------
(* Properties. *)

\* No VM is lost: a VM whose creation was reported back is recorded in its
\* deployment from then on until it is destroyed, so that Remove finds it.  The
\* exceptions are the documented ones: a Remove that stopped waiting for the run, a
\* Destroy that failed, a record reloaded after a restart or deleted.
VMsAccounted ==
    \A d \in registry, n \in Nodes :
        vms[<<d, n>>] = "made" /\ spec[d].hv /\ ~gaveUp[d] /\ ~leftover[d]
            => vmid[d][n] = <<d, n>>

\* A deployment that looks active has a goroutine that will end it, also after a restart;
\* and once the run is over and no Remove is about to save, the row of a listed deployment is
\* its record, unless a store call failed or a Remove gave up.
RowTracksRecord ==
    \A d \in registry :
        /\ state[d] \in Active => pc[d] \in Live
        /\ pc[d] \in Over \cup {"saved", "pruned"} /\ remover[d] # "marked"
             /\ ~faulted /\ ~gaveUp[d] => row[d] = View(d)

\* The wiring of a full run is never given a node without an address or a VM,
\* even when retries share its node array.
WiredWithIPs ==
    \A d \in 1 .. last : pc[d] = "wire" /\ spec[d].kind = "full" =>
        \A n \in Nodes : Cell(d)[n].ip # NoIP /\ Cell(d)[n].ref # NoVM

\* Retention works without any later request: the finished deployments whose run
\* has passed its pruning never exceed the cap.
FinishedBounded ==
    Cardinality({d \in registry : state[d] \in Final /\ pc[d] \in Over \cup {"pruned"}}) <= keep

\* What Get(id) shows.
Shown == [d \in Dep |-> IF d > last THEN "new" ELSE IF d \in registry THEN state[d] ELSE "absent"]

\* What a client sees is a lifecycle: a deployment runs before it ends, "canceled" means that
\* somebody has asked for it, "removed" is the last word once Remove has waited for the run,
\* nothing active comes back from a restart, and no id is used twice.
Lifecycle == INSTANCE DeployLifecycle WITH view <- Shown, asked <- canceled, loose <- gaveUp
ImplementsLifecycle == Lifecycle!LSpec

\* A run whose context was canceled unwinds and closes Done(), and so does every
\* run once Shutdown has begun, unless the process ends before or the run is caught in a
\* call that does not heed its context; in no other place can it stay.
EveryStopTakesEffect ==
    \A d \in Dep : pc[d] \in Live /\ (stopping \/ ctx[d] = "done")
                     ~> pc[d] \in Over \/ <<d, pc[d]>> \in Deaf

\* A Remove request returns even if its Cancel came too early and the run hangs, unless
\* a Destroy that does not heed the context is what it hangs in.
EveryRemoveReturns ==
    \A d \in Dep : remover[d] = "waiting"
                     ~> remover[d] = "none"
                        \/ (remover[d] = "destroying" /\ <<d, "destroy">> \in Deaf)
=============================================================================
