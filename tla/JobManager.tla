----------------------------- MODULE JobManager -----------------------------
(***************************************************************************)
(* The ISO-build job manager: internal/job/manager.go with the job record  *)
(* of job.go, the SQLite rows of store.go, the staging directory of        *)
(* runner.go and the start-up of cmd/autodeploy-web/main.go.               *)
(*                                                                         *)
(* Every job has one thread of control: the Submit call of an HTTP handler *)
(* that registers it, then the worker goroutine Submit spawns.  pc[j] says *)
(* where that thread stands between two points at which another goroutine  *)
(* (a Delete, a prune, a shutdown, a crash) can interfere.  What one holder*)
(* of m.mu does is one step; what the worker does outside it is not.       *)
(***************************************************************************)
EXTENDS Integers, FiniteSets

CONSTANTS
    Job,            \* job ids (uuid.NewString: never reused)
    MaxConcurrent,  \* Options.MaxConcurrent, capacity of the semaphore channel
    KeepChoices,    \* values max_history may take
    StoreFaults,    \* calls into the SQLite store that may fail: those of "none",
                    \* "one" (a bound for model checking) or "any" of the steps
    MaxRestarts     \* bound on process restarts, for model checking only

ASSUME JobManagerAssumption ==
    /\ MaxConcurrent \in Nat \ {0}
    /\ KeepChoices \subseteq Nat \ {0}
    /\ KeepChoices # {}
    /\ StoreFaults \in {"none", "one", "any"}
    /\ MaxRestarts \in Nat

VARIABLES
    pc,          \* where job j's thread stands
    registry,    \* m.jobs
    state,       \* Job.State of the record the thread holds, registered or not
    finishedAt,  \* Job.FinishedAt (0 = zero time)
    row,         \* the row of table jobs, by id
    configs,     \* ids whose configs/.jobs/<id>.json exists
    stage,       \* ids whose work/<id> staging directory exists
    snapshots,   \* by id, output/<id>/job-config.json: none, a kept copy, or lost in copying
    sem,         \* len(m.sem)
    stopping,    \* m.stopCh is closed
    keep,        \* m.opts.KeepCompleted
    now,         \* logical time.Now()
    restarts,    \* how often the process was started again
    faulted,     \* some store call has failed (logged, never retried)
    outcome      \* history: the verdict the thread (or the reload) recorded

memory == <<registry, state, finishedAt, outcome>>
disk   == <<row, configs, stage, snapshots>>
vars   == <<pc, memory, disk, sem, stopping, keep, now, restarts, faulted>>

Final  == {"done", "failed", "canceled"}
Active == {"pending", "running"}
State  == Active \cup Final
NoRow  == [state |-> "none", finishedAt |-> 0]

\* The thread exists and will still change the job.
Queue   == {"registered", "queued"}
Holding == {"slot", "marked", "running", "pwsh", "exited", "failing",
            "resulted", "saved", "copied"}
PC      == {"unused", "finished", "gone"} \cup Queue \cup Holding

Holders == {j \in Job : pc[j] \in Holding}

TypeOK ==
    /\ pc \in [Job -> PC]
    /\ registry \subseteq Job
    /\ state \in [Job -> State \cup {"none"}]
    /\ finishedAt \in [Job -> Nat]
    /\ row \in [Job -> [state : State \cup {"none"}, finishedAt : Nat]]
    /\ configs \subseteq Job /\ stage \subseteq Job
    /\ snapshots \in [Job -> {"none", "kept", "lost"}]
    /\ sem \in Nat
    /\ stopping \in BOOLEAN
    /\ keep \in KeepChoices
    /\ now \in Nat
    /\ restarts \in Nat
    /\ faulted \in BOOLEAN
    /\ outcome \in [Job -> Final \cup {"none"}]

Init ==
    /\ pc = [j \in Job |-> "unused"]
    /\ registry = {}
    /\ state = [j \in Job |-> "none"]
    /\ finishedAt = [j \in Job |-> 0]
    /\ row = [j \in Job |-> NoRow]
    /\ configs = {} /\ stage = {}
    /\ snapshots = [j \in Job |-> "none"]
    /\ sem = 0
    /\ stopping = FALSE
    /\ keep \in KeepChoices
    /\ now = 0
    /\ restarts = 0
    /\ faulted = FALSE
    /\ outcome = [j \in Job |-> "none"]

-----------------------------------------------------------------------------
(* Store calls and pruning, shared by the actions. *)

StoreMayFail == StoreFaults = "any" \/ (StoreFaults = "one" /\ ~faulted)

\* persist: upsert the current View; an error is logged and swallowed.
Persist(j) ==
    \/ /\ row' = [row EXCEPT ![j] = [state |-> state[j], finishedAt |-> finishedAt[j]]]
       /\ UNCHANGED faulted
    \/ /\ StoreMayFail
       /\ faulted' = TRUE
       /\ UNCHANGED row

\* Take the ids of D out of the registry reg and delete their rows.  DeleteJob may
\* fail, which leaves the row.
Drop(D, reg) ==
    /\ registry' = reg \ D
    /\ \E kept \in SUBSET D :
        /\ kept # {} => StoreMayFail
        /\ row' = [j \in Job |-> IF j \in D \ kept THEN NoRow ELSE row[j]]
        /\ faulted' = (faulted \/ kept # {})

Finished(reg) == {j \in reg : state[j] \in Final}

\* The sets pruneLocked may drop: as many of the oldest finished jobs as exceed n.
\* Equal FinishedAt are ordered by an unstable sort, hence a set of choices.
Victims(reg, n) ==
    LET fin == Finished(reg)
    IN  {D \in SUBSET fin :
            /\ Cardinality(fin \ D) <= n
            /\ D # {} => Cardinality(fin \ D) = n
            /\ \A d \in D, k \in fin \ D : finishedAt[d] <= finishedAt[k]}

\* Stop the clock for the record of j: FinishedAt = time.Now().
Stamp(j, st) ==
    /\ state' = [state EXCEPT ![j] = st]
    /\ finishedAt' = [finishedAt EXCEPT ![j] = now + 1]
    /\ outcome' = [outcome EXCEPT ![j] = st]
    /\ now' = now + 1

Goto(j, from, to) == pc[j] = from /\ pc' = [pc EXCEPT ![j] = to]

-----------------------------------------------------------------------------
(* Mutants: the actions below with a plausible bug, to show that the          *)
(* properties notice.                                                         *)

\* The release of the slot is deferred before the select that acquires it.
StopQueuedReleases(j) ==
    /\ stopping
    /\ Goto(j, "queued", "finished")
    /\ Stamp(j, "canceled")
    /\ sem' = sem - 1
    /\ UNCHANGED <<registry, disk, stopping, keep, restarts, faulted>>

\* The state is only ever set with the result.
MarkRunningForgotten(j) ==
    /\ Goto(j, "slot", "marked")
    /\ UNCHANGED <<memory, disk, sem, stopping, keep, now, restarts, faulted>>

\* The final state is not saved.
PersistResultForgotten(j) ==
    /\ Goto(j, "resulted", "saved")
    /\ UNCHANGED <<memory, disk, sem, stopping, keep, now, restarts, faulted>>

\* The snapshot is taken of the staged copy, which is already gone.
CopyConfigFromStage(j) ==
    /\ Goto(j, "saved", "copied")
    /\ \E copy \in {"kept", "lost"} :
        snapshots' = [snapshots EXCEPT ![j] = IF j \in stage THEN copy ELSE "none"]
    /\ UNCHANGED <<memory, row, configs, stage, sem, stopping, keep, now, restarts, faulted>>

\* An early return keeps the slot.
CloseDoneKeepsSlot(j) ==
    /\ Goto(j, "copied", "finished")
    /\ UNCHANGED <<memory, disk, sem, stopping, keep, now, restarts, faulted>>

\* close(j.done) is skipped and the worker blocks.
CloseDoneNever(j) ==
    /\ FALSE
    /\ Goto(j, "copied", "finished")
    /\ UNCHANGED <<memory, disk, sem, stopping, keep, now, restarts, faulted>>

\* Delete only refuses running jobs.
DeletePending(j) ==
    /\ j \in registry
    /\ state[j] # "running"
    /\ Drop({j}, registry)
    /\ configs' = configs \ {j}
    /\ UNCHANGED <<pc, state, finishedAt, outcome, stage, snapshots, sem, stopping, keep,
                   now, restarts>>

\* Shutdown marks every saved job as canceled.
ShutdownCancelsAll ==
    /\ ~stopping
    /\ stopping' = TRUE
    /\ row' = [j \in Job |-> IF row[j] = NoRow THEN NoRow
                             ELSE [row[j] EXCEPT !.state = "canceled"]]
    /\ UNCHANGED <<pc, memory, configs, stage, snapshots, sem, keep, now, restarts, faulted>>

\* loadFromStore takes the state of a row as it is.
LoadedAsIs(j) == row[j].state

-----------------------------------------------------------------------------
(* Submit, on the goroutine of the HTTP handler. *)

\* The config the script will read is written before anyone knows the id; under
\* m.mu the job enters the registry as pending, then the registry is pruned.
SubmitRegister(j) ==
    /\ Goto(j, "unused", "registered")
    /\ state' = [state EXCEPT ![j] = "pending"]
    /\ \E D \in Victims(registry, keep) :
        /\ Drop(D, registry \cup {j})
        /\ configs' = (configs \cup {j}) \ D
    /\ UNCHANGED <<finishedAt, outcome, stage, snapshots, sem, stopping, keep, now, restarts>>

\* After the unlock: the pending row, then the worker is spawned.
SubmitPersist(j) ==
    /\ Goto(j, "registered", "queued")
    /\ Persist(j)
    /\ UNCHANGED <<memory, configs, stage, snapshots, sem, stopping, keep, now,
                   restarts>>

-----------------------------------------------------------------------------
(* runWorker. *)

\* select: a free slot of the semaphore channel ...
AcquireSlot(j) ==
    /\ sem < MaxConcurrent
    /\ Goto(j, "queued", "slot")
    /\ sem' = sem + 1
    /\ UNCHANGED <<memory, disk, stopping, keep, now, restarts, faulted>>

\* ... or the closed stop channel (either when both are ready).  The canceled
\* state is not persisted.
StopQueued(j) ==
    /\ stopping
    /\ Goto(j, "queued", "finished")
    /\ Stamp(j, "canceled")
    /\ UNCHANGED <<registry, disk, sem, stopping, keep, restarts, faulted>>

MarkRunning(j) ==
    /\ Goto(j, "slot", "marked")
    /\ state' = [state EXCEPT ![j] = "running"]
    /\ UNCHANGED <<registry, finishedAt, outcome, disk, sem, stopping, keep, now, restarts,
                   faulted>>

PersistRunning(j) ==
    /\ Goto(j, "marked", "running")
    /\ Persist(j)
    /\ UNCHANGED <<memory, configs, stage, snapshots, sem, stopping, keep, now,
                   restarts>>

\* Runner.Run: the staging directory with a copy of the config; pwsh starts.
RunnerStart(j) ==
    /\ j \in configs
    /\ Goto(j, "running", "pwsh")
    /\ stage' = stage \cup {j}
    /\ UNCHANGED <<memory, row, configs, snapshots, sem, stopping, keep, now,
                   restarts, faulted>>

\* Runner.Run returns an error before pwsh runs (script or config missing,
\* staging failed, pwsh not found); the deferred RemoveAll ran.  What a RemoveAll that
\* fails leaves is read by nobody until main clears work/ and is left out.
RunnerFail(j) ==
    /\ Goto(j, "running", "failing")
    /\ UNCHANGED <<memory, disk, sem, stopping, keep, now, restarts, faulted>>

\* pwsh exits: collectOutputs moves what it built, the staging directory goes.
PwshExit(j) ==
    /\ Goto(j, "pwsh", "exited")
    /\ stage' = stage \ {j}
    /\ UNCHANGED <<memory, row, configs, snapshots, sem, stopping, keep, now, restarts,
                   faulted>>

\* done for exit code 0 without an error, failed otherwise.
MarkResult(j, st) ==
    /\ \/ st \in {"done", "failed"} /\ Goto(j, "exited", "resulted")
       \/ st = "failed" /\ Goto(j, "failing", "resulted")
    /\ Stamp(j, st)
    /\ UNCHANGED <<registry, disk, sem, stopping, keep, restarts, faulted>>

PersistResult(j) ==
    /\ Goto(j, "resulted", "saved")
    /\ Persist(j)
    /\ UNCHANGED <<memory, configs, stage, snapshots, sem, stopping, keep, now,
                   restarts>>

\* MkdirAll and copyFile of the config into output/<id>.  Both errors are dropped: a
\* config file that is already gone leaves no snapshot, and a copy that fails (folder,
\* disk full) leaves none or a torn one.
CopyConfig(j) ==
    /\ Goto(j, "saved", "copied")
    /\ \E copy \in {"kept", "lost"} :
        snapshots' = [snapshots EXCEPT ![j] = IF j \in configs THEN copy ELSE "none"]
    /\ UNCHANGED <<memory, row, configs, stage, sem, stopping, keep, now,
                   restarts, faulted>>

\* closeSubs, close(j.done), and the deferred release of the slot.
CloseDone(j) ==
    /\ Goto(j, "copied", "finished")
    /\ sem' = sem - 1
    /\ UNCHANGED <<memory, disk, stopping, keep, now, restarts, faulted>>

-----------------------------------------------------------------------------
(* The other entry points of the manager, and the process around it. *)

Delete(j) ==
    /\ j \in registry
    /\ state[j] \notin Active
    /\ Drop({j}, registry)
    /\ configs' = configs \ {j}
    /\ UNCHANGED <<pc, state, finishedAt, outcome, stage, snapshots, sem, stopping,
                   keep, now, restarts>>

SetKeepCompleted(n) ==
    /\ keep' = n
    /\ \E D \in Victims(registry, n) : Drop(D, registry) /\ configs' = configs \ D
    /\ UNCHANGED <<pc, state, finishedAt, outcome, stage, snapshots, sem, stopping,
                   now, restarts>>

\* Shutdown closes stopCh; the wait that follows ends with the process (Restart).
Shutdown ==
    /\ ~stopping
    /\ stopping' = TRUE
    /\ UNCHANGED <<pc, memory, disk, sem, keep, now, restarts, faulted>>

\* What loadFromStore makes of a row.
Loaded(j) == IF row[j].state \in Active THEN "failed" ELSE row[j].state

\* The process dies at any point (crash, or exit once Shutdown gave up waiting)
\* and starts again: main clears work/, loadFromStore rebuilds the registry,
\* turns unfinished rows into failed ones and saves those back.
Restart ==
    /\ restarts < MaxRestarts
    /\ restarts' = restarts + 1
    /\ pc' = [j \in Job |-> IF pc[j] = "unused" THEN "unused" ELSE "gone"]
    /\ \/ /\ registry' = {j \in Job : row[j] # NoRow}
          /\ state' = [j \in Job |-> Loaded(j)]
          /\ finishedAt' = [j \in Job |-> IF row[j].state \in Active
                                            THEN now + 1 ELSE row[j].finishedAt]
          /\ outcome' = [j \in Job |-> IF row[j].state \in Active
                                         THEN "failed" ELSE outcome[j]]
          /\ \E bad \in SUBSET {j \in Job : row[j].state \in Active} :
                /\ bad # {} => StoreMayFail
                /\ row' = [j \in Job |-> IF j \in bad \/ row[j].state \notin Active THEN row[j]
                                         ELSE [state |-> "failed", finishedAt |-> now + 1]]
                /\ faulted' = (faulted \/ bad # {})
       \/ /\ StoreMayFail           \* LoadJobs failed: start with an empty registry
          /\ registry' = {}
          /\ state' = [j \in Job |-> "none"]
          /\ finishedAt' = [j \in Job |-> 0]
          /\ faulted' = TRUE
          /\ UNCHANGED <<row, outcome>>
    /\ now' = now + 1
    /\ stage' = {}
    /\ sem' = 0
    /\ stopping' = FALSE
    /\ UNCHANGED <<configs, snapshots, keep>>

-----------------------------------------------------------------------------

Submit(j) == SubmitRegister(j) \/ SubmitPersist(j)

Worker(j) ==
    \/ AcquireSlot(j) \/ StopQueued(j) \/ MarkRunning(j) \/ PersistRunning(j)
    \/ RunnerStart(j) \/ RunnerFail(j) \/ PwshExit(j)
    \/ \E st \in {"done", "failed"} : MarkResult(j, st)
    \/ PersistResult(j) \/ CopyConfig(j) \/ CloseDone(j)

Next ==
    \/ \E j \in Job : Submit(j) \/ Worker(j) \/ Delete(j)
    \/ \E n \in KeepChoices : SetKeepCompleted(n)
    \/ Shutdown
    \/ Restart

Spec == Init /\ [][Next]_vars

(* Fairness.  A goroutine that can run does run; blocked senders of a Go     *)
(* channel are served first come first served, so a queued worker is not     *)
(* overtaken forever; the PowerShell script terminates.  Nothing is assumed  *)
(* of users, of the administrator or of crashes.                             *)
FairSpec ==
    /\ Spec
    /\ \A j \in Job :
        /\ WF_vars(SubmitPersist(j))
        /\ WF_vars(Worker(j))
        /\ SF_vars(AcquireSlot(j))

-----------------------------------------------------------------------------
(* Properties. *)

\* WORKER_CONCURRENCY holds and slots do not leak: the semaphore counts exactly
\* the workers between its acquisition and the deferred release, and never more
\* than MaxConcurrent scripts run.
SlotsBalance ==
    /\ sem = Cardinality(Holders)
    /\ Cardinality({j \in Job : pc[j] = "pwsh"}) <= MaxConcurrent

\* A job listed as pending or running has a goroutine that will finish it: no
\* prune, deletion, cancellation or reload leaves a job that looks active forever.
ActiveIsOwned ==
    \A j \in registry : state[j] \in Active => pc[j] \in Queue \cup Holding

\* The script's input survives until it was staged: neither retention nor Delete
\* removes the config file of a job that has not been given its verdict, and the
\* script runs in the staging directory of a listed job.
ConfigKept ==
    \A j \in Job :
        /\ pc[j] \in Queue \cup {"slot", "marked", "running", "pwsh"}
             => j \in configs /\ j \in registry
        /\ pc[j] = "pwsh" => j \in stage

\* While no store call has failed, a listed job whose thread is not just about
\* to save has a row with the same state, so a restart finds it; the canceled
\* state is the exception (it is never saved).
RowTracksJob ==
    \A j \in registry :
        ~faulted /\ pc[j] \notin {"registered", "slot", "marked", "resulted"} =>
            \/ row[j].state = state[j]
            \/ state[j] = "canceled" /\ row[j].state = "pending"

\* Whoever waits for Done() of a successful job that is still listed finds its config:
\* the snapshot was attempted before Done() closed and while the config file was there,
\* and a snapshot that failed, which the code does not look at, leaves the config file
\* to import from.
DoneMeansComplete ==
    \A j \in registry : pc[j] = "finished" /\ state[j] = "done" =>
        /\ snapshots[j] # "none"
        /\ snapshots[j] = "lost" => j \in configs

\* A verdict that reached the disk is durable: a final row is never overwritten
\* by another state, whatever is saved late, restarted or normalised.
DurableVerdict ==
    [][\A j \in Job : row[j].state \in Final => row'[j].state \in {row[j].state, "none"}]_vars

\* The manager implements the lifecycle a client sees.
Lifecycle == INSTANCE JobLifecycle
    WITH view <- [j \in Job |-> IF j \in registry THEN state[j] ELSE "absent"]
ImplementsLifecycle == Lifecycle!LSpec

\* A submitted job reaches a verdict and closes Done() unless the process ends,
\* even when other jobs keep coming and whether or not a shutdown starts.
EveryJobFinishes == \A j \in Job : pc[j] = "queued" ~> pc[j] \in {"finished", "gone"}
=============================================================================
