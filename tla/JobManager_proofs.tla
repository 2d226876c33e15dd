------------------------- MODULE JobManager_proofs -------------------------
(***************************************************************************)
(* Proofs about the job manager for every set of job ids, every semaphore  *)
(* capacity, every retention setting, any number of restarts and any       *)
(* failing store calls.                                                    *)
(***************************************************************************)
EXTENDS JobManager, FiniteSetTheorems, TLAPS

-----------------------------------------------------------------------------
(* Which threads hold a slot of the semaphore. *)

\* The semaphore counts the holders, and there are finitely many.
Slots ==
    /\ IsFiniteSet(Holders)
    /\ sem = Cardinality(Holders)
    /\ sem <= MaxConcurrent

\* A thread that reaches the code under the slot becomes a holder.
LEMMA HoldersGain ==
    ASSUME NEW j \in Job, pc \in [Job -> PC], pc[j] \notin Holding,
           NEW to \in Holding, pc' = [pc EXCEPT ![j] = to]
    PROVE  Holders' = Holders \cup {j} /\ j \notin Holders
BY DEF Holders

\* A thread that leaves it is none any more.
LEMMA HoldersLose ==
    ASSUME NEW j \in Job, pc \in [Job -> PC], pc[j] \in Holding,
           NEW to, to \notin Holding, pc' = [pc EXCEPT ![j] = to]
    PROVE  Holders' = Holders \ {j} /\ j \in Holders
BY DEF Holders

\* Moves on the same side of the semaphore change nothing.
LEMMA HoldersKeep ==
    ASSUME NEW j \in Job, pc \in [Job -> PC], NEW to,
           pc[j] \in Holding <=> to \in Holding, pc' = [pc EXCEPT ![j] = to]
    PROVE  Holders' = Holders
BY DEF Holders

\* A move of one thread across the semaphore keeps the balance when sem moves too.
LEMMA SlotsGain ==
    ASSUME NEW j \in Job, pc \in [Job -> PC], Slots, pc[j] \notin Holding,
           NEW to \in Holding, pc' = [pc EXCEPT ![j] = to],
           sem < MaxConcurrent, sem' = sem + 1
    PROVE  Slots' /\ sem' \in Nat
<1>1. Holders' = Holders \cup {j} /\ j \notin Holders
  BY HoldersGain
<1>2. IsFiniteSet(Holders') /\ Cardinality(Holders') = Cardinality(Holders) + 1
  BY <1>1, FS_AddElement DEF Slots
<1>3. Cardinality(Holders) \in Nat
  BY FS_CardinalityType DEF Slots
<1>4. sem' <= MaxConcurrent
  BY <1>3, JobManagerAssumption DEF Slots
<1>5. QED
  BY <1>2, <1>3, <1>4 DEF Slots

\* The same for a thread that gives its slot back.
LEMMA SlotsLose ==
    ASSUME NEW j \in Job, pc \in [Job -> PC], Slots, pc[j] \in Holding,
           NEW to, to \notin Holding, pc' = [pc EXCEPT ![j] = to], sem' = sem - 1
    PROVE  Slots' /\ sem' \in Nat
<1>1. Holders' = Holders \ {j} /\ j \in Holders
  BY HoldersLose
<1>2. IsFiniteSet(Holders') /\ Cardinality(Holders') = Cardinality(Holders) - 1
  BY <1>1, FS_RemoveElement DEF Slots
<1>3. Cardinality(Holders) \in Nat /\ Cardinality(Holders') \in Nat
  BY <1>2, FS_CardinalityType DEF Slots
<1>4. sem' <= MaxConcurrent
  BY <1>3, JobManagerAssumption DEF Slots
<1>5. QED
  BY <1>2, <1>3, <1>4 DEF Slots

\* A step that moves no thread across the semaphore and leaves sem alone keeps the balance.
LEMMA SlotsKeep ==
    ASSUME NEW j \in Job, pc \in [Job -> PC], Slots, NEW to,
           pc[j] \in Holding <=> to \in Holding, pc' = [pc EXCEPT ![j] = to], sem' = sem
    PROVE  Slots'
<1>1. Holders' = Holders
  BY HoldersKeep
<1>2. QED
  BY <1>1 DEF Slots

-----------------------------------------------------------------------------
(* Types and slots, together: that sem stays a natural number needs the       *)
(* balance.                                                                   *)

TypedSlots == TypeOK /\ Slots

\* No thread and no slot at the start.
LEMMA TypedSlotsInit == Init => TypedSlots
<1> SUFFICES ASSUME Init PROVE TypedSlots
  OBVIOUS
<1>1. TypeOK
  BY JobManagerAssumption DEF Init, TypeOK, PC, Queue, Holding, State, Active, Final, NoRow
<1>2. Holders = {}
  BY DEF Init, Holders, Holding
<1>3. Slots
  BY <1>2, FS_EmptySet, JobManagerAssumption DEF Init, Slots
<1>4. QED
  BY <1>1, <1>3 DEF TypedSlots

\* What the helpers do to the types.
LEMMA PersistTyped ==
    ASSUME TypeOK, NEW j \in Job, Persist(j)
    PROVE  /\ row' \in [Job -> [state : State \cup {"none"}, finishedAt : Nat]]
           /\ faulted' \in BOOLEAN
<1>1. CASE row' = [row EXCEPT ![j] = [state |-> state[j], finishedAt |-> finishedAt[j]]]
           /\ faulted' = faulted
  <2>1. [state |-> state[j], finishedAt |-> finishedAt[j]]
          \in [state : State \cup {"none"}, finishedAt : Nat]
    BY DEF TypeOK
  <2>2. QED
    BY <1>1, <2>1 DEF TypeOK
<1>2. CASE faulted' = TRUE /\ row' = row
  BY <1>2 DEF TypeOK
<1>3. QED
  BY <1>1, <1>2 DEF Persist

\* Dropping jobs keeps the types.
LEMMA DropTyped ==
    ASSUME TypeOK, NEW D, NEW reg \in SUBSET Job, Drop(D, reg)
    PROVE  /\ registry' \subseteq Job
           /\ row' \in [Job -> [state : State \cup {"none"}, finishedAt : Nat]]
           /\ faulted' \in BOOLEAN
BY DEF TypeOK, Drop, NoRow

\* Recording a verdict keeps the types.
LEMMA StampTyped ==
    ASSUME TypeOK, NEW j \in Job, NEW st \in Final, Stamp(j, st)
    PROVE  /\ state' \in [Job -> State \cup {"none"}]
           /\ finishedAt' \in [Job -> Nat]
           /\ outcome' \in [Job -> Final \cup {"none"}]
           /\ now' \in Nat
BY DEF TypeOK, Stamp, State

\* Every action keeps the types and the balance of the semaphore: each worker step
\* either stays on its side of it, or crosses it and moves sem.
LEMMA TypedSlotsStep == TypedSlots /\ [Next]_vars => TypedSlots'
<1> SUFFICES ASSUME TypeOK, Slots, [Next]_vars PROVE TypedSlots'
  BY DEF TypedSlots
<1> USE DEF PC, Queue, Holding, memory, disk, Goto
<1>1. ASSUME NEW j \in Job, SubmitRegister(j) PROVE TypedSlots'
  <2>1. PICK D \in Victims(registry, keep) :
              /\ Drop(D, registry \cup {j})
              /\ configs' = (configs \cup {j}) \ D
    BY <1>1 DEF SubmitRegister
  <2>2. registry \cup {j} \in SUBSET Job
    BY DEF TypeOK
  <2>3. TypeOK'
    BY <1>1, <2>1, <2>2, DropTyped DEF SubmitRegister, TypeOK, State, Active
  <2>4. Slots'
    BY <1>1, SlotsKeep DEF SubmitRegister, TypeOK
  <2>5. QED
    BY <2>3, <2>4 DEF TypedSlots
<1>2. ASSUME NEW j \in Job, SubmitPersist(j) PROVE TypedSlots'
  <2>1. TypeOK'
    BY <1>2, PersistTyped DEF SubmitPersist, TypeOK
  <2>2. Slots'
    BY <1>2, SlotsKeep DEF SubmitPersist, TypeOK
  <2>3. QED
    BY <2>1, <2>2 DEF TypedSlots
<1>3. ASSUME NEW j \in Job, AcquireSlot(j) PROVE TypedSlots'
  <2>1. Slots' /\ sem' \in Nat
    BY <1>3, SlotsGain DEF AcquireSlot, TypeOK
  <2>2. QED
    BY <1>3, <2>1 DEF AcquireSlot, TypeOK, TypedSlots
<1>4. ASSUME NEW j \in Job, StopQueued(j) PROVE TypedSlots'
  <2>1. TypeOK'
    BY <1>4, StampTyped DEF StopQueued, TypeOK, Final
  <2>2. Slots'
    BY <1>4, SlotsKeep DEF StopQueued, TypeOK
  <2>3. QED
    BY <2>1, <2>2 DEF TypedSlots
<1>5. ASSUME NEW j \in Job, MarkRunning(j) PROVE TypedSlots'
  <2>1. Slots'
    BY <1>5, SlotsKeep DEF MarkRunning, TypeOK
  <2>2. QED
    BY <1>5, <2>1 DEF MarkRunning, TypeOK, TypedSlots, State, Active
<1>6. ASSUME NEW j \in Job, PersistRunning(j) PROVE TypedSlots'
  <2>1. TypeOK'
    BY <1>6, PersistTyped DEF PersistRunning, TypeOK
  <2>2. Slots'
    BY <1>6, SlotsKeep DEF PersistRunning, TypeOK
  <2>3. QED
    BY <2>1, <2>2 DEF TypedSlots
<1>7. ASSUME NEW j \in Job, RunnerStart(j) PROVE TypedSlots'
  <2>1. Slots'
    BY <1>7, SlotsKeep DEF RunnerStart, TypeOK
  <2>2. QED
    BY <1>7, <2>1 DEF RunnerStart, TypeOK, TypedSlots
<1>8. ASSUME NEW j \in Job, RunnerFail(j) PROVE TypedSlots'
  <2>1. Slots'
    BY <1>8, SlotsKeep DEF RunnerFail, TypeOK
  <2>2. QED
    BY <1>8, <2>1 DEF RunnerFail, TypeOK, TypedSlots
<1>9. ASSUME NEW j \in Job, PwshExit(j) PROVE TypedSlots'
  <2>1. Slots'
    BY <1>9, SlotsKeep DEF PwshExit, TypeOK
  <2>2. QED
    BY <1>9, <2>1 DEF PwshExit, TypeOK, TypedSlots
<1>10. ASSUME NEW j \in Job, NEW st \in {"done", "failed"}, MarkResult(j, st)
       PROVE  TypedSlots'
  <2>1. TypeOK'
    BY <1>10, StampTyped DEF MarkResult, TypeOK, Final
  <2>2. Slots'
    BY <1>10, SlotsKeep DEF MarkResult, TypeOK
  <2>3. QED
    BY <2>1, <2>2 DEF TypedSlots
<1>11. ASSUME NEW j \in Job, PersistResult(j) PROVE TypedSlots'
  <2>1. TypeOK'
    BY <1>11, PersistTyped DEF PersistResult, TypeOK
  <2>2. Slots'
    BY <1>11, SlotsKeep DEF PersistResult, TypeOK
  <2>3. QED
    BY <2>1, <2>2 DEF TypedSlots
<1>12. ASSUME NEW j \in Job, CopyConfig(j) PROVE TypedSlots'
  <2>1. Slots'
    BY <1>12, SlotsKeep DEF CopyConfig, TypeOK
  <2>2. QED
    BY <1>12, <2>1 DEF CopyConfig, TypeOK, TypedSlots
<1>13. ASSUME NEW j \in Job, CloseDone(j) PROVE TypedSlots'
  <2>1. Slots' /\ sem' \in Nat
    BY <1>13, SlotsLose DEF CloseDone, TypeOK
  <2>2. QED
    BY <1>13, <2>1 DEF CloseDone, TypeOK, TypedSlots
<1>14. ASSUME NEW j \in Job, Delete(j) PROVE TypedSlots'
  <2>1. TypeOK'
    BY <1>14, DropTyped DEF Delete, TypeOK
  <2>2. Slots'
    BY <1>14 DEF Delete, Slots, Holders
  <2>3. QED
    BY <2>1, <2>2 DEF TypedSlots
<1>15. ASSUME NEW n \in KeepChoices, SetKeepCompleted(n) PROVE TypedSlots'
  <2>1. PICK D \in Victims(registry, n) : Drop(D, registry) /\ configs' = configs \ D
    BY <1>15 DEF SetKeepCompleted
  <2>2. TypeOK'
    BY <1>15, <2>1, DropTyped DEF SetKeepCompleted, TypeOK
  <2>3. Slots'
    BY <1>15 DEF SetKeepCompleted, Slots, Holders
  <2>4. QED
    BY <2>2, <2>3 DEF TypedSlots
<1>16. CASE Shutdown
  BY <1>16 DEF Shutdown, TypedSlots, TypeOK, Slots, Holders
<1>17. CASE Restart
  <2>1. Holders' = {} /\ sem' = 0
    BY <1>17 DEF Restart, Holders
  <2>2. Slots'
    BY <2>1, FS_EmptySet, JobManagerAssumption DEF Slots
  <2>3. pc' \in [Job -> PC] /\ registry' \subseteq Job
    BY <1>17 DEF Restart, TypeOK
  <2>4. state' \in [Job -> State \cup {"none"}]
    BY <1>17 DEF Restart, TypeOK, Loaded, State, Active, Final
  <2>5. finishedAt' \in [Job -> Nat]
    BY <1>17 DEF Restart, TypeOK
  <2>6. row' \in [Job -> [state : State \cup {"none"}, finishedAt : Nat]]
    <3>1. ASSUME NEW bad,
                 row' = [j \in Job |-> IF j \in bad \/ row[j].state \notin Active THEN row[j]
                                       ELSE [state |-> "failed", finishedAt |-> now + 1]]
          PROVE  row' \in [Job -> [state : State \cup {"none"}, finishedAt : Nat]]
      BY <3>1 DEF TypeOK, State, Final
    <3>2. QED
      BY <1>17, <3>1 DEF Restart, TypeOK
  <2>7. outcome' \in [Job -> Final \cup {"none"}]
    BY <1>17 DEF Restart, TypeOK, Final
  <2>8. faulted' \in BOOLEAN /\ stopping' \in BOOLEAN
    BY <1>17 DEF Restart, TypeOK
  <2>9. now' \in Nat /\ restarts' \in Nat /\ sem' \in Nat
    BY <1>17 DEF Restart, TypeOK
  <2>10. configs' \subseteq Job /\ stage' \subseteq Job
           /\ snapshots' \in [Job -> {"none", "kept", "lost"}] /\ keep' \in KeepChoices
    BY <1>17 DEF Restart, TypeOK
  <2>11. TypeOK'
    BY <2>3, <2>4, <2>5, <2>6, <2>7, <2>8, <2>9, <2>10 DEF TypeOK
  <2>12. QED
    BY <2>2, <2>11 DEF TypedSlots
<1>18. CASE UNCHANGED vars
  BY <1>18 DEF vars, TypedSlots, TypeOK, Slots, Holders
<1>19. QED
  BY <1>1, <1>2, <1>3, <1>4, <1>5, <1>6, <1>7, <1>8, <1>9, <1>10, <1>11, <1>12, <1>13,
     <1>14, <1>15, <1>16, <1>17, <1>18 DEF Next, Submit, Worker

\* The job manager keeps its types in every reachable state.
THEOREM TypeCorrect == Spec => []TypeOK
<1>1. TypedSlots => TypeOK
  BY DEF TypedSlots
<1>2. QED
  BY TypedSlotsInit, TypedSlotsStep, <1>1, PTL DEF Spec

\* Types and balance together, as an invariant of the manager.
LEMMA TypedSlotsAlways == Spec => []TypedSlots
BY TypedSlotsInit, TypedSlotsStep, PTL DEF Spec

\* WORKER_CONCURRENCY holds for any number of jobs and through any crash: the
\* semaphore counts exactly the workers that hold a slot, and at most
\* MaxConcurrent scripts run.
THEOREM SlotsBalanceTheorem == Spec => []SlotsBalance
<1>1. TypedSlots => SlotsBalance
  <2> SUFFICES ASSUME TypedSlots PROVE SlotsBalance
    OBVIOUS
  <2> DEFINE P == {j \in Job : pc[j] = "pwsh"}
  <2>1. P \in SUBSET Holders
    BY DEF Holders, Holding
  <2>2. Cardinality(P) <= Cardinality(Holders) /\ IsFiniteSet(P)
    BY <2>1, FS_Subset DEF TypedSlots, Slots
  <2>3. Cardinality(P) \in Nat /\ Cardinality(Holders) \in Nat
    BY <2>2, FS_CardinalityType DEF TypedSlots, Slots
  <2>4. Cardinality(P) <= MaxConcurrent
    BY <2>2, <2>3, JobManagerAssumption DEF TypedSlots, Slots
  <2>5. QED
    BY <2>4 DEF SlotsBalance, TypedSlots, Slots
<1>2. QED
  BY TypedSlotsAlways, <1>1, PTL

-----------------------------------------------------------------------------
(* The inductive invariant behind the other properties: what the position of  *)
(* a job's thread says about its record, its files and its row.               *)

Waiting   == {"registered", "queued", "slot"}
Executing == {"marked", "running", "pwsh", "exited", "failing"}
Wrapping  == {"resulted", "saved", "copied"}
Settling  == {"saved", "copied", "finished", "gone"}

\* The state of the record follows the thread.
Phase(j) ==
    /\ pc[j] \in Waiting <=> state[j] = "pending"
    /\ pc[j] \in Executing <=> state[j] = "running"
    /\ pc[j] \in Wrapping => state[j] \in {"done", "failed"} /\ outcome[j] = state[j]
    /\ pc[j] = "unused" => /\ state[j] = "none" /\ outcome[j] = "none"
                           /\ row[j] = NoRow /\ j \notin registry

\* An unfinished job is listed, and its config is there until the snapshot.
Kept(j) ==
    /\ state[j] \in Active => j \in registry
    /\ j \in registry => state[j] # "none"
    /\ j \in registry /\ pc[j] \in Waiting \cup Executing \cup {"resulted", "saved"}
         => j \in configs

\* A finished job that is listed has its config file, and the copy of it was attempted;
\* a script runs in its staging directory.
Files(j) ==
    /\ j \in registry /\ pc[j] \in {"copied", "finished"} /\ state[j] = "done"
         => snapshots[j] # "none" /\ j \in configs
    /\ pc[j] = "pwsh" => j \in stage

\* A final row holds the verdict of a thread that will not save again.
RowVerdict(j) ==
    /\ row[j].state \in Final => /\ pc[j] \in Settling
                                 /\ row[j].state = outcome[j]
                                 /\ row[j].state \in {"done", "failed"}
    /\ row[j].state = "none" => row[j] = NoRow

Sound(j) == Phase(j) /\ Kept(j) /\ Files(j) /\ RowVerdict(j)
JobInv   == TypeOK /\ \A j \in Job : Sound(j)

\* Retention picks listed, finished jobs.
LEMMA VictimsAreFinished ==
    ASSUME NEW reg, NEW n, NEW D \in Victims(reg, n)
    PROVE  D \subseteq reg /\ \A k \in D : state[k] \in Final
BY DEF Victims, Finished

\* Dropping jobs touches only their rows.
LEMMA DropRows ==
    ASSUME TypeOK, NEW D, NEW reg, Drop(D, reg), NEW k \in Job
    PROVE  /\ registry' = reg \ D
           /\ row'[k] = row[k] \/ (k \in D /\ row'[k] = NoRow)
BY DEF Drop

\* A save touches the row of one job and stores its present state.
LEMMA PersistRows ==
    ASSUME TypeOK, NEW j \in Job, Persist(j), NEW k \in Job
    PROVE  /\ k # j => row'[k] = row[k]
           /\ row'[j] = row[j] \/ row'[j].state = state[j]
BY DEF Persist, TypeOK

\* Nothing has been submitted at the start.
LEMMA JobInvInit == Init => JobInv
<1> SUFFICES ASSUME Init PROVE JobInv
  OBVIOUS
<1>1. TypeOK
  BY TypedSlotsInit DEF TypedSlots
<1>2. ASSUME NEW j \in Job PROVE Sound(j)
  BY DEF Init, Sound, Phase, Kept, Files, RowVerdict, Waiting, Executing, Wrapping, Settling,
         NoRow, Final, Active
<1>3. QED
  BY <1>1, <1>2 DEF JobInv

\* Every action keeps the invariant; the jobs it does not move are disturbed only by
\* Delete, retention and a restart.
LEMMA JobInvStep == JobInv /\ TypeOK' /\ [Next]_vars => JobInv'
<1> SUFFICES ASSUME JobInv, TypeOK', [Next]_vars, NEW k \in Job PROVE Sound(k)'
  BY DEF JobInv
<1>t. TypeOK /\ Sound(k)
  BY DEF JobInv
<1> USE DEF Sound, Phase, Kept, Files, RowVerdict, Waiting, Executing, Wrapping, Settling,
            Active, Final, memory, disk, Goto
<1>1. ASSUME NEW j \in Job, SubmitRegister(j) PROVE Sound(k)'
  <2>1. PICK D \in Victims(registry, keep) :
              /\ Drop(D, registry \cup {j})
              /\ configs' = (configs \cup {j}) \ D
    BY <1>1 DEF SubmitRegister
  <2>2. D \subseteq registry /\ \A d \in D : state[d] \in Final
    BY <2>1, VictimsAreFinished
  <2>3. /\ registry' = (registry \cup {j}) \ D
        /\ row'[k] = row[k] \/ (k \in D /\ row'[k] = NoRow)
    BY <1>t, <2>1, DropRows
  <2>4. j \notin D
    BY <1>1, <2>2 DEF SubmitRegister, JobInv
  <2>5. pc' = [pc EXCEPT ![j] = "registered"] /\ state' = [state EXCEPT ![j] = "pending"]
          /\ UNCHANGED <<outcome, snapshots, stage>> /\ pc[j] = "unused"
    BY <1>1 DEF SubmitRegister
  <2>6. CASE k = j
    BY <1>t, <2>1, <2>3, <2>4, <2>5, <2>6 DEF TypeOK, NoRow
  <2>7. CASE k # j
    BY <1>t, <2>1, <2>2, <2>3, <2>5, <2>7 DEF TypeOK, NoRow
  <2>8. QED
    BY <2>6, <2>7
<1>2. ASSUME NEW j \in Job, SubmitPersist(j) PROVE Sound(k)'
  BY <1>t, <1>2, PersistRows DEF SubmitPersist, TypeOK, JobInv
<1>3. ASSUME NEW j \in Job, AcquireSlot(j) PROVE Sound(k)'
  BY <1>t, <1>3 DEF AcquireSlot, TypeOK
<1>4. ASSUME NEW j \in Job, StopQueued(j) PROVE Sound(k)'
  BY <1>t, <1>4 DEF StopQueued, Stamp, TypeOK
<1>5. ASSUME NEW j \in Job, MarkRunning(j) PROVE Sound(k)'
  BY <1>t, <1>5 DEF MarkRunning, TypeOK
<1>6. ASSUME NEW j \in Job, PersistRunning(j) PROVE Sound(k)'
  BY <1>t, <1>6, PersistRows DEF PersistRunning, TypeOK, JobInv
<1>7. ASSUME NEW j \in Job, RunnerStart(j) PROVE Sound(k)'
  BY <1>t, <1>7 DEF RunnerStart, TypeOK
<1>8. ASSUME NEW j \in Job, RunnerFail(j) PROVE Sound(k)'
  BY <1>t, <1>8 DEF RunnerFail, TypeOK
<1>9. ASSUME NEW j \in Job, PwshExit(j) PROVE Sound(k)'
  BY <1>t, <1>9 DEF PwshExit, TypeOK
<1>10. ASSUME NEW j \in Job, NEW st \in {"done", "failed"}, MarkResult(j, st)
       PROVE  Sound(k)'
  BY <1>t, <1>10 DEF MarkResult, Stamp, TypeOK
<1>11. ASSUME NEW j \in Job, PersistResult(j) PROVE Sound(k)'
  BY <1>t, <1>11, PersistRows DEF PersistResult, TypeOK, JobInv
<1>12. ASSUME NEW j \in Job, CopyConfig(j) PROVE Sound(k)'
  BY <1>t, <1>12 DEF CopyConfig, TypeOK
<1>13. ASSUME NEW j \in Job, CloseDone(j) PROVE Sound(k)'
  BY <1>t, <1>13 DEF CloseDone, TypeOK
<1>14. ASSUME NEW j \in Job, Delete(j) PROVE Sound(k)'
  BY <1>t, <1>14, DropRows DEF Delete, TypeOK, NoRow
<1>15. ASSUME NEW n \in KeepChoices, SetKeepCompleted(n) PROVE Sound(k)'
  <2>1. PICK D \in Victims(registry, n) : Drop(D, registry) /\ configs' = configs \ D
    BY <1>15 DEF SetKeepCompleted
  <2>2. D \subseteq registry /\ \A d \in D : state[d] \in Final
    BY <2>1, VictimsAreFinished
  <2>3. registry' = registry \ D /\ (row'[k] = row[k] \/ (k \in D /\ row'[k] = NoRow))
    BY <1>t, <2>1, DropRows
  <2>4. QED
    BY <1>t, <1>15, <2>1, <2>2, <2>3 DEF SetKeepCompleted, TypeOK, NoRow
<1>16. CASE Shutdown
  BY <1>t, <1>16 DEF Shutdown
<1>17. CASE Restart
  <2>1. /\ pc'[k] = IF pc[k] = "unused" THEN "unused" ELSE "gone"
        /\ stage' = {}
    BY <1>17 DEF Restart
  <2>2. CASE registry' = {} /\ UNCHANGED <<row, outcome>> /\ state' = [j \in Job |-> "none"]
    BY <1>t, <2>1, <2>2
  <2>3. CASE /\ registry' = {j \in Job : row[j] # NoRow}
             /\ state' = [j \in Job |-> Loaded(j)]
             /\ outcome' = [j \in Job |-> IF row[j].state \in Active
                                            THEN "failed" ELSE outcome[j]]
             /\ row'[k] = row[k] \/ (row[k].state \in Active /\ row'[k].state = "failed")
    BY <1>t, <2>1, <2>3 DEF Loaded, NoRow, TypeOK, State
  <2>4. QED
    BY <1>17, <2>2, <2>3 DEF Restart
<1>18. CASE UNCHANGED vars
  BY <1>t, <1>18 DEF vars
<1>19. QED
  BY <1>1, <1>2, <1>3, <1>4, <1>5, <1>6, <1>7, <1>8, <1>9, <1>10, <1>11, <1>12, <1>13,
     <1>14, <1>15, <1>16, <1>17, <1>18 DEF Next, Submit, Worker

\* The inductive invariant holds in every reachable state.
LEMMA JobInvAlways == Spec => []JobInv
BY TypeCorrect, JobInvInit, JobInvStep, PTL DEF Spec

-----------------------------------------------------------------------------
(* The safety properties. *)

\* Every job listed as pending or running has a goroutine that will finish it:
\* Submit, the worker, Delete, retention and start-up never leave one behind.
THEOREM ActiveIsOwnedTheorem == Spec => []ActiveIsOwned
<1>1. JobInv => ActiveIsOwned
  BY DEF JobInv, TypeOK, Sound, Phase, ActiveIsOwned, Waiting, Executing, Queue, Holding, Active
<1>2. QED
  BY JobInvAlways, <1>1, PTL

\* The config file of a job without a verdict is never removed, whatever is
\* deleted or pruned meanwhile.
THEOREM ConfigKeptTheorem == Spec => []ConfigKept
<1>1. JobInv => ConfigKept
  BY DEF JobInv, Sound, Phase, Kept, Files, ConfigKept, Waiting, Executing, Queue, Active
<1>2. QED
  BY JobInvAlways, <1>1, PTL

\* When Done() of a successful job that is still listed is closed, its config was
\* copied while it was there, and it is still there if the copy failed.
THEOREM DoneMeansCompleteTheorem == Spec => []DoneMeansComplete
<1>1. JobInv => DoneMeansComplete
  BY DEF JobInv, TypeOK, Sound, Files, DoneMeansComplete
<1>2. QED
  BY JobInvAlways, <1>1, PTL

\* A verdict on disk is durable: late saves, retention, Delete and any number of
\* restarts leave a final row as it is or remove it.
THEOREM DurableVerdictTheorem == Spec => DurableVerdict
<1> DEFINE Durable == \A j \in Job : row[j].state \in Final
                                       => row'[j].state \in {row[j].state, "none"}
<1>1. JobInv /\ [Next]_vars => [Durable]_vars
  <2> SUFFICES ASSUME JobInv, [Next]_vars, NEW k \in Job, row[k].state \in Final
               PROVE  row'[k].state \in {row[k].state, "none"}
    OBVIOUS
  <2>t. TypeOK /\ pc[k] \in Settling
    BY DEF JobInv, Sound, RowVerdict
  <2>1. ASSUME NEW j \in Job, Persist(j), pc[j] \notin Settling PROVE row'[k] = row[k]
    BY <2>t, <2>1, PersistRows
  <2>2. ASSUME NEW D, NEW reg, Drop(D, reg) PROVE row'[k] = row[k] \/ row'[k] = NoRow
    BY <2>t, <2>2, DropRows
  <2>3. CASE UNCHANGED row
    BY <2>3
  <2>4. ASSUME NEW j \in Job, Submit(j) PROVE row'[k] = row[k] \/ row'[k] = NoRow
    BY <2>t, <2>1, <2>2, <2>4
       DEF Submit, SubmitRegister, SubmitPersist, Goto, Settling
  <2>5. ASSUME NEW j \in Job, Worker(j) PROVE row'[k] = row[k]
    <3>1. CASE PersistRunning(j) \/ PersistResult(j)
      BY <3>1, <2>t, <2>1 DEF PersistRunning, PersistResult, Goto, Settling
    <3>2. CASE row' = row
      BY <3>2
    <3>3. QED
      BY <2>5, <3>1, <3>2
         DEF Worker, AcquireSlot, StopQueued, MarkRunning, RunnerStart, RunnerFail, PwshExit,
             MarkResult, CopyConfig, CloseDone, disk
  <2>6. ASSUME NEW j \in Job, Delete(j) PROVE row'[k] = row[k] \/ row'[k] = NoRow
    BY <2>2, <2>6 DEF Delete
  <2>7. ASSUME NEW n \in KeepChoices, SetKeepCompleted(n)
        PROVE  row'[k] = row[k] \/ row'[k] = NoRow
    BY <2>2, <2>7 DEF SetKeepCompleted
  <2>8. CASE Shutdown \/ UNCHANGED vars
    BY <2>8 DEF Shutdown, vars, disk
  <2>9. CASE Restart
    BY <2>9 DEF Restart, Active, Final
  <2>10. QED
    BY <2>4, <2>5, <2>6, <2>7, <2>8, <2>9 DEF Next, NoRow
<1>2. QED
  BY JobInvAlways, <1>1, PTL DEF Spec, DurableVerdict

-----------------------------------------------------------------------------
(* The rows keep up with the records. *)

Tracked(j) ==
    j \in registry /\ ~faulted /\ pc[j] \notin {"registered", "slot", "marked", "resulted"} =>
        \/ row[j].state = state[j]
        \/ state[j] = "canceled" /\ row[j].state = "pending"

\* A save that does not fail stores the state; a failure is remembered.
LEMMA PersistTracks ==
    ASSUME TypeOK, NEW j \in Job, Persist(j), ~faulted', NEW k \in Job
    PROVE  ~faulted /\ row'[j].state = state[j] /\ (k # j => row'[k] = row[k])
<1>1. /\ row' = [row EXCEPT ![j] = [state |-> state[j], finishedAt |-> finishedAt[j]]]
      /\ faulted' = faulted
  BY DEF Persist
<1>2. QED
  BY <1>1 DEF TypeOK

\* A drop during which no call failed was preceded by none.
LEMMA DropTracks ==
    ASSUME TypeOK, NEW D, NEW reg, Drop(D, reg), ~faulted'
    PROVE  ~faulted
BY DEF Drop

\* Every action keeps rows and records together until a store call fails.
LEMMA TrackedStep ==
    JobInv /\ (\A j \in Job : Tracked(j)) /\ [Next]_vars => (\A j \in Job : Tracked(j))'
<1> DEFINE RowOf(j) == \/ row'[j].state = state'[j]
                       \/ state'[j] = "canceled" /\ row'[j].state = "pending"
<1> SUFFICES ASSUME JobInv, \A j \in Job : Tracked(j), [Next]_vars, NEW k \in Job,
                    k \in registry', ~faulted',
                    pc'[k] \notin {"registered", "slot", "marked", "resulted"}
             PROVE  RowOf(k)
  BY DEF Tracked
<1>t. TypeOK /\ Phase(k) /\ Tracked(k)
  BY DEF JobInv, Sound
<1> USE DEF Tracked, Goto, memory, disk
<1>1. ASSUME NEW j \in Job, SubmitRegister(j) PROVE RowOf(k)
  <2>1. PICK D \in Victims(registry, keep) : Drop(D, registry \cup {j})
    BY <1>1 DEF SubmitRegister
  <2>2. k # j /\ pc'[k] = pc[k] /\ state'[k] = state[k]
    BY <1>1, <1>t DEF SubmitRegister, TypeOK
  <2>3. ~faulted /\ k \in registry /\ row'[k] = row[k]
    BY <1>t, <2>1, <2>2, DropRows, DropTracks
  <2>4. QED
    BY <1>t, <2>2, <2>3
<1>2. ASSUME NEW j \in Job, SubmitPersist(j) \/ PersistRunning(j) \/ PersistResult(j)
      PROVE  RowOf(k)
  <2>1. ~faulted /\ row'[j].state = state[j] /\ (k # j => row'[k] = row[k])
    BY <1>t, <1>2, PersistTracks DEF SubmitPersist, PersistRunning, PersistResult
  <2>2. state' = state /\ registry' = registry /\ (k # j => pc'[k] = pc[k])
    BY <1>t, <1>2 DEF SubmitPersist, PersistRunning, PersistResult, TypeOK
  <2>3. QED
    BY <1>t, <2>1, <2>2
<1>3. ASSUME NEW j \in Job, StopQueued(j)
      PROVE  RowOf(k)
  BY <1>t, <1>3 DEF StopQueued, Stamp, TypeOK, Phase, Waiting
<1>4. ASSUME NEW j \in Job, AcquireSlot(j) \/ MarkRunning(j) \/ (\E st \in {"done", "failed"} : MarkResult(j, st))
      PROVE  RowOf(k)
  BY <1>t, <1>4 DEF AcquireSlot, MarkRunning, MarkResult, Stamp, TypeOK
<1>5. ASSUME NEW j \in Job,
             RunnerStart(j) \/ RunnerFail(j) \/ PwshExit(j) \/ CopyConfig(j) \/ CloseDone(j)
      PROVE  RowOf(k)
  BY <1>t, <1>5 DEF RunnerStart, RunnerFail, PwshExit, CopyConfig, CloseDone, TypeOK
<1>6. ASSUME NEW j \in Job, Delete(j)
      PROVE  RowOf(k)
  <2>1. ~faulted /\ k \in registry /\ row'[k] = row[k]
    BY <1>t, <1>6, DropRows, DropTracks DEF Delete
  <2>2. QED
    BY <1>t, <1>6, <2>1 DEF Delete
<1>7. ASSUME NEW n \in KeepChoices, SetKeepCompleted(n)
      PROVE  RowOf(k)
  <2>1. PICK D \in Victims(registry, n) : Drop(D, registry)
    BY <1>7 DEF SetKeepCompleted
  <2>2. ~faulted /\ k \in registry /\ row'[k] = row[k]
    BY <1>t, <2>1, DropRows, DropTracks
  <2>3. QED
    BY <1>t, <1>7, <2>2 DEF SetKeepCompleted
<1>8. CASE Shutdown \/ UNCHANGED vars
  BY <1>t, <1>8 DEF Shutdown, vars
<1>9. CASE Restart
  <2>1. /\ state' = [j \in Job |-> Loaded(j)]
        /\ row' = [j \in Job |-> IF row[j].state \notin Active THEN row[j]
                                 ELSE [state |-> "failed", finishedAt |-> now + 1]]
    BY <1>9 DEF Restart
  <2>2. QED
    BY <2>1 DEF Loaded
<1>10. QED
  BY <1>1, <1>2, <1>3, <1>4, <1>5, <1>6, <1>7, <1>8, <1>9 DEF Next, Submit, Worker

\* As long as no store call has failed, what a restart would load of a listed job
\* is its state, but for a verdict that is just about to be saved.
THEOREM RowTracksJobTheorem == Spec => []RowTracksJob
<1>1. Init => \A j \in Job : Tracked(j)
  BY DEF Init, Tracked
<1>2. JobInv /\ (\A j \in Job : Tracked(j)) => RowTracksJob
  BY DEF Tracked, RowTracksJob, JobInv, TypeOK
<1>3. QED
  BY JobInvAlways, TrackedStep, <1>1, <1>2, PTL DEF Spec

-----------------------------------------------------------------------------
(* Refinement: JobManager implements JobLifecycle. *)

Shown == [j \in Job |-> IF j \in registry THEN state[j] ELSE "absent"]

\* The initial states are those of the abstract lifecycle.
LEMMA LifecycleInit == Init => Lifecycle!LInit
BY DEF Init, Lifecycle!LInit

\* Dropping finished jobs is what the abstract Without does.
LEMMA DropShown ==
    ASSUME TypeOK, NEW D, D \subseteq registry, \A d \in D : state[d] \in Final,
           registry' = registry \ D, UNCHANGED <<state, outcome, restarts>>
    PROVE  Lifecycle!Forget
<1>1. D \in SUBSET Lifecycle!Settled
  BY DEF Lifecycle!Settled, Lifecycle!Verdict, Final, TypeOK
<1>2. Shown' = Lifecycle!Without(Shown, D)
  BY DEF Shown, Lifecycle!Without, TypeOK
<1>3. QED
  BY <1>1, <1>2 DEF Lifecycle!Forget, Shown

\* Every step of the manager is a step of the abstract lifecycle or shows nothing.
LEMMA LifecycleStep == JobInv /\ [Next]_vars => [Lifecycle!LNext]_(Lifecycle!lvars)
<1> SUFFICES ASSUME JobInv, [Next]_vars
             PROVE  Lifecycle!LNext \/ UNCHANGED <<Shown, outcome, restarts>>
  BY DEF Lifecycle!lvars, Shown
<1>t. TypeOK /\ \A j \in Job : Phase(j) /\ Kept(j) /\ RowVerdict(j)
  BY DEF JobInv, Sound
<1> USE DEF Goto, memory, disk
<1>1. ASSUME NEW j \in Job, SubmitRegister(j) PROVE Lifecycle!Accept(j)
  <2>1. PICK D \in Victims(registry, keep) : Drop(D, registry \cup {j})
    BY <1>1 DEF SubmitRegister
  <2>2. D \subseteq registry /\ \A d \in D : state[d] \in Final
    BY <2>1, VictimsAreFinished
  <2>3. j \notin registry /\ outcome[j] = "none" /\ j \notin D
    BY <1>1, <1>t, <2>2 DEF SubmitRegister, Phase
  <2>4. D \in SUBSET Lifecycle!Settled
    BY <1>t, <2>2 DEF Lifecycle!Settled, Lifecycle!Verdict, Final, TypeOK
  <2>5. registry' = (registry \cup {j}) \ D /\ state' = [state EXCEPT ![j] = "pending"]
          /\ UNCHANGED <<outcome, restarts>>
    BY <1>1, <2>1 DEF SubmitRegister, Drop
  <2>6. Shown' = [Lifecycle!Without(Shown, D) EXCEPT ![j] = "pending"]
    BY <1>t, <2>2, <2>3, <2>5 DEF Shown, Lifecycle!Without, TypeOK
  <2>7. QED
    BY <2>3, <2>4, <2>5, <2>6 DEF Lifecycle!Accept, Shown
<1>2. ASSUME NEW j \in Job, MarkRunning(j) PROVE Lifecycle!Begin(j)
  <2>1. state[j] = "pending" /\ j \in registry
    BY <1>2, <1>t DEF MarkRunning, Phase, Kept, Waiting, Active
  <2>2. Shown' = [Shown EXCEPT ![j] = "running"]
    BY <1>2, <1>t, <2>1 DEF MarkRunning, Shown, TypeOK
  <2>3. QED
    BY <1>2, <2>1, <2>2 DEF MarkRunning, Lifecycle!Begin, Shown
<1>3. ASSUME NEW j \in Job, StopQueued(j) PROVE Lifecycle!Conclude(j, "canceled")
  <2>1. state[j] = "pending" /\ j \in registry
    BY <1>3, <1>t DEF StopQueued, Phase, Kept, Waiting, Active
  <2>2. Shown' = [Shown EXCEPT ![j] = "canceled"]
    BY <1>3, <1>t, <2>1 DEF StopQueued, Stamp, Shown, TypeOK
  <2>3. QED
    BY <1>3, <2>1, <2>2 DEF StopQueued, Stamp, Lifecycle!Conclude, Shown
<1>4. ASSUME NEW j \in Job, NEW st \in {"done", "failed"}, MarkResult(j, st)
      PROVE  Lifecycle!Conclude(j, st)
  <2>1. state[j] = "running" /\ j \in registry
    BY <1>4, <1>t DEF MarkResult, Phase, Kept, Executing, Active
  <2>2. Shown' = [Shown EXCEPT ![j] = st]
    BY <1>4, <1>t, <2>1 DEF MarkResult, Stamp, Shown, TypeOK
  <2>3. QED
    BY <1>4, <2>1, <2>2 DEF MarkResult, Stamp, Lifecycle!Conclude, Shown
<1>5. ASSUME NEW j \in Job, Delete(j) PROVE Lifecycle!Forget
  <2>1. state[j] \in Final /\ j \in registry
    BY <1>5, <1>t DEF Delete, TypeOK, State, Active, Final, Kept
  <2>2. QED
    BY <1>5, <1>t, <2>1, DropShown DEF Delete, Drop
<1>6. ASSUME NEW n \in KeepChoices, SetKeepCompleted(n) PROVE Lifecycle!Forget
  <2>1. PICK D \in Victims(registry, n) : Drop(D, registry)
    BY <1>6 DEF SetKeepCompleted
  <2>2. QED
    BY <1>6, <1>t, <2>1, VictimsAreFinished, DropShown DEF SetKeepCompleted, Drop
<1>7. CASE Restart
  <2>1. ASSUME /\ registry' = {j \in Job : row[j] # NoRow}
               /\ state' = [j \in Job |-> Loaded(j)]
               /\ outcome' = [j \in Job |-> IF row[j].state \in Active
                                              THEN "failed" ELSE outcome[j]]
               /\ restarts' = restarts + 1
        PROVE  Lifecycle!Reboot
    <3>1. ASSUME NEW j \in Job PROVE /\ Lifecycle!AfterReboot(j)
                                     /\ Shown'[j] \in {"absent", "failed", "done"}
                                     /\ outcome'[j] \in Final \cup {"none"}
      BY <1>t, <2>1
         DEF Loaded, Lifecycle!AfterReboot, Shown, TypeOK, RowVerdict, State, Active, Final, NoRow
    <3>2. Shown' \in [Job -> {"absent", "failed", "done"}]
      BY <3>1 DEF Shown
    <3>3. outcome' \in [Job -> Final \cup {"none"}]
      BY <2>1, <3>1
    <3>4. QED
      BY <2>1, <3>1, <3>2, <3>3 DEF Lifecycle!Reboot, Lifecycle!Verdict, Shown, Final
  <2>2. ASSUME registry' = {}, UNCHANGED outcome, restarts' = restarts + 1 PROVE Lifecycle!Reboot
    <3>1. Shown' = [j \in Job |-> "absent"]
      BY <2>2 DEF Shown
    <3>2. \A j \in Job : Lifecycle!AfterReboot(j)
      BY <2>2, <3>1 DEF Lifecycle!AfterReboot, Shown
    <3>3. QED
      BY <1>t, <2>2, <3>1, <3>2 DEF Lifecycle!Reboot, Lifecycle!Verdict, Shown, TypeOK, Final
  <2>3. Lifecycle!Reboot
    BY <1>7, <2>1, <2>2 DEF Restart
  <2>4. QED
    BY <2>3 DEF Lifecycle!LNext
<1>8. CASE UNCHANGED <<registry, state, outcome, restarts>>
  BY <1>8 DEF Shown
<1>9. QED
  BY <1>1, <1>2, <1>3, <1>4, <1>5, <1>6, <1>7, <1>8
     DEF Next, Submit, Worker, SubmitPersist, AcquireSlot, PersistRunning, RunnerStart,
         RunnerFail, PwshExit, PersistResult, CopyConfig, CloseDone, Shutdown, vars,
         Lifecycle!LNext, Lifecycle!Verdict

\* The goroutines, files, rows and crashes of the manager show a client nothing
\* but the lifecycle of JobLifecycle: in particular done is only ever shown for a
\* job whose build succeeded, and nothing looks unfinished after a restart.
THEOREM Refinement == Spec => ImplementsLifecycle
BY JobInvAlways, LifecycleInit, LifecycleStep, PTL
   DEF Spec, ImplementsLifecycle, Lifecycle!LSpec
=============================================================================
