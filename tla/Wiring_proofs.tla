---------------------------- MODULE Wiring_proofs ----------------------------
(***************************************************************************)
(* Proofs about the wiring for every number of nodes, every topology and   *)
(* option, every number of slots and attempts, any number of re-wires, and *)
(* a server that refuses, loses answers and goes on working.               *)
(***************************************************************************)
EXTENDS Wiring, FiniteSetTheorems, TLAPS

-----------------------------------------------------------------------------
(* The inductive invariant, by concern. *)

\* Whoever waits for a components update has an attempt left.
Budget ==
    /\ \A v \in Via : pc[v] = "update" => round[v] < MaxComponentAttempts
    /\ phase = "update" => round[0] < MaxComponentAttempts

\* Only a hardened repository is looked up for its id.
Resolving == \A v \in Via : pc[v] = "resolve" => v \in HRs

\* A host is there, or somebody is adding it, or neither, but never two of these.
HostOnce(v) ==
    /\ hosts[v] <= 1
    /\ pc[v] = "hostwait" /\ sess[v] = "running" => hosts[v] = 0 /\ <<v, "host">> \notin left
    /\ <<v, "host">> \in left => hosts[v] = 0

\* The same of its repository or proxy, from the lookup that has missed it.
PartOnce(v) ==
    /\ parts[v] <= 1
    /\ pc[v] \in {"create", "update"} \/ (pc[v] = "partwait" /\ sess[v] = "running")
         => parts[v] = 0 /\ <<v, "part">> \notin left
    /\ <<v, "part">> \in left => parts[v] = 0

Once == \A v \in Via \ raced : HostOnce(v) /\ PartOnce(v)

\* What is known of node v at each place of its goroutine; a goroutine that is done
\* without an error, in a fan-out that was not stopped, has done everything.
Achieved(v) ==
    /\ pc[v] \in {"part", "create", "update", "partwait", "resolve"} => hosts[v] > 0
    /\ pc[v] = "resolve" \/ (pc[v] = "partwait" /\ sess[v] = "ok") => parts[v] > 0 \/ v \in stopped
    /\ phase = "fan" /\ pc[v] = "done" /\ FanLive => Settled(v) /\ (v \in HRs => v \in hrResults)
    /\ v \in blank => v \in stopped
    /\ phase # "fan" => pc[v] = "done"

AllSettled == \A v \in Via : Settled(v)
OnHardened == FirstHardened => backupTo # 0 /\ ~defaultRepo

\* What is known at each phase that follows the fan-out.
Prepared ==
    /\ phase \notin {"idle", "ready", "mount", "fan"} /\ Live => AllSettled
    /\ phase = "create" => AllSettled /\ OnHardened
    /\ result = "ok" /\ Live => AllSettled
    /\ phase = "redirect" /\ Live => hrResults = HRs /\ HardenedRepo # 0
    /\ phase \in {"purge", "delete"} => backupTo # 0
    /\ phase = "pair" /\ Live => OnHardened

WiringInv ==
    /\ TypeOK /\ Budget /\ Resolving /\ Once
    /\ \A v \in Via : Achieved(v)
    /\ Prepared /\ ConfigBackupHasRepo
-----------------------------------------------------------------------------
(* The repository with the lowest index. *)

\* A finite set of natural numbers that is not empty has a least element.
LEMMA LeastElement ==
    ASSUME NEW S, S \subseteq Nat, S # {}, IsFiniteSet(S)
    PROVE  \E v \in S : \A u \in S : v <= u
<1> DEFINE Below(v) == {w \in S : w <= v}
           T == {Below(v) : v \in S}
<1>1. T \subseteq FiniteSubsetsOf(S) /\ T # {}
  <2>1. \A v \in S : Below(v) \in FiniteSubsetsOf(S)
    BY FS_Subset DEF FiniteSubsetsOf
  <2>2. QED
    BY <2>1
<1>2. PICK D \in T : \A C \in T : ~(<<C, D>> \in StrictSubsetOrdering(S))
  <2> HIDE DEF T
  <2> QED
    BY <1>1, FS_StrictSubsetOrderingWellFounded, WFMin
<1>3. PICK v \in S : D = Below(v)
  OBVIOUS
<1>4. ASSUME NEW u \in S, u < v PROVE FALSE
  <2>1. u \in Nat /\ v \in Nat /\ \A w \in S : w \in Nat
    OBVIOUS
  <2>2. Below(u) \subseteq Below(v)
    <3> SUFFICES ASSUME NEW w \in S, w <= u PROVE w <= v
      OBVIOUS
    <3>1. w \in Nat
      BY <2>1
    <3> QED
      BY <1>4, <2>1, <3>1
  <2>3. v \in Below(v) /\ v \notin Below(u)
    BY <1>4, <2>1
  <2>4. <<Below(u), Below(v)>> \in StrictSubsetOrdering(S)
    BY <2>2, <2>3 DEF StrictSubsetOrdering
  <2>5. QED
    BY <1>2, <1>3, <2>4
<1>5. QED
  BY <1>4

\* hardenedRepoID: the first of the recorded repositories, unless its id is empty.
LEMMA FirstRecorded ==
    ASSUME hrResults \subseteq HRs
    PROVE  /\ HardenedRepo \in {0} \cup HRs
           /\ HardenedRepo # 0 => HardenedRepo \in hrResults /\ \A u \in hrResults : HardenedRepo <= u
           /\ \A v \in hrResults \ blank : (\A u \in hrResults : v <= u) => HardenedRepo # 0
<1> DEFINE first == CHOOSE v \in hrResults : \A u \in hrResults : v <= u
<1>1. CASE hrResults = {}
  BY <1>1 DEF HardenedRepo
<1>2. CASE hrResults # {}
  <2>1. hrResults \subseteq Nat /\ 0 \notin hrResults
    BY WiringAssumption DEF Via
  <2>2. IsFiniteSet(1 .. N) /\ hrResults \in SUBSET (1 .. N)
    BY FS_Interval, WiringAssumption DEF Via
  <2>3. IsFiniteSet(hrResults)
    BY <2>2, FS_Subset
  <2>4. \E v \in hrResults : \A u \in hrResults : v <= u
    BY <1>2, <2>1, <2>3, LeastElement
  <2>5. first \in hrResults /\ \A u \in hrResults : first <= u
    BY <2>4
  <2>6. HardenedRepo = IF first \in blank THEN 0 ELSE first
    BY <1>2 DEF HardenedRepo
  <2> HIDE DEF first
  <2>7. ASSUME NEW v \in hrResults \ blank, \A u \in hrResults : v <= u PROVE HardenedRepo # 0
    <3>1. v <= first /\ first <= v /\ v \in Nat /\ first \in Nat
      BY <2>1, <2>5, <2>7
    <3>2. v = first
      BY <3>1
    <3>3. QED
      BY <2>1, <2>6, <3>2
  <2>8. QED
    BY <2>1, <2>5, <2>6, <2>7
<1>3. QED
  BY <1>1, <1>2

-----------------------------------------------------------------------------
(* Types. *)

Typed == TypeOK /\ Budget /\ Resolving

\* The processes: the main goroutine is none of the nodes'.
LEMMA Processes == Proc = Via \cup {0} /\ 0 \notin Via
BY WiringAssumption DEF Via, Proc

\* The types hold before the first wiring.
LEMMA TypedInit == Init => Typed
<1> SUFFICES ASSUME Init PROVE Typed
  OBVIOUS
<1>1. 1 \in 1 .. MaxComponentAttempts /\ 1 \in 1 .. MaxS3Attempts /\ 0 \in 0 .. MaxRuns
  BY WiringAssumption
<1>2. TypeOK
  BY <1>1 DEF Init, TypeOK, Phases, WorkerPcs
<1>3. Budget /\ Resolving
  BY DEF Init, Budget, Resolving
<1>4. QED
  BY <1>2, <1>3 DEF Typed

\* A session that is given up is one of node p, or of the main goroutine.
LEMMA AbandonedTyped ==
    ASSUME Typed, NEW p \in Proc
    PROVE  Abandoned(p) \subseteq (Via \X {"host", "part"}) \cup ({0} \X {"cluster", "s3"})
BY Processes DEF Abandoned, Kind, Waiting

\* Every step of the main goroutine keeps the types and the attempts.
LEMMA TypedMain == Typed /\ Main => Typed'
<1> SUFFICES ASSUME Typed, Main PROVE Typed'
  OBVIOUS
<1> USE WiringAssumption, Processes DEF Typed, TypeOK, Budget, Resolving, Phases, WorkerPcs, retry, repos, added, found, notMain
<1>1. CASE Ready
  BY <1>1 DEF Ready, Proceed
<1>2. CASE ResolveMount
  BY <1>2 DEF ResolveMount
<1>3. CASE Join
  BY <1>3 DEF Join, Return
<1>4. CASE RedirectConfigBackup
  BY <1>4, FirstRecorded DEF RedirectConfigBackup, Call, Return
<1>5. CASE DefaultAbsent
  BY <1>5 DEF DefaultAbsent, Proceed
<1>6. CASE ListBackups
  BY <1>6 DEF ListBackups
<1>7. ASSUME NEW b \in Backups, DeleteBackup(b) PROVE Typed'
  BY <1>7 DEF DeleteBackup, Call, Return
<1>8. CASE DeleteRepository
  BY <1>8 DEF DeleteRepository, Call, Return
<1>9. CASE PairSecondary
  BY <1>9 DEF PairSecondary, Proceed
<1>10. CASE CreateHACluster
  BY <1>10 DEF CreateHACluster, Create, Return
<1>11. CASE ClusterCreated
  BY <1>11 DEF ClusterCreated, Proceed
<1>12. CASE ApplySettings
  BY <1>12 DEF ApplySettings, Proceed
<1>13. CASE Done
  BY <1>13 DEF Done, Return
<1>14. CASE CreateFolder
  BY <1>14 DEF CreateFolder, Proceed
<1>15. CASE AddS3Repository
  BY <1>15 DEF AddS3Repository, Create, Return
<1>16. CASE RetryS3
  BY <1>16 DEF RetryS3
<1>17. CASE S3Pending
  BY <1>17 DEF S3Pending, Proceed
<1>18. CASE S3Update
  BY <1>18 DEF S3Update
<1>19. CASE S3Created
  BY <1>19 DEF S3Created, Return
<1>20. CASE Abort
  BY <1>20 DEF Abort, Return, Abandoned, Waiting, Kind
<1>21. QED
  BY <1>1, <1>2, <1>3, <1>4, <1>5, <1>6, <1>7, <1>8, <1>9, <1>10, <1>11, <1>12, <1>13, <1>14, <1>15, <1>16, <1>17, <1>18, <1>19, <1>20 DEF Main

\* And so does every step of a node's goroutine.
LEMMA TypedWorker == ASSUME Typed, NEW v \in Via, Worker(v) PROVE Typed'
<1> USE WiringAssumption, Processes DEF Typed, TypeOK, Budget, Resolving, Phases, WorkerPcs, repos, added, found, notWorkers, Goto, Move, Racing, Fail, Abandoned, Waiting, Kind
<1>1. CASE AcquireSlot(v)
  BY <1>1 DEF AcquireSlot
<1>2. CASE SkipNode(v)
  BY <1>2 DEF SkipNode
<1>3. CASE CheckAddress(v)
  BY <1>3 DEF CheckAddress
<1>4. CASE NodeUp(v)
  BY <1>4 DEF NodeUp
<1>5. CASE AddHost(v)
  BY <1>5 DEF AddHost
<1>6. CASE SkipHost(v)
  BY <1>6 DEF SkipHost
<1>7. CASE HostAdded(v)
  BY <1>7 DEF HostAdded
<1>8. CASE ResolveHost(v)
  BY <1>8 DEF ResolveHost
<1>9. CASE PartMissing(v)
  BY <1>9 DEF PartMissing
<1>10. CASE SkipPart(v)
  BY <1>10 DEF SkipPart
<1>11. CASE CreatePart(v)
  BY <1>11 DEF CreatePart
<1>12. CASE PartPending(v)
  BY <1>12 DEF PartPending
<1>13. CASE UpdateComponents(v)
  BY <1>13 DEF UpdateComponents
<1>14. CASE PartCreated(v)
  BY <1>14 DEF PartCreated
<1>15. CASE ResolveRepo(v)
  BY <1>15 DEF ResolveRepo
<1>16. CASE FailNode(v)
  <2>1. left' \subseteq (Via \X {"host", "part"}) \cup ({0} \X {"cluster", "s3"})
    <3> HIDE DEF Abandoned
    <3> QED
      BY <1>16, AbandonedTyped DEF FailNode
  <2>2. QED
    BY <1>16, <2>1 DEF FailNode
<1>17. CASE FailUnanswered(v)
  BY <1>17 DEF FailUnanswered
<1>18. QED
  BY <1>1, <1>2, <1>3, <1>4, <1>5, <1>6, <1>7, <1>8, <1>9, <1>10, <1>11, <1>12, <1>13, <1>14, <1>15, <1>16, <1>17 DEF Worker

\* A session that ends well creates one thing.
LEMMA SessionTyped ==
    ASSUME Typed, NEW p \in Proc, NEW kind, kind \in {"host", "part"} => p \in Via,
           Created(p, kind), UNCHANGED notSessions,
           sess' \in [Proc -> {"none", "running", "ok", "failed"}], stopped' \subseteq Via,
           left' \subseteq (Via \X {"host", "part"}) \cup ({0} \X {"cluster", "s3"})
    PROVE  Typed'
<1>1. /\ hosts' \in [Via -> Nat] /\ parts' \in [Via -> Nat] /\ s3repos' \in Nat
      /\ cluster' \in BOOLEAN
  BY DEF Created, Typed, TypeOK
<1>2. QED
  BY <1>1 DEF notSessions, retry, repos, found, Typed, TypeOK, Budget, Resolving

\* And every step of the system: calls of Wire, contexts and VBR's sessions as well.
LEMMA TypedStep == Typed /\ [Next]_vars => Typed'
<1> SUFFICES ASSUME Typed, [Next]_vars PROVE Typed'
  OBVIOUS
<1> USE WiringAssumption, Processes DEF Typed, TypeOK, Budget, Resolving, Phases, WorkerPcs, retry, repos, added, found
<1>1. CASE Wire
  <2>1. round' \in [Proc -> 1 .. MaxComponentAttempts] /\ tries' \in 1 .. MaxS3Attempts
    BY <1>1 DEF Wire
  <2>2. runs' \in 0 .. MaxRuns /\ phase' = "ready" /\ \A v \in Via : pc'[v] = pc[v]
    BY <1>1 DEF Wire
  <2>3. TypeOK'
    BY <1>1, <2>1, <2>2 DEF Wire
  <2>4. Budget' /\ Resolving'
    BY <1>1 DEF Wire
  <2>5. QED
    BY <2>3, <2>4
<1>2. CASE CtxDone
  BY <1>2 DEF CtxDone
<1>3. CASE Main
  BY <1>3, TypedMain
<1>4. ASSUME NEW v \in Via, Worker(v) PROVE Typed'
  BY <1>4, TypedWorker
<1>5. ASSUME NEW p \in Proc, SessionEnds(p) PROVE Typed'
  <2>1. CASE Created(p, Kind(p)) /\ sess' = [sess EXCEPT ![p] = "ok"] /\ UNCHANGED stopped
    BY <1>5, <2>1, SessionTyped DEF SessionEnds, Kind
  <2>2. CASE UNCHANGED <<added, stopped>> /\ sess' = [sess EXCEPT ![p] = "failed"]
    BY <1>5, <2>2 DEF SessionEnds, notSessions
  <2>3. CASE /\ UNCHANGED added /\ sess' = [sess EXCEPT ![p] = "ok"]
             /\ stopped' = IF Kind(p) = "part" THEN stopped \cup {p} ELSE stopped
    <3>1. Kind(p) = "part" => p \in Via
      BY DEF Kind
    <3>2. stopped' \subseteq Via
      BY <2>3, <3>1
    <3>3. QED
      BY <1>5, <2>3, <3>2 DEF SessionEnds, notSessions
  <2>4. QED
    BY <1>5, <2>1, <2>2, <2>3 DEF SessionEnds
<1>6. CASE LeftSessionEnds
  <2> SUFFICES ASSUME NEW s \in left, left' = left \ {s}, UNCHANGED <<sess, stopped>>, UNCHANGED notSessions,
                      Created(s[1], s[2]) \/ UNCHANGED added
               PROVE  Typed'
    BY <1>6 DEF LeftSessionEnds
  <2>1. s \in (Via \X {"host", "part"}) \cup ({0} \X {"cluster", "s3"})
    OBVIOUS
  <2>2. left' \subseteq (Via \X {"host", "part"}) \cup ({0} \X {"cluster", "s3"})
    OBVIOUS
  <2>3. CASE Created(s[1], s[2])
    <3>1. s[1] \in Proc /\ (s[2] \in {"host", "part"} => s[1] \in Via)
      BY <2>1
    <3>2. QED
      BY <2>2, <2>3, <3>1, SessionTyped
  <2>4. CASE UNCHANGED added
    BY <2>2, <2>4 DEF notSessions
  <2>5. QED
    BY <2>3, <2>4
<1>7. CASE UNCHANGED vars
  BY <1>7 DEF vars
<1>8. QED
  BY <1>1, <1>2, <1>3, <1>4, <1>5, <1>6, <1>7 DEF Next

-----------------------------------------------------------------------------
(* What each part of the system leaves alone. *)

\* The main goroutine touches none of the nodes' sessions, hosts and parts.
LEMMA MainFrame ==
    ASSUME Typed, Main
    PROVE  /\ UNCHANGED <<hosts, parts, raced, hrResults, blank, stopped, err, ctx>>
           /\ \A v \in Via : /\ sess'[v] = sess[v]
                             /\ \A kind \in {"host", "part"} : <<v, kind>> \in left' <=> <<v, kind>> \in left
           /\ phase # "mount" => pc' = pc
           /\ phase = "mount" => pc' = [v \in Via |-> "spawned"] /\ phase' = "fan"
<1> USE Processes DEF added, repos, retry, found, notMain
<1>1. CASE ResolveMount
  BY <1>1 DEF ResolveMount
<1>2. ASSUME NEW to, Create(phase, to, "cluster") \/ Create(phase, to, "s3")
      PROVE  /\ UNCHANGED <<hosts, parts, raced, hrResults, blank, stopped, err, ctx, pc>>
             /\ \A v \in Via : /\ sess'[v] = sess[v]
                             /\ \A kind \in {"host", "part"} : <<v, kind>> \in left' <=> <<v, kind>> \in left
  BY <1>2 DEF Create, Typed, TypeOK
<1>3. CASE Abort
  BY <1>3 DEF Abort, Abandoned, Kind
<1>4. CASE CreateHACluster \/ AddS3Repository
  BY <1>2, <1>4 DEF CreateHACluster, AddS3Repository, Create
<1>5. CASE Ready \/ DefaultAbsent \/ PairSecondary \/ ClusterCreated \/ ApplySettings \/ CreateFolder \/ S3Pending
  BY <1>5 DEF Ready, DefaultAbsent, PairSecondary, ClusterCreated, ApplySettings, CreateFolder, S3Pending, Proceed
<1>6. CASE Join \/ ListBackups \/ Done \/ RetryS3 \/ S3Update \/ S3Created
  BY <1>6 DEF Join, ListBackups, Done, RetryS3, S3Update, S3Created
<1>7. ASSUME RedirectConfigBackup \/ DeleteRepository \/ \E b \in Backups : DeleteBackup(b)
      PROVE  /\ UNCHANGED <<hosts, parts, raced, hrResults, blank, stopped, err, ctx, sess, left, pc>>
             /\ phase # "mount"
  BY <1>7 DEF RedirectConfigBackup, DeleteBackup, DeleteRepository, Call
<1>8. QED
  BY <1>1, <1>3, <1>4, <1>5, <1>6, <1>7 DEF Main

\* The main goroutine enters and leaves the fan-out in two places only.
LEMMA MainPhases ==
    ASSUME Main
    PROVE  /\ phase' = "fan" => phase \in {"mount", "fan"}
           /\ phase = "fan" => phase' # "fan" /\ \A v \in Via : pc[v] = "done"
BY DEF Main, Ready, ResolveMount, Join, RedirectConfigBackup, DefaultAbsent, ListBackups,
       DeleteBackup, DeleteRepository, PairSecondary, CreateHACluster, ClusterCreated,
       ApplySettings, Done, CreateFolder, AddS3Repository, RetryS3, S3Pending, S3Update,
       S3Created, Abort, Proceed, Return, Call, Create

-----------------------------------------------------------------------------
(* Nothing is registered twice. *)

\* Every step of a goroutine keeps the books of every node that was not raced.
LEMMA OnceWorker ==
    ASSUME Typed, Once, NEW u \in Via, Worker(u), NEW v \in Via \ raced'
    PROVE  HostOnce(v)' /\ PartOnce(v)'
<1>0. v \in Via /\ v \notin raced => HostOnce(v) /\ PartOnce(v)
  BY DEF Once
<1> USE <1>0, Processes DEF Typed, TypeOK, HostOnce, PartOnce, added, notWorkers, Goto, Move, Racing, Fail
<1>1. CASE AcquireSlot(u)
  BY <1>1 DEF AcquireSlot
<1>2. CASE SkipNode(u)
  BY <1>2 DEF SkipNode
<1>3. CASE CheckAddress(u)
  BY <1>3 DEF CheckAddress
<1>4. CASE NodeUp(u)
  BY <1>4 DEF NodeUp
<1>5. CASE AddHost(u)
  BY <1>5 DEF AddHost
<1>6. CASE SkipHost(u)
  BY <1>6 DEF SkipHost
<1>7. CASE HostAdded(u)
  BY <1>7 DEF HostAdded
<1>8. CASE ResolveHost(u)
  BY <1>8 DEF ResolveHost
<1>9. CASE PartMissing(u)
  BY <1>9 DEF PartMissing
<1>10. CASE SkipPart(u)
  BY <1>10 DEF SkipPart
<1>11. CASE CreatePart(u)
  BY <1>11 DEF CreatePart
<1>12. CASE PartPending(u)
  BY <1>12 DEF PartPending
<1>13. CASE UpdateComponents(u)
  BY <1>13 DEF UpdateComponents
<1>14. CASE PartCreated(u)
  BY <1>14 DEF PartCreated
<1>15. CASE ResolveRepo(u)
  BY <1>15 DEF ResolveRepo
<1>16. CASE FailNode(u)
  BY <1>16 DEF FailNode, Abandoned, Waiting, Kind
<1>17. CASE FailUnanswered(u)
  BY <1>17 DEF FailUnanswered
<1>18. QED
  BY <1>1, <1>2, <1>3, <1>4, <1>5, <1>6, <1>7, <1>8, <1>9, <1>10, <1>11, <1>12, <1>13, <1>14, <1>15, <1>16, <1>17 DEF Worker

\* Every step of the system keeps the books.
LEMMA OnceStep == Typed /\ Once /\ [Next]_vars => Once'
<1> SUFFICES ASSUME Typed, Once, [Next]_vars, NEW v \in Via \ raced'
             PROVE  HostOnce(v)' /\ PartOnce(v)'
  BY DEF Once
<1>0. v \in Via /\ v \notin raced => HostOnce(v) /\ PartOnce(v)
  BY DEF Once
<1>1. CASE Wire
  BY <1>0, <1>1, Processes DEF Wire, HostOnce, PartOnce, added
<1>2. CASE CtxDone
  BY <1>0, <1>2 DEF CtxDone, HostOnce, PartOnce, added
<1>3. CASE Main
  <2>1. UNCHANGED <<hosts, parts, raced>> /\ sess'[v] = sess[v]
    BY <1>3, MainFrame
  <2>2. \A kind \in {"host", "part"} : <<v, kind>> \in left' <=> <<v, kind>> \in left
    BY <1>3, MainFrame
  <2>3. pc'[v] \in {pc[v], "spawned"}
    BY <1>3, MainFrame
  <2>4. QED
    BY <1>0, <2>1, <2>2, <2>3 DEF HostOnce, PartOnce
<1>4. ASSUME NEW u \in Via, Worker(u) PROVE HostOnce(v)' /\ PartOnce(v)'
  BY <1>4, OnceWorker
<1>5. ASSUME NEW p \in Proc, SessionEnds(p) PROVE HostOnce(v)' /\ PartOnce(v)'
  BY <1>0, <1>5, Processes
     DEF SessionEnds, Created, Kind, Waiting, notSessions, added, HostOnce, PartOnce, Typed, TypeOK
<1>6. CASE LeftSessionEnds
  <2> SUFFICES ASSUME NEW s \in left, left' = left \ {s}, UNCHANGED <<sess, stopped>>, UNCHANGED notSessions,
                      Created(s[1], s[2]) \/ UNCHANGED added
               PROVE  HostOnce(v)' /\ PartOnce(v)'
    BY <1>6 DEF LeftSessionEnds
  <2>1. s = <<s[1], s[2]>>
    BY DEF Typed, TypeOK
  <2>2. QED
    BY <1>0, <2>1 DEF Created, notSessions, added, HostOnce, PartOnce, Typed, TypeOK
<1>7. CASE UNCHANGED vars
  BY <1>0, <1>7 DEF vars, HostOnce, PartOnce, added
<1>8. QED
  BY <1>1, <1>2, <1>3, <1>4, <1>5, <1>6, <1>7 DEF Next

-----------------------------------------------------------------------------
(* What the goroutines have achieved. *)

\* A step of any goroutine keeps what is known of node v.
LEMMA AchievedWorker ==
    ASSUME Typed, NEW u \in Via, Worker(u), NEW v \in Via, Achieved(v)
    PROVE  Achieved(v)'
<1> USE Processes DEF Typed, TypeOK, Resolving, Achieved, Settled, FanLive, Live, added, found, notWorkers, Goto, Move, Fail
<1>1. CASE AcquireSlot(u)
  BY <1>1 DEF AcquireSlot
<1>2. CASE SkipNode(u)
  BY <1>2 DEF SkipNode
<1>3. CASE CheckAddress(u)
  BY <1>3 DEF CheckAddress
<1>4. CASE NodeUp(u)
  BY <1>4 DEF NodeUp
<1>5. CASE AddHost(u)
  BY <1>5 DEF AddHost
<1>6. CASE SkipHost(u)
  BY <1>6 DEF SkipHost
<1>7. CASE HostAdded(u)
  BY <1>7 DEF HostAdded
<1>8. CASE ResolveHost(u)
  BY <1>8 DEF ResolveHost
<1>9. CASE PartMissing(u)
  BY <1>9 DEF PartMissing
<1>10. CASE SkipPart(u)
  BY <1>10 DEF SkipPart
<1>11. CASE CreatePart(u)
  BY <1>11 DEF CreatePart
<1>12. CASE PartPending(u)
  BY <1>12 DEF PartPending
<1>13. CASE UpdateComponents(u)
  BY <1>13 DEF UpdateComponents
<1>14. CASE PartCreated(u)
  BY <1>14 DEF PartCreated
<1>15. CASE ResolveRepo(u)
  BY <1>15 DEF ResolveRepo
<1>16. CASE FailNode(u)
  BY <1>16 DEF FailNode
<1>17. CASE FailUnanswered(u)
  BY <1>17 DEF FailUnanswered
<1>18. QED
  BY <1>1, <1>2, <1>3, <1>4, <1>5, <1>6, <1>7, <1>8, <1>9, <1>10, <1>11, <1>12, <1>13, <1>14, <1>15, <1>16, <1>17 DEF Worker

\* And so does every step of the system.
LEMMA AchievedStep ==
    ASSUME Typed, [Next]_vars, NEW v \in Via, Achieved(v)
    PROVE  Achieved(v)'
<1> USE DEF Achieved, Settled, FanLive, Live, added, found
<1>1. CASE Wire
  BY <1>1 DEF Wire
<1>2. CASE CtxDone
  BY <1>2 DEF CtxDone
<1>3. CASE Main
  <2>1. UNCHANGED <<hosts, parts, err, ctx, hrResults, blank, stopped>> /\ sess'[v] = sess[v]
    BY <1>3, MainFrame
  <2>2. phase' # "fan" \/ phase = "fan" \/ pc'[v] = "spawned"
    BY <1>3, MainFrame, MainPhases
  <2>3. phase = "fan" /\ phase' # "fan" => pc'[v] = "done"
    BY <1>3, MainFrame, MainPhases
  <2>4. phase = "mount" => pc'[v] = "spawned" /\ phase' = "fan"
    BY <1>3, MainFrame
  <2>5. phase # "mount" => pc' = pc
    BY <1>3, MainFrame
  <2>6. QED
    BY <2>1, <2>2, <2>3, <2>4, <2>5
<1>4. ASSUME NEW u \in Via, Worker(u) PROVE Achieved(v)'
  BY <1>4, AchievedWorker
<1>5. ASSUME NEW p \in Proc, SessionEnds(p) PROVE Achieved(v)'
  BY <1>5, Processes DEF SessionEnds, Created, Kind, Waiting, notSessions, Typed, TypeOK
<1>6. CASE LeftSessionEnds
  <2> SUFFICES ASSUME NEW s \in left, UNCHANGED <<sess, stopped>>, UNCHANGED notSessions,
                      Created(s[1], s[2]) \/ UNCHANGED added
               PROVE  Achieved(v)'
    BY <1>6 DEF LeftSessionEnds
  <2>1. QED
    BY DEF Created, notSessions, Typed, TypeOK
<1>7. CASE UNCHANGED vars
  BY <1>7 DEF vars
<1>8. QED
  BY <1>1, <1>2, <1>3, <1>4, <1>5, <1>6, <1>7 DEF Next

-----------------------------------------------------------------------------
(* What the main goroutine has prepared. *)

\* All that a step of the main goroutine may rely on.
Informed == Typed /\ (\A v \in Via : Achieved(v)) /\ Prepared /\ ConfigBackupHasRepo

\* Hosts and parts are never removed, and a stopped session is forgotten by the next wiring only.
LEMMA SettledForGood ==
    ASSUME Typed, [Next]_vars, AllSettled
    PROVE  AllSettled' \/ Wire
<1> SUFFICES ASSUME NEW v \in Via, Settled(v), ~Wire PROVE Settled(v)'
  BY DEF AllSettled
<1> USE DEF Settled, added
<1>1. CASE CtxDone \/ UNCHANGED vars
  BY <1>1 DEF CtxDone, vars
<1>2. CASE Main
  BY <1>2, MainFrame
<1>3. ASSUME NEW u \in Via, Worker(u) PROVE UNCHANGED <<added, stopped>>
  BY <1>3 DEF Worker, notWorkers, Goto, Move, AcquireSlot, SkipNode, CheckAddress, NodeUp, AddHost,
       SkipHost, HostAdded, ResolveHost, PartMissing, SkipPart, CreatePart, PartPending,
       UpdateComponents, PartCreated, ResolveRepo, FailNode, FailUnanswered
<1>4. ASSUME NEW p, NEW kind, Created(p, kind), stopped \subseteq stopped' PROVE Settled(v)'
  BY <1>4 DEF Created, Typed, TypeOK
<1>5. ASSUME NEW p \in Proc, SessionEnds(p) PROVE Settled(v)'
  <2>1. stopped \subseteq stopped' /\ (UNCHANGED added \/ Created(p, Kind(p)))
    BY <1>5 DEF SessionEnds
  <2>2. QED
    BY <1>4, <2>1
<1>6. CASE LeftSessionEnds
  BY <1>4, <1>6 DEF LeftSessionEnds
<1>7. QED
  BY <1>1, <1>2, <1>3, <1>5, <1>6 DEF Next

\* A fan-out without an error that was not stopped has registered and recorded every node.
LEMMA Joined ==
    ASSUME Typed, \A v \in Via : Achieved(v), phase = "fan", \A v \in Via : pc[v] = "done", FanLive
    PROVE  AllSettled /\ hrResults = HRs
BY WiringAssumption DEF Achieved, AllSettled, Typed, TypeOK

\* The steps of the main goroutine, one by one.
LEMMA PreparedMain ==
    ASSUME Informed, Main, AllSettled => AllSettled'
    PROVE  Prepared' /\ ConfigBackupHasRepo'
<1>0. UNCHANGED <<hrResults, blank, stopped, err, ctx>>
  BY MainFrame DEF Informed
<1> USE <1>0, WiringAssumption DEF Informed, Typed, TypeOK, Prepared, OnHardened, FirstHardened, ConfigBackupHasRepo, Live, repos, found, notMain
<1>1. CASE Ready
  BY <1>1 DEF Ready, Proceed
<1>2. CASE ResolveMount
  BY <1>2 DEF ResolveMount
<1>3. CASE Join
  <2>1. FanLive => AllSettled /\ hrResults = HRs
    BY <1>3, Joined DEF Join
  <2>2. hrResults = HRs /\ FirstHardened => HardenedRepo # 0
    BY FirstRecorded DEF Achieved
  <2>3. CASE err
    BY <1>3, <2>3 DEF Join, Return
  <2>4. CASE ~err /\ Live
    <3>1. AllSettled /\ hrResults = HRs
      BY <2>1, <2>4 DEF FanLive
    <3>2. result' = result /\ phase' = IF ~HA THEN "advanced" ELSE IF HardenedRepo = 0 THEN "pair" ELSE "redirect"
      BY <1>3, <2>4 DEF Join
    <3>3. HardenedRepo' = HardenedRepo
      BY DEF HardenedRepo
    <3> HIDE DEF FirstHardened
    <3>4. FirstHardened' = FirstHardened /\ UNCHANGED repos
      BY <1>3 DEF Join, FirstHardened
    <3>5. QED
      BY <1>3, <2>2, <2>4, <3>1, <3>2, <3>3, <3>4 DEF Join
  <2>5. CASE ~err /\ ~Live
    BY <1>3, <2>5 DEF Join
  <2>6. QED
    BY <2>3, <2>4, <2>5
<1>4. CASE RedirectConfigBackup
  <2>1. Live /\ phase = "redirect" /\ hrResults = HRs /\ HardenedRepo # 0 /\ AllSettled
    BY <1>4 DEF RedirectConfigBackup, Call
  <2>2. HardenedRepo # 0 /\ \A u \in HRs : HardenedRepo <= u
    BY <2>1, FirstRecorded
  <2>3. QED
    BY <1>4, <2>1, <2>2 DEF RedirectConfigBackup, Call, Return
<1>5. CASE DefaultAbsent
  BY <1>5 DEF DefaultAbsent, Proceed
<1>6. CASE ListBackups
  BY <1>6 DEF ListBackups
<1>7. ASSUME NEW b \in Backups, DeleteBackup(b) PROVE Prepared' /\ ConfigBackupHasRepo'
  BY <1>7 DEF DeleteBackup, Call, Return
<1>8. CASE DeleteRepository
  BY <1>8 DEF DeleteRepository, Call, Return
<1>9. CASE PairSecondary
  BY <1>9 DEF PairSecondary, Proceed
<1>10. CASE CreateHACluster
  BY <1>10 DEF CreateHACluster, Create, Return
<1>11. CASE ClusterCreated
  BY <1>11 DEF ClusterCreated, Proceed
<1>12. CASE ApplySettings
  BY <1>12 DEF ApplySettings, Proceed
<1>13. CASE Done
  BY <1>13 DEF Done, Return
<1>14. CASE CreateFolder
  BY <1>14 DEF CreateFolder, Proceed
<1>15. CASE AddS3Repository
  BY <1>15 DEF AddS3Repository, Create, Return
<1>16. CASE RetryS3
  BY <1>16 DEF RetryS3
<1>17. CASE S3Pending
  BY <1>17 DEF S3Pending, Proceed
<1>18. CASE S3Update
  BY <1>18 DEF S3Update
<1>19. CASE S3Created
  BY <1>19 DEF S3Created, Return
<1>20. CASE Abort
  BY <1>20 DEF Abort, Return, Phases
<1>21. QED
  BY <1>1, <1>2, <1>3, <1>4, <1>5, <1>6, <1>7, <1>8, <1>9, <1>10, <1>11, <1>12, <1>13, <1>14, <1>15, <1>16, <1>17, <1>18, <1>19, <1>20 DEF Main

\* A goroutine records repositories during the fan-out only.
LEMMA WorkerFrame ==
    ASSUME NEW v \in Via, Worker(v)
    PROVE  /\ UNCHANGED <<phase, ctx, result, runs, added, repos>>
           /\ pc[v] # "done"
BY DEF Worker, notWorkers, Goto, Move, AcquireSlot, SkipNode, CheckAddress, NodeUp, AddHost,
       SkipHost, HostAdded, ResolveHost, PartMissing, SkipPart, CreatePart, PartPending,
       UpdateComponents, PartCreated, ResolveRepo, FailNode, FailUnanswered

\* Every step keeps what the main goroutine has prepared, and the config backup's repository.
LEMMA PreparedStep == Informed /\ [Next]_vars => Prepared' /\ ConfigBackupHasRepo'
<1> SUFFICES ASSUME Informed, [Next]_vars PROVE Prepared' /\ ConfigBackupHasRepo'
  OBVIOUS
<1> USE DEF Informed, Prepared, ConfigBackupHasRepo, OnHardened, FirstHardened, Live, repos, found
<1>1. CASE Wire
  BY <1>1 DEF Wire
<1>2. CASE ~Wire
  <2>0. AllSettled => AllSettled'
    BY <1>2, SettledForGood
  <2>1. CASE CtxDone
    BY <2>0, <2>1 DEF CtxDone, HardenedRepo
  <2>2. CASE Main
    BY <2>0, <2>2, PreparedMain
  <2>3. ASSUME NEW v \in Via, Worker(v) PROVE Prepared' /\ ConfigBackupHasRepo'
    <3>1. phase = "fan"
      BY <2>3, WorkerFrame DEF Achieved
    <3>2. QED
      BY <2>0, <2>3, <3>1, WorkerFrame
  <2>4. ASSUME NEW p \in Proc, SessionEnds(p) PROVE Prepared' /\ ConfigBackupHasRepo'
    <3>1. stopped \subseteq stopped' /\ UNCHANGED <<found, phase, result, ctx, repos>>
      BY <2>4 DEF SessionEnds, notSessions
    <3>2. FirstHardened' => FirstHardened
      BY <3>1
    <3>3. HardenedRepo' = HardenedRepo
      BY <3>1 DEF HardenedRepo
    <3> HIDE DEF FirstHardened
    <3>4. QED
      BY <2>0, <3>1, <3>2, <3>3
  <2>5. CASE LeftSessionEnds
    BY <2>0, <2>5 DEF LeftSessionEnds, notSessions, HardenedRepo
  <2>6. CASE UNCHANGED vars
    BY <2>0, <2>6 DEF vars, HardenedRepo
  <2>7. QED
    BY <1>2, <2>1, <2>2, <2>3, <2>4, <2>5, <2>6 DEF Next
<1>3. QED
  BY <1>1, <1>2

-----------------------------------------------------------------------------
(* The theorems. *)

\* The invariant holds before the first wiring ...
LEMMA WiringInvInit == Init => WiringInv
<1> SUFFICES ASSUME Init PROVE WiringInv
  OBVIOUS
<1>1. Typed
  BY TypedInit
<1>2. Once
  BY Processes DEF Init, Once, HostOnce, PartOnce
<1>3. \A v \in Via : Achieved(v)
  BY DEF Init, Achieved
<1>4. Prepared /\ ConfigBackupHasRepo
  BY DEF Init, Prepared, ConfigBackupHasRepo
<1>5. QED
  BY <1>1, <1>2, <1>3, <1>4 DEF WiringInv, Typed

\* ... and every step keeps it.
LEMMA WiringInvStep == WiringInv /\ [Next]_vars => WiringInv'
<1> SUFFICES ASSUME WiringInv, [Next]_vars PROVE WiringInv'
  OBVIOUS
<1>1. Typed
  BY DEF WiringInv, Typed
<1>2. Typed'
  BY <1>1, TypedStep
<1>3. Once'
  BY <1>1, OnceStep DEF WiringInv
<1>4. \A v \in Via : Achieved(v)'
  BY <1>1, AchievedStep DEF WiringInv
<1>5. Prepared' /\ ConfigBackupHasRepo'
  BY <1>1, PreparedStep DEF WiringInv, Informed
<1>6. QED
  BY <1>2, <1>3, <1>4, <1>5 DEF WiringInv, Typed

\* So it holds for ever.
LEMMA WiringInvAlways == Spec => []WiringInv
<1>1. QED
  BY WiringInvInit, WiringInvStep, PTL DEF Spec

\* The variables keep their types, and the bounds of the two retry loops, in every state.
THEOREM TypeCorrect == Spec => []TypeOK
<1>1. WiringInv => TypeOK
  BY DEF WiringInv
<1>2. QED
  BY <1>1, WiringInvAlways, PTL

\* No host, repository or proxy is registered twice, for any number of nodes, re-wires, errors
\* and lost answers, save for nodes looked up while a former session was adding them (wireVIANodes).
THEOREM NothingRegisteredTwice == Spec => []NoDuplicates
<1>1. WiringInv => NoDuplicates
  BY DEF WiringInv, Once, HostOnce, PartOnce, NoDuplicates
<1>2. QED
  BY <1>1, WiringInvAlways, PTL

\* A Wire that returns nil with a live context has registered every node, save for the parts
\* whose session was stopped (wireVIANodes, WaitSession).
THEOREM NilMeansWired == Spec => []WiredUnlessStopped
<1>1. WiringInv => WiredUnlessStopped
  BY DEF WiringInv, Prepared, AllSettled, WiredUnlessStopped
<1>2. QED
  BY <1>1, WiringInvAlways, PTL

\* createHA asks for a cluster of registered nodes, after the repositories are moved, stopped
\* sessions excepted (createHA).
THEOREM ClusterIsPrepared == Spec => []ClusterPrerequisites
<1>1. WiringInv => ClusterPrerequisites
  BY DEF WiringInv, Prepared, AllSettled, OnHardened, ClusterPrerequisites
<1>2. QED
  BY <1>1, WiringInvAlways, PTL

\* VBR's config backup has a repository in every state, whatever fails in between (Wire).
THEOREM ConfigBackupIsKept == Spec => []ConfigBackupHasRepo
<1>1. WiringInv => ConfigBackupHasRepo
  BY DEF WiringInv
<1>2. QED
  BY <1>1, WiringInvAlways, PTL
=============================================================================
