------------------------- MODULE DeployManager_proofs -------------------------
(***************************************************************************)
(* Proofs about the deployment manager, for any number of deployments,     *)
(* nodes, restarts and faults, and whatever the plans and the cap are.     *)
(***************************************************************************)
EXTENDS DeployManager, FiniteSetTheorems, WellFoundedInduction, TLAPS

-----------------------------------------------------------------------------
(* The inductive invariant, by concern, for each deployment d. *)

Specs == [kind : {"none", "full", "wire"}, plan : PlanSet, array : Dep \cup {0}, hv : BOOLEAN]
Place == [ref : Refs, ip : IPs]

\* The types, without the intervals.
Types ==
    /\ last \in Nat /\ last <= MaxDeploy
    /\ pc \in [Dep -> Live \cup Over \cup {"unused"}]
    /\ at \in [Dep -> Nat \ {0}] /\ \A d \in Dep : at[d] <= Cardinality(Nodes) + 1
    /\ registry \subseteq Dep /\ \A d \in registry : d <= last
    /\ state \in [Dep -> Active \cup Final \cup {"none"}]
    /\ vmid \in [Dep -> [Nodes -> Refs]]
    /\ canceled \in [Dep -> BOOLEAN] /\ ctx \in [Dep -> {"none", "live", "done"}]
    /\ spec \in [Dep -> Specs] /\ cells \in [Dep -> [Nodes -> Place]]
    /\ pending \in [Dep -> SUBSET (Nodes \X VM)]
    /\ snap \in [Dep -> Rows] /\ row \in [Dep -> Rows]
    /\ remover \in [Dep -> {"none", "waiting", "destroying", "marked"}]
    /\ todo \in [Dep -> SUBSET VM]
    /\ vms \in [VM -> {"absent", "building", "made", "orphan"}]
    /\ stopping \in BOOLEAN /\ keep \in KeepChoices /\ restarts \in Nat /\ faulted \in BOOLEAN
    /\ gaveUp \in [Dep -> BOOLEAN] /\ leftover \in [Dep -> BOOLEAN]

\* Where the run is, and what it works on.
Placed(d) ==
    /\ pc[d] = "unused" <=> d > last
    /\ pc[d] \in Calls => at[d] \in Nodes
    /\ pc[d] \in {"unused", "registered", "spawned"} => at[d] = 1
    /\ pc[d] \in Calls \cup {"loop"} => spec[d].kind = "full"
    /\ spec[d].array <= last
    /\ spec[d].array = 0 => spec[d] = NoSpec
    /\ row[d] # NoRow \/ remover[d] # "none" => d <= last
    /\ pc[d] \notin {"unused", "gone"} => spec[d].array # 0

Typed == Types /\ \A d \in Dep : Placed(d)

\* The state and the place of the run agree, unless a Remove that has given up on the run has
\* marked it.
Agreed(d) ==
    /\ pc[d] \in {"registered", "spawned"} => state[d] = "pending" \/ (gaveUp[d] /\ state[d] = "removed")
    /\ pc[d] \in Started => state[d] = "running" \/ (gaveUp[d] /\ state[d] = "removed")
    /\ pc[d] \in Ending \cup {"finished"} => state[d] \in Final
    /\ pc[d] = "gone" => state[d] \in Final \cup {"none"}
    /\ d \in registry \/ remover[d] # "none" => state[d] # "none"

\* Beyond its wait, a Remove that has not given up has the record to itself.
RemoverAlone(d) == remover[d] \in {"destroying", "marked"} /\ ~gaveUp[d] => pc[d] \in Over

\* The row is never ahead of the record, and is the record once both are at rest.
RowBehind(d) ==
    /\ row[d].state = "none" => row[d] = NoRow
    /\ pc[d] = "saving" => snap[d].state \in Final /\ (~gaveUp[d] => snap[d] = View(d))
    /\ ~gaveUp[d] /\ state[d] \in Active => row[d].state \in Active \cup {"none"}
    /\ ~gaveUp[d] /\ state[d] \in Final \ {"removed"} => row[d].state \in Active \cup {"none", state[d]}

RowSaved(d) ==
    d \in registry /\ pc[d] \in Over \cup {"saved", "pruned"} /\ remover[d] # "marked"
        /\ ~faulted /\ ~gaveUp[d] => row[d] = View(d)

\* VM n of d is in the record for as long as it exists, and a Remove is about to destroy it.
Accounted(d, n) ==
    /\ d > last => vms[<<d, n>>] = "absent"
    /\ vms[<<d, n>>] = "made" /\ spec[d].hv /\ ~gaveUp[d] /\ ~leftover[d] =>
          vmid[d][n] = <<d, n>> /\ (remover[d] = "destroying" => <<d, n>> \in todo[d])

\* A full run has a VM for every node it has passed, and an address or a poll for each node.
Deployed(d) ==
    pc[d] # "gone" /\ spec[d].kind = "full" =>
        /\ \A n \in Nodes : n < at[d] => Cell(d)[n].ref # NoVM
        /\ pc[d] \in {"resolve", "wire"} => at[d] \notin Nodes
        /\ pc[d] = "resolve" => \A n \in Nodes : Cell(d)[n].ip = NoIP => \E v \in VM : <<n, v>> \in pending[d]
        /\ pc[d] = "wire" => \A n \in Nodes : Cell(d)[n].ip # NoIP

ManagerInv ==
    /\ Typed
    /\ \A d \in Dep : /\ Agreed(d) /\ RemoverAlone(d) /\ RowBehind(d) /\ RowSaved(d) /\ Deployed(d)
                      /\ \A n \in Nodes : Accounted(d, n)
    /\ FinishedBounded

-----------------------------------------------------------------------------
(* The constants. *)

\* Deployments and nodes are numbered from one; a VM belongs to one node of one deployment,
\* and is neither "no VM" nor "no address".
LEMMA Numbers ==
    /\ MaxDeploy \in Nat /\ Cardinality(Nodes) \in Nat /\ Cardinality(Nodes) > 0
    /\ \A d : d \in Dep <=> d \in Nat /\ d # 0 /\ d <= MaxDeploy
    /\ \A n : n \in Nodes <=> n \in Nat /\ n # 0 /\ n <= Cardinality(Nodes)
    /\ \A d, n : <<d, n>> \in VM <=> d \in Dep /\ n \in Nodes
    /\ NoVM \notin VM /\ NoIP \notin VM /\ Refs = VM \cup {NoVM}
    /\ VM \subseteq IPs /\ NoIP \in IPs /\ \A n \in Nodes : Static(n) \in IPs
    /\ KeepChoices \subseteq Nat \ {0} /\ Plans \subseteq PlanSet
<1>1. Cardinality(Nodes) \in Nat /\ Cardinality(Nodes) # 0
  BY DeployManagerAssumption, FS_CardinalityType, FS_EmptySet
<1>2. MaxDeploy \in Nat /\ KeepChoices \subseteq Nat \ {0} /\ Plans \subseteq PlanSet
  BY DeployManagerAssumption
<1>3. \A d : d \in Dep <=> d \in Nat /\ d # 0 /\ d <= MaxDeploy
  BY <1>2 DEF Dep
<1>4. \A n : n \in Nodes <=> n \in Nat /\ n # 0 /\ n <= Cardinality(Nodes)
  <2>1. Nodes = 1 .. Cardinality(Nodes)
    BY DeployManagerAssumption
  <2> DEFINE N == Cardinality(Nodes)
  <2>2. \A n : n \in 1 .. N <=> n \in Nat /\ n # 0 /\ n <= N
    <3>1. N \in Nat
      BY <1>1
    <3> HIDE DEF N
    <3>2. QED
      BY <3>1
  <2>3. QED
    BY <2>1, <2>2
<1>5. QED
  BY <1>1, <1>2, <1>3, <1>4 DEF VM, NoVM, NoIP, Refs, IPs, Static

\* The interval-free types say the same.
LEMMA TypesSame == Types <=> TypeOK
<1>1. Specs = [kind : {"none", "full", "wire"}, plan : PlanSet, array : 0 .. MaxDeploy, hv : BOOLEAN]
  <2>1. Dep \cup {0} = 0 .. MaxDeploy
    BY Numbers
  <2>2. QED
    BY <2>1 DEF Specs
<1>2. at \in [Dep -> 1 .. Cardinality(Nodes) + 1] <=>
        at \in [Dep -> Nat \ {0}] /\ \A d \in Dep : at[d] <= Cardinality(Nodes) + 1
  BY Numbers
<1>3. last \in 0 .. MaxDeploy <=> last \in Nat /\ last <= MaxDeploy
  BY Numbers
<1>4. ASSUME last \in Nat, last <= MaxDeploy
      PROVE  registry \subseteq 1 .. last <=> registry \subseteq Dep /\ \A d \in registry : d <= last
  BY <1>4, Numbers
<1>5. QED
  BY <1>1, <1>2, <1>3, <1>4 DEF Types, TypeOK, Place


-----------------------------------------------------------------------------
(* What the helpers do, in these terms. *)

\* The record of d is a row, and so is an empty one.
LEMMA RowTyped ==
    ASSUME Types
    PROVE  /\ NoRow \in Rows /\ NoRow.state = "none" /\ NoVMs \in [Nodes -> Refs]
           /\ \A d \in Dep : View(d) \in Rows /\ View(d).state = state[d] /\ View(d).vmid = vmid[d]
BY Numbers DEF Types, NoRow, NoVMs, Rows, View

\* A deployment other than the next one is known or not, before and after the next one is.
LEMMA Beyond == \A d, l \in Nat : d # l + 1 => (d > l + 1 <=> d > l) /\ (d <= l => d <= l + 1)
OBVIOUS

\* Numbers are ordered.
LEMMA Comparable ==
    \A d, l \in Nat : /\ d > l \/ d <= l
                      /\ d < l + 1 => d < l \/ d = l
OBVIOUS

\* Save writes the row of d or reports a fault, and touches no other row.
LEMMA SaveShape ==
    ASSUME Types, NEW d \in Dep, NEW rec \in Rows, Save(d, rec)
    PROVE  /\ row' \in [Dep -> Rows] /\ faulted' \in BOOLEAN
           /\ (row'[d] = rec /\ faulted' = faulted) \/ (row'[d] = row[d] /\ faulted')
           /\ \A e \in Dep : e # d => row'[e] = row[e]
<1>1. row \in [Dep -> Rows] /\ faulted \in BOOLEAN
  BY DEF Types
<1>2. CASE row' = [row EXCEPT ![d] = rec] /\ UNCHANGED faulted
  BY <1>1, <1>2
<1>3. CASE faulted' = TRUE /\ UNCHANGED row
  BY <1>1, <1>3
<1>4. QED
  BY <1>2, <1>3 DEF Save

\* Drop takes the deployments of D out of reg, and empties their rows as far as it can.
LEMMA DropShape ==
    ASSUME Types, NEW D, NEW reg, Drop(D, reg)
    PROVE  /\ registry' = reg \ D /\ row' \in [Dep -> Rows] /\ faulted' \in BOOLEAN
           /\ faulted => faulted'
           /\ \A e \in Dep : row'[e] = row[e] \/ (e \in D /\ row'[e] = NoRow)
<1>1. PICK kept \in SUBSET D :
        /\ row' = [d \in Dep |-> IF d \in D \ kept THEN NoRow ELSE row[d]]
        /\ faulted' = (faulted \/ kept # {})
  BY DEF Drop
<1>2. registry' = reg \ D
  BY DEF Drop
<1>3. faulted' \in BOOLEAN /\ (faulted => faulted')
  BY <1>1 DEF Types
<1>4. \A e \in Dep : row'[e] \in Rows /\ (row'[e] = row[e] \/ (e \in D /\ row'[e] = NoRow))
  <2> SUFFICES ASSUME NEW e \in Dep
               PROVE  row'[e] \in Rows /\ (row'[e] = row[e] \/ (e \in D /\ row'[e] = NoRow))
    OBVIOUS
  <2>1. row'[e] = IF e \in D \ kept THEN NoRow ELSE row[e]
    BY <1>1
  <2>2. row[e] \in Rows /\ NoRow \in Rows
    BY RowTyped DEF Types
  <2>3. QED
    BY <2>1, <2>2
<1>5. row' \in [Dep -> Rows]
  BY <1>1, <1>4
<1>6. QED
  BY <1>2, <1>3, <1>4, <1>5

\* What retention drops are finished deployments.
LEMMA OldestFinished ==
    ASSUME NEW reg, NEW st, NEW n
    PROVE  Oldest(reg, st, n) \subseteq {d \in reg : st[d] \in Final}
BY DEF Oldest, Finished

\* deployNode has returned: the cell of its node refers to the VM.
LEMMA NodeEndShape ==
    ASSUME Typed, NEW d \in Dep, pc[d] \in Calls, NodeEnd(d)
    PROVE  /\ cells' \in [Dep -> [Nodes -> Place]]
           /\ \A a \in Dep, n \in Nodes :
                 /\ cells'[a][n].ip = cells[a][n].ip
                 /\ cells'[a][n].ref =
                       IF a = spec[d].array /\ n = at[d] THEN <<d, at[d]>> ELSE cells[a][n].ref
           /\ at[d] \in Nodes /\ at' = [at EXCEPT ![d] = at[d] + 1]
           /\ at' \in [Dep -> Nat \ {0}] /\ \A e \in Dep : at'[e] <= Cardinality(Nodes) + 1
           /\ pc' = [pc EXCEPT ![d] = "loop"]
           /\ UNCHANGED <<ctx, pending, snap, registry, state, vmid, canceled, last, spec, row,
                          faulted, rm, vms, env>>
<1>1. at[d] \in Nodes /\ spec[d].array \in Dep
  BY DEF Typed, Types, Placed, Specs, Calls
<1>2. <<d, at[d]>> \in Refs
  BY <1>1, Numbers
<1> DEFINE a0 == spec[d].array
           P  == [cells[a0][at[d]] EXCEPT !.ref = <<d, at[d]>>]
           Q  == [cells[a0] EXCEPT ![at[d]] = P]
<1>3. cells' = [cells EXCEPT ![a0] = Q]
  BY DEF NodeEnd
<1>4. cells \in [Dep -> [Nodes -> Place]] /\ cells[a0] \in [Nodes -> Place] /\ cells[a0][at[d]] \in Place
  BY <1>1 DEF Typed, Types
<1>5. P \in Place /\ P.ref = <<d, at[d]>> /\ P.ip = cells[a0][at[d]].ip
  <2> SUFFICES ASSUME NEW R \in Place, NEW r \in Refs
               PROVE  /\ [R EXCEPT !.ref = r] \in Place /\ [R EXCEPT !.ref = r].ref = r
                      /\ [R EXCEPT !.ref = r].ip = R.ip
    BY <1>2, <1>4
  <2> QED
    BY DEF Place
<1> HIDE DEF P
<1>10. Q \in [Nodes -> Place] /\ Q[at[d]] = P /\ \A n \in Nodes : n # at[d] => Q[n] = cells[a0][n]
  BY <1>1, <1>4, <1>5
<1> HIDE DEF Q
<1>6. cells' \in [Dep -> [Nodes -> Place]]
  BY <1>1, <1>3, <1>4, <1>10
<1>7. \A a \in Dep, n \in Nodes : cells'[a][n] = IF a = a0 /\ n = at[d] THEN P ELSE cells[a][n]
  BY <1>1, <1>3, <1>4, <1>10
<1>8. \A a \in Dep, n \in Nodes :
                 /\ cells'[a][n].ip = cells[a][n].ip
                 /\ cells'[a][n].ref =
                       IF a = spec[d].array /\ n = at[d] THEN <<d, at[d]>> ELSE cells[a][n].ref
  BY <1>5, <1>7
<1>9. /\ at' = [at EXCEPT ![d] = at[d] + 1] /\ pc' = [pc EXCEPT ![d] = "loop"]
      /\ at' \in [Dep -> Nat \ {0}] /\ \A e \in Dep : at'[e] <= Cardinality(Nodes) + 1
      /\ UNCHANGED <<ctx, pending, snap, registry, state, vmid, canceled, last, spec, row,
                     faulted, rm, vms, env>>
  BY <1>1, Numbers DEF NodeEnd, Typed, Types
<1>11. QED
  BY <1>1, <1>6, <1>8, <1>9

\* A poll asks for the address of a node, at the VM that its cell refers to.
LEMMA PollsTyped ==
    ASSUME Typed, NEW d \in Dep, pc[d] \notin {"unused", "gone"}
    PROVE  Polls(d) \subseteq Nodes \X VM
<1>1. spec[d].array \in Dep
  BY DEF Typed, Types, Placed, Specs
<1>2. \A n \in Nodes : Cell(d)[n].ref \in VM \cup {NoVM}
  BY <1>1, Numbers DEF Cell, Typed, Types, Place
<1>3. QED
  BY <1>2 DEF Polls


\* An address becomes known, in terms of its node and of the VM asked.
Resolves(d, n, v) ==
    /\ <<n, v>> \in pending[d] /\ pc[d] = "resolve"
    /\ cells' \in [Dep -> [Nodes -> Place]]
    /\ \A a \in Dep, m \in Nodes :
          /\ cells'[a][m].ref = cells[a][m].ref
          /\ cells'[a][m].ip = IF a = spec[d].array /\ m = n THEN v ELSE cells[a][m].ip
    /\ pending' = [pending EXCEPT ![d] = pending[d] \ {<<n, v>>}]
    /\ UNCHANGED <<pc, at, ctx, snap, record, last, spec, row, faulted, rm, vms, env>>

\* An address of a node is known: only its cell changes, and nothing but the address.
LEMMA ResolveShape ==
    ASSUME Typed, NEW d \in Dep, NEW n \in Nodes, ResolveIP(d, n)
    PROVE  \E v \in VM : Resolves(d, n, v)
<1> DEFINE a0 == spec[d].array
<1>1. pc[d] = "resolve" /\ a0 \in Dep
  BY DEF ResolveIP, Typed, Types, Placed, Specs
<1>2. PICK p \in pending[d] : /\ p[1] = n
                              /\ cells' = [cells EXCEPT ![a0][n].ip = p[2]]
                              /\ pending' = [pending EXCEPT ![d] = pending[d] \ {p}]
  BY DEF ResolveIP
<1>3. p[2] \in VM /\ p = <<n, p[2]>>
  BY <1>2 DEF Typed, Types
<1>4. p[2] \in IPs
  BY <1>3, Numbers
<1> DEFINE P == [cells[a0][n] EXCEPT !.ip = p[2]]
           Q == [cells[a0] EXCEPT ![n] = P]
<1>5. cells' = [cells EXCEPT ![a0] = Q]
  BY <1>2
<1>6. cells \in [Dep -> [Nodes -> Place]] /\ cells[a0] \in [Nodes -> Place] /\ cells[a0][n] \in Place
  BY <1>1 DEF Typed, Types
<1>7. P \in Place /\ P.ip = p[2] /\ P.ref = cells[a0][n].ref
  <2> SUFFICES ASSUME NEW R \in Place, NEW i \in IPs
               PROVE  /\ [R EXCEPT !.ip = i] \in Place /\ [R EXCEPT !.ip = i].ip = i
                      /\ [R EXCEPT !.ip = i].ref = R.ref
    BY <1>4, <1>6
  <2> QED
    BY DEF Place
<1> HIDE DEF P
<1>8. Q \in [Nodes -> Place] /\ Q[n] = P /\ \A m \in Nodes : m # n => Q[m] = cells[a0][m]
  BY <1>6, <1>7
<1> HIDE DEF Q
<1>9. cells' \in [Dep -> [Nodes -> Place]]
  BY <1>1, <1>5, <1>6, <1>8
<1>10. \A a \in Dep, m \in Nodes : cells'[a][m] = IF a = a0 /\ m = n THEN P ELSE cells[a][m]
  BY <1>1, <1>5, <1>6, <1>8
<1>11. \A a \in Dep, m \in Nodes :
          /\ cells'[a][m].ref = cells[a][m].ref
          /\ cells'[a][m].ip = IF a = a0 /\ m = n THEN p[2] ELSE cells[a][m].ip
  BY <1>7, <1>10
<1>12. UNCHANGED <<pc, at, ctx, snap, record, last, spec, row, faulted, rm, vms, env>>
  BY DEF ResolveIP
<1>13. <<n, p[2]>> \in pending[d] /\ pending' = [pending EXCEPT ![d] = pending[d] \ {<<n, p[2]>>}]
  BY <1>2, <1>3
<1>14. QED
  BY <1>1, <1>3, <1>9, <1>11, <1>12, <1>13 DEF Resolves

\* A deployment enters the registry with its specification and the ids of its VMs.
LEMMA RegisterShape ==
    ASSUME Types, NEW d, NEW s \in Specs, NEW ids \in [Nodes -> Refs], Register(d, s, ids)
    PROVE  /\ d \in Dep /\ d = last + 1 /\ last' = d
           /\ pc' = [pc EXCEPT ![d] = "registered"] /\ state' = [state EXCEPT ![d] = "pending"]
           /\ registry' = registry \cup {d}
           /\ spec' \in [Dep -> Specs] /\ spec' = [spec EXCEPT ![d] = s]
           /\ vmid' \in [Dep -> [Nodes -> Refs]] /\ vmid' = [vmid EXCEPT ![d] = ids]
           /\ UNCHANGED <<at, ctx, pending, snap, canceled, row, faulted, rm, vms, env>>
BY DEF Register, Types

\* Start: with an array of its own.
LEMMA StartShape ==
    ASSUME Types, NEW plan \in Plans, Start(plan)
    PROVE  \E s \in Specs :
              /\ Register(last + 1, s, NoVMs)
              /\ s.kind = "full" /\ s.array = last + 1 /\ s.hv
              /\ cells' \in [Dep -> [Nodes -> Place]]
              /\ \A a \in Dep : a # last + 1 => cells'[a] = cells[a]
<1> DEFINE d == last + 1
           s == [kind |-> "full", plan |-> plan, array |-> d, hv |-> TRUE]
           c == [n \in Nodes |-> [ref |-> NoVM, ip |-> IF n \in plan.dhcp THEN NoIP ELSE Static(n)]]
<1>1. Register(d, s, NoVMs) /\ cells' = [cells EXCEPT ![d] = c]
  BY DEF Start
<1>2. d \in Dep
  BY <1>1 DEF Register
<1>3. s \in Specs
  <2> HIDE DEF d
  <2> QED
    BY <1>2, Numbers DEF Specs
<1>4. c \in [Nodes -> Place]
  BY Numbers DEF Place
<1> HIDE DEF c
<1>5. cells' \in [Dep -> [Nodes -> Place]] /\ \A a \in Dep : a # d => cells'[a] = cells[a]
  <2> HIDE DEF d, s
  <2> QED
    BY <1>1, <1>2, <1>4 DEF Types
<1>6. QED
  BY <1>1, <1>3, <1>5

\* Retry and RetryWire: with the array of the deployment they are about.
LEMMA RetryShape ==
    ASSUME Typed, NEW e \in Dep, Retry(e) \/ RetryWire(e)
    PROVE  \E s \in Specs, ids \in [Nodes -> Refs] :
              /\ Register(last + 1, s, ids) /\ UNCHANGED cells
              /\ s.array = spec[e].array /\ s.array # 0
<1>0. spec[e] \in Specs /\ NoVMs \in [Nodes -> Refs]
  BY RowTyped DEF Typed, Types
<1>1. CASE Retry(e)
  <2> DEFINE s == [spec[e] EXCEPT !.kind = "full"]
  <2>1. s \in Specs /\ s.array = spec[e].array /\ s.kind = "full"
    BY <1>0 DEF Specs
  <2>2. spec[e].array # 0
    BY <1>1 DEF Retry, Typed, Placed, NoSpec
  <2>3. Register(last + 1, s, NoVMs) /\ UNCHANGED cells
    BY <1>1 DEF Retry
  <2> HIDE DEF s
  <2>4. QED
    BY <1>0, <2>1, <2>2, <2>3
<1>2. CASE RetryWire(e)
  <2> DEFINE s   == [spec[e] EXCEPT !.kind = "wire"]
             ids == [n \in Nodes |-> Cell(e)[n].ref]
  <2>1. s \in Specs /\ s.array = spec[e].array /\ s.kind = "wire"
    BY <1>0 DEF Specs
  <2>2. spec[e].array # 0
    BY <1>2 DEF RetryWire, Typed, Placed, NoSpec, NoPlan
  <2>3. ids \in [Nodes -> Refs]
    BY <1>0, <2>2 DEF Cell, Typed, Types, Specs, Place
  <2>4. Register(last + 1, s, ids) /\ UNCHANGED cells
    BY <1>2 DEF RetryWire
  <2> HIDE DEF s, ids
  <2>5. QED
    BY <2>1, <2>2, <2>3, <2>4
<1>3. QED
  BY <1>1, <1>2

\* What a restart makes of the rows; old are those that retention drops.
Reloaded(old) ==
    /\ state' = [d \in Dep |-> Loaded(d)] /\ vmid' = [d \in Dep |-> row[d].vmid]
    /\ registry' = {d \in Dep : row[d] # NoRow} \ old
    /\ row' \in [Dep -> Rows] /\ faulted' \in BOOLEAN /\ (faulted => faulted')
    /\ \A d \in Dep : /\ row'[d] \in {NoRow, row[d]} \/ (row[d] # NoRow /\ row'[d] = View(d)')
                      /\ d \in registry' => row'[d] = View(d)' \/ faulted'

\* A restart that cannot read the rows knows nothing, and leaves them alone.
Unreadable ==
    /\ faulted' = TRUE /\ registry' = {} /\ UNCHANGED row
    /\ state' = [d \in Dep |-> "none"] /\ vmid' = [d \in Dep |-> NoVMs]

\* A restart makes a record of every row, or knows none; what is listed has a row, and the
\* row is the record unless it could not be saved.
LEMMA RestartShape ==
    ASSUME Typed, Restart
    PROVE  \/ Unreadable
           \/ Reloaded(Oldest({d \in Dep : row[d] # NoRow}, [d \in Dep |-> Loaded(d)], keep))
<1>0. Types
  BY DEF Typed
<1> USE <1>0
<1> DEFINE old0 == Oldest({d \in Dep : row[d] # NoRow}, [d \in Dep |-> Loaded(d)], keep)
<1>1. \A d \in Dep : row[d] \in Rows /\ row[d].vmid \in [Nodes -> Refs] /\ Loaded(d) \in Final \cup {"none"}
  BY DEF Types, Rows, Loaded, Final, Active
<1>2. ASSUME NEW bad, NEW old, NEW kept, bad \subseteq {d \in Dep : row[d].state \in Active},
             state' = [d \in Dep |-> Loaded(d)], vmid' = [d \in Dep |-> row[d].vmid],
             registry' = {d \in Dep : row[d] # NoRow} \ old,
             faulted' = (faulted \/ bad \cup kept # {}),
             row' = [d \in Dep |-> IF d \in old \ kept THEN NoRow
                                   ELSE IF d \in bad \/ row[d] = NoRow THEN row[d]
                                   ELSE [row[d] EXCEPT !.state = Loaded(d)]]
      PROVE  Reloaded(old)
  <2>1. \A d \in Dep : [row[d] EXCEPT !.state = Loaded(d)] = [state |-> Loaded(d), vmid |-> row[d].vmid]
    BY <1>1 DEF Rows
  <2>2. \A d \in Dep : View(d)' = [state |-> Loaded(d), vmid |-> row[d].vmid]
    BY <1>2 DEF View
  <2>3. \A d \in Dep : row'[d] = IF d \in old \ kept THEN NoRow
                                 ELSE IF d \in bad \/ row[d] = NoRow THEN row[d] ELSE View(d)'
    BY <1>2, <2>1, <2>2
  <2>4. \A d \in Dep : View(d)' \in Rows
    BY <1>1, <2>2 DEF Rows
  <2>5. \A d \in Dep : row'[d] \in Rows
    BY <1>1, <2>3, <2>4, RowTyped
  <2>6. row' \in [Dep -> Rows]
    BY <1>2, <2>5
  <2>7. \A d \in Dep : /\ row'[d] \in {NoRow, row[d]} \/ (row[d] # NoRow /\ row'[d] = View(d)')
                       /\ d \in registry' => row'[d] = View(d)' \/ faulted'
    BY <1>2, <2>3
  <2>8. faulted' \in BOOLEAN /\ (faulted => faulted')
    BY <1>2 DEF Types
  <2>9. QED
    BY <1>2, <2>6, <2>7, <2>8 DEF Reloaded
<1>3. \/ \E bad \in SUBSET {d \in Dep : row[d].state \in Active} :
            LET loaded == [d \in Dep |-> Loaded(d)]
                old    == Oldest({d \in Dep : row[d] # NoRow}, loaded, keep)
            IN  /\ state' = loaded
                /\ vmid' = [d \in Dep |-> row[d].vmid]
                /\ registry' = {d \in Dep : row[d] # NoRow} \ old
                /\ \E kept \in SUBSET old :
                    /\ faulted' = (faulted \/ bad \cup kept # {})
                    /\ row' = [d \in Dep |-> IF d \in old \ kept THEN NoRow
                                             ELSE IF d \in bad \/ row[d] = NoRow THEN row[d]
                                             ELSE [row[d] EXCEPT !.state = loaded[d]]]
      \/ Unreadable
  BY Zenon DEF Restart, Unreadable
<1>4. CASE Unreadable
  BY <1>4
<1>5. ASSUME NEW bad \in SUBSET {d \in Dep : row[d].state \in Active}, NEW kept \in SUBSET old0,
             state' = [d \in Dep |-> Loaded(d)], vmid' = [d \in Dep |-> row[d].vmid],
             registry' = {d \in Dep : row[d] # NoRow} \ old0,
             faulted' = (faulted \/ bad \cup kept # {}),
             row' = [d \in Dep |-> IF d \in old0 \ kept THEN NoRow
                                   ELSE IF d \in bad \/ row[d] = NoRow THEN row[d]
                                   ELSE [row[d] EXCEPT !.state = [x \in Dep |-> Loaded(x)][d]]]
      PROVE  Reloaded(old0)
  <2>1. row' = [d \in Dep |-> IF d \in old0 \ kept THEN NoRow
                              ELSE IF d \in bad \/ row[d] = NoRow THEN row[d]
                              ELSE [row[d] EXCEPT !.state = Loaded(d)]]
    BY <1>5
  <2> HIDE DEF old0
  <2>2. QED
    BY <1>2, <1>5, <2>1, Zenon
<1>6. QED
  BY <1>3, <1>4, <1>5, Zenon

\* A new deployment s of the VMs ids has been registered, one way or the other.
Entered(s, ids) ==
    /\ last + 1 \in Dep /\ last' = last + 1
    /\ pc' = [pc EXCEPT ![last + 1] = "registered"]
    /\ state' = [state EXCEPT ![last + 1] = "pending"]
    /\ registry' = registry \cup {last + 1}
    /\ spec' \in [Dep -> Specs] /\ spec' = [spec EXCEPT ![last + 1] = s]
    /\ s.array # 0 /\ s.array <= last + 1
    /\ vmid' \in [Dep -> [Nodes -> Refs]] /\ vmid' = [vmid EXCEPT ![last + 1] = ids]
    /\ cells' \in [Dep -> [Nodes -> Place]]
    /\ \A a \in Dep : a <= last => cells'[a] = cells[a]
    /\ UNCHANGED <<at, ctx, pending, snap, canceled, row, faulted, rm, vms, env>>

\* That is what Start, Retry and RetryWire do.
LEMMA EnteredShape ==
    ASSUME Typed, (\E plan \in Plans : Start(plan)) \/ (\E e \in Dep : Retry(e) \/ RetryWire(e))
    PROVE  \E s \in Specs, ids \in [Nodes -> Refs] : Entered(s, ids)
<1>0. last \in Nat /\ Types
  BY DEF Typed, Types
<1>1. ASSUME NEW plan \in Plans, Start(plan) PROVE \E s \in Specs, ids \in [Nodes -> Refs] : Entered(s, ids)
  <2>1. PICK s \in Specs : /\ Register(last + 1, s, NoVMs)
                           /\ s.kind = "full" /\ s.array = last + 1 /\ s.hv
                           /\ cells' \in [Dep -> [Nodes -> Place]]
                           /\ \A a \in Dep : a # last + 1 => cells'[a] = cells[a]
    BY <1>0, <1>1, StartShape
  <2>2. NoVMs \in [Nodes -> Refs]
    BY <1>0, RowTyped
  <2>3. \A a \in Dep : a <= last => cells'[a] = cells[a]
    BY <1>0, <2>1, Numbers
  <2>4. Entered(s, NoVMs)
    BY <1>0, <2>1, <2>2, <2>3, RegisterShape DEF Entered
  <2>5. QED
    BY <2>2, <2>4
<1>2. ASSUME NEW e \in Dep, Retry(e) \/ RetryWire(e) PROVE \E s \in Specs, ids \in [Nodes -> Refs] : Entered(s, ids)
  <2>1. PICK s \in Specs, ids \in [Nodes -> Refs] :
              /\ Register(last + 1, s, ids) /\ UNCHANGED cells
              /\ s.array = spec[e].array /\ s.array # 0
    BY <1>2, RetryShape
  <2>2. s.array <= last + 1
    <3>1. spec[e].array <= last /\ spec[e].array \in Nat
      BY Numbers DEF Typed, Types, Placed, Specs
    <3>2. QED
      BY <1>0, <2>1, <3>1
  <2>3. cells \in [Dep -> [Nodes -> Place]]
    BY DEF Typed, Types
  <2>4. Entered(s, ids)
    BY <1>0, <2>1, <2>2, <2>3, RegisterShape DEF Entered
  <2>5. QED
    BY <2>4
<1>3. QED
  BY <1>1, <1>2

\* deployNode goes on to its next call, or returns.
NextCall(d) ==
    /\ pc[d] \in {"attach", "boot"} /\ pc' = [pc EXCEPT ![d] = IF pc[d] = "attach" THEN "boot" ELSE "kick"]
    /\ UNCHANGED <<at, ctx, pending, snap, record, memory, row, faulted, rm, vms, env>>

\* That is all AttachISO, PowerOn and SendKeys come to.
LEMMA NodeSteps ==
    ASSUME NEW d \in Dep, Attach(d) \/ PowerOn(d) \/ SendKeys(d)
    PROVE  NextCall(d) \/ (pc[d] \in {"attach", "boot", "kick"} /\ NodeEnd(d))
BY DEF Attach, PowerOn, SendKeys, NextCall, record, memory

\* A node is deployed: the run looks at the next one.
NodeDone(d) ==
    /\ pc[d] \in {"attach", "boot", "kick"} /\ pc' = [pc EXCEPT ![d] = "loop"]
    /\ at[d] \in Nodes /\ at' = [at EXCEPT ![d] = at[d] + 1]
    /\ at' \in [Dep -> Nat \ {0}] /\ \A e \in Dep : at'[e] <= Cardinality(Nodes) + 1
    /\ cells' \in [Dep -> [Nodes -> Place]]
    /\ \A a \in Dep, n \in Nodes :
          /\ cells'[a][n].ip = cells[a][n].ip
          /\ cells'[a][n].ref = IF a = spec[d].array /\ n = at[d] THEN <<d, at[d]>> ELSE cells[a][n].ref
    /\ UNCHANGED <<ctx, pending, snap, registry, state, vmid, canceled, last, spec, row,
                   faulted, rm, vms, env>>

\* The same with the effect on the shared cells.
LEMMA NodeShape ==
    ASSUME Typed, NEW d \in Dep, Attach(d) \/ PowerOn(d) \/ SendKeys(d)
    PROVE  NextCall(d) \/ NodeDone(d)
<1>1. CASE pc[d] \in {"attach", "boot", "kick"} /\ NodeEnd(d)
  <2>1. pc[d] \in Calls
    BY <1>1 DEF Calls
  <2>2. QED
    BY <1>1, <2>1, NodeEndShape DEF NodeDone
<1>2. QED
  BY <1>1, NodeSteps

\* The last node is deployed: the run is over, or the addresses are looked for.
LoopStops(d) ==
    /\ pc[d] = "loop" /\ at[d] \notin Nodes /\ Stop(d, "done")
    /\ UNCHANGED <<at, pending, snap, registry, vmid, canceled, memory, row, faulted, rm, vms, env>>

LoopResolves(d) ==
    /\ pc[d] = "loop" /\ at[d] \notin Nodes
    /\ pc' = [pc EXCEPT ![d] = "resolve"]
    /\ pending' = [pending EXCEPT ![d] = Polls(d)] /\ Polls(d) \subseteq Nodes \X VM
    /\ UNCHANGED <<at, ctx, snap, record, memory, row, faulted, rm, vms, env>>

\* One or the other.
LEMMA AllDeployedShape ==
    ASSUME Typed, NEW d \in Dep, AllDeployed(d)
    PROVE  LoopStops(d) \/ LoopResolves(d)
<1>1. Polls(d) \subseteq Nodes \X VM
  BY PollsTyped DEF AllDeployed
<1>2. QED
  BY <1>1 DEF AllDeployed, LoopStops, LoopResolves, record, memory

-----------------------------------------------------------------------------
(* Every step keeps the invariant, one lemma per concern and one step per action. *)

\* The types.
LEMMA TypeStep ==
    ASSUME Typed, Types, \A d \in Dep : Placed(d), [Next]_vars
    PROVE  Types'
<1> USE Numbers DEF Types, Placed, Active, Final, Live, Over, Started, Calls, Ending, run,
       record, memory, rm, env
<1>1. ASSUME NEW e \in Dep, PersistPending(e) PROVE Types'
  BY <1>1, SaveShape, RowTyped DEF PersistPending, Goto
<1>2. ASSUME NEW e \in Dep, RunBegin(e) PROVE Types'
  BY <1>2, PollsTyped DEF RunBegin, Goto
<1>3. ASSUME NEW e \in Dep, StopSignal(e) PROVE Types'
  BY <1>3 DEF StopSignal
<1>4. ASSUME NEW e \in Dep, NodeBegin(e) PROVE Types'
  BY <1>4 DEF NodeBegin, Goto
<1>5. ASSUME NEW e \in Dep, UploadISO(e) PROVE Types'
  BY <1>5 DEF UploadISO, Goto
<1>6. ASSUME NEW e \in Dep, CreateVM(e) PROVE Types'
  BY <1>6 DEF CreateVM, Goto
<1>7. ASSUME NEW e \in Dep, Created(e) PROVE Types'
  BY <1>7 DEF Created, Goto
<1>8. ASSUME NEW e \in Dep, NodeFail(e) PROVE Types'
  BY <1>8 DEF NodeFail, Stop
<1>9. ASSUME NEW e \in Dep, WireBegin(e) PROVE Types'
  BY <1>9 DEF WireBegin, Goto
<1>10. ASSUME NEW e \in Dep, WireFail(e) PROVE Types'
  BY <1>10 DEF WireFail, Stop
<1>11. ASSUME NEW e \in Dep, Wired(e) PROVE Types'
  BY <1>11 DEF Wired, Stop
<1>12. ASSUME NEW e \in Dep, TakeView(e) PROVE Types'
  BY <1>12, RowTyped DEF TakeView, Goto
<1>13. ASSUME NEW e \in Dep, SaveFinal(e) PROVE Types'
  <2>1. snap[e] \in Rows /\ NoRow \in Rows
    BY RowTyped
  <2>2. QED
    BY <1>13, <2>1, SaveShape DEF SaveFinal, Goto
<1>14. ASSUME NEW e \in Dep, PruneFinished(e) PROVE Types'
  BY <1>14, DropShape DEF PruneFinished, Goto
<1>15. ASSUME NEW e \in Dep, CloseDone(e) PROVE Types'
  BY <1>15 DEF CloseDone, Goto
<1>16. ASSUME NEW e \in Dep, RemoveView(e) PROVE Types'
  BY <1>16 DEF RemoveView
<1>17. ASSUME NEW e \in Dep, RemoveMark(e) PROVE Types'
  BY <1>17, RowTyped DEF RemoveMark
<1>18. ASSUME NEW e \in Dep, RemovePersist(e) PROVE Types'
  BY <1>18, SaveShape, RowTyped DEF RemovePersist
<1>19. ASSUME NEW e \in Dep, Cancel(e) PROVE Types'
  BY <1>19 DEF Cancel, Canceling
<1>20. ASSUME NEW e \in Dep, RemoveBegin(e) PROVE Types'
  BY <1>20 DEF RemoveBegin, Canceling
<1>21. ASSUME NEW e \in Dep, Delete(e) PROVE Types'
  BY <1>21, DropShape DEF Delete
<1>22. CASE (\E plan \in Plans : Start(plan)) \/ (\E e \in Dep : Retry(e) \/ RetryWire(e))
  <2>1. PICK s \in Specs, ids \in [Nodes -> Refs] : Entered(s, ids)
    BY <1>22, EnteredShape
  <2>2. QED
    BY <2>1 DEF Entered
<1>23. ASSUME NEW e \in Dep, Attach(e) \/ PowerOn(e) \/ SendKeys(e) PROVE Types'
  <2>1. CASE NextCall(e)
    BY <2>1 DEF NextCall
  <2>2. CASE NodeDone(e)
    BY <2>2 DEF NodeDone
  <2>3. QED
    BY <1>23, <2>1, <2>2, NodeShape
<1>24. ASSUME NEW e \in Dep, NEW m \in Nodes, ResolveIP(e, m) PROVE Types'
  <2>1. PICK v \in VM : Resolves(e, m, v)
    BY <1>24, ResolveShape
  <2>2. QED
    BY <2>1 DEF Resolves
<1>25. ASSUME NEW e \in Dep, NEW v \in VM, DestroyVM(e, v) PROVE Types'
  <2>1. todo' \in [Dep -> SUBSET VM]
    BY <1>25 DEF DestroyVM
  <2>2. vms' = vms \/ vms' = [vms EXCEPT ![v] = "absent"]
    BY <1>25 DEF DestroyVM
  <2>3. leftover' = leftover \/ leftover' = [leftover EXCEPT ![e] = TRUE]
    BY <1>25 DEF DestroyVM
  <2>4. UNCHANGED <<run, record, memory, row, faulted, remover, gaveUp, env>>
    BY <1>25 DEF DestroyVM
  <2>5. vms' \in [VM -> {"absent", "building", "made", "orphan"}]
    BY <2>2, Zenon
  <2>6. leftover' \in [Dep -> BOOLEAN]
    BY <2>3
  <2>7. QED
    BY <2>1, <2>4, <2>5, <2>6
<1>26. ASSUME NEW k \in KeepChoices, SetKeepCompleted(k) PROVE Types'
  BY <1>26, DropShape DEF SetKeepCompleted
<1>27. ASSUME NEW e \in Dep, AllDeployed(e) PROVE Types'
  <2>1. CASE LoopStops(e)
    BY <2>1 DEF LoopStops, Stop
  <2>2. CASE LoopResolves(e)
    BY <2>2 DEF LoopResolves
  <2>3. QED
    BY <1>27, <2>1, <2>2, AllDeployedShape
<1>28. CASE Shutdown
  BY <1>28 DEF Shutdown
<1>29. CASE Restart
  <2>1. pc' \in [Dep -> Live \cup Over \cup {"unused"}] /\ last' = last /\ vms' = vms /\ keep' = keep
    BY <1>29 DEF Restart
  <2>2. /\ at' \in [Dep -> Nat \ {0}] /\ \A d \in Dep : at'[d] <= Cardinality(Nodes) + 1
        /\ restarts' \in Nat
    BY <1>29 DEF Restart
  <2>3. /\ ctx' \in [Dep -> {"none", "live", "done"}] /\ canceled' \in [Dep -> BOOLEAN]
        /\ remover' \in [Dep -> {"none", "waiting", "destroying", "marked"}]
        /\ gaveUp' \in [Dep -> BOOLEAN] /\ leftover' \in [Dep -> BOOLEAN] /\ stopping' \in BOOLEAN
    BY <1>29 DEF Restart
  <2>4. /\ pending' \in [Dep -> SUBSET (Nodes \X VM)] /\ todo' \in [Dep -> SUBSET VM]
        /\ snap' \in [Dep -> Rows]
    BY <1>29, RowTyped DEF Restart
  <2>5. spec' \in [Dep -> Specs] /\ cells' \in [Dep -> [Nodes -> Place]]
    BY <1>29, Numbers DEF Restart, NoSpec, NoPlan, PlanSet, Specs, NoCells, Place
  <2>6. /\ registry' \subseteq {d \in Dep : row[d] # NoRow}
        /\ row' \in [Dep -> Rows] /\ faulted' \in BOOLEAN
        /\ state' \in [Dep -> Active \cup Final \cup {"none"}] /\ vmid' \in [Dep -> [Nodes -> Refs]]
    <3>1. CASE Unreadable
      BY <3>1, RowTyped DEF Unreadable
    <3>2. ASSUME NEW old, Reloaded(old)
          PROVE  /\ registry' \subseteq {d \in Dep : row[d] # NoRow}
                 /\ row' \in [Dep -> Rows] /\ faulted' \in BOOLEAN
                 /\ state' \in [Dep -> Active \cup Final \cup {"none"}] /\ vmid' \in [Dep -> [Nodes -> Refs]]
      BY <3>2 DEF Reloaded, Loaded, Rows
    <3>3. QED
      BY <1>29, <3>1, <3>2, RestartShape
  <2>7. \A d \in registry' : d <= last
    BY <2>6, <2>1
  <2>8. QED
    BY <2>1, <2>2, <2>3, <2>4, <2>5, <2>6, <2>7
<1>30. CASE UNCHANGED vars
  BY <1>30 DEF vars
<1>31. QED
  BY <1>1, <1>2, <1>3, <1>4, <1>5, <1>6, <1>7, <1>8, <1>9, <1>10, <1>11, <1>12, <1>13, <1>14,
     <1>15, <1>16, <1>17, <1>18, <1>19, <1>20, <1>21, <1>22, <1>23, <1>24, <1>25, <1>26, <1>27,
     <1>28, <1>29, <1>30, Zenon
     DEF Next, Request, Run, Remove

\* The place of the run of d.
LEMMA PlacedStep ==
    ASSUME Typed, Types, \A x \in Dep : Placed(x), NEW d \in Dep, [Next]_vars
    PROVE  Placed(d)'
<1> USE Numbers DEF Types, Placed, Live, Over, Started, Calls, Ending, run, record, memory, rm, env
<1>1. ASSUME NEW e \in Dep, PersistPending(e) PROVE Placed(d)'
  BY <1>1, SaveShape, RowTyped DEF PersistPending, Goto
<1>2. ASSUME NEW e \in Dep, RunBegin(e) PROVE Placed(d)'
  BY <1>2, PollsTyped DEF RunBegin, Goto
<1>3. ASSUME NEW e \in Dep, StopSignal(e) PROVE Placed(d)'
  BY <1>3 DEF StopSignal
<1>4. ASSUME NEW e \in Dep, NodeBegin(e) PROVE Placed(d)'
  BY <1>4 DEF NodeBegin, Goto
<1>5. ASSUME NEW e \in Dep, UploadISO(e) PROVE Placed(d)'
  BY <1>5 DEF UploadISO, Goto
<1>6. ASSUME NEW e \in Dep, CreateVM(e) PROVE Placed(d)'
  BY <1>6 DEF CreateVM, Goto
<1>7. ASSUME NEW e \in Dep, Created(e) PROVE Placed(d)'
  BY <1>7 DEF Created, Goto
<1>8. ASSUME NEW e \in Dep, NodeFail(e) PROVE Placed(d)'
  BY <1>8 DEF NodeFail, Stop
<1>9. ASSUME NEW e \in Dep, WireBegin(e) PROVE Placed(d)'
  BY <1>9 DEF WireBegin, Goto
<1>10. ASSUME NEW e \in Dep, WireFail(e) PROVE Placed(d)'
  BY <1>10 DEF WireFail, Stop
<1>11. ASSUME NEW e \in Dep, Wired(e) PROVE Placed(d)'
  BY <1>11 DEF Wired, Stop
<1>12. ASSUME NEW e \in Dep, TakeView(e) PROVE Placed(d)'
  BY <1>12, RowTyped DEF TakeView, Goto
<1>13. ASSUME NEW e \in Dep, SaveFinal(e) PROVE Placed(d)'
  BY <1>13, SaveShape DEF SaveFinal, Goto
<1>14. ASSUME NEW e \in Dep, PruneFinished(e) PROVE Placed(d)'
  BY <1>14, DropShape DEF PruneFinished, Goto
<1>15. ASSUME NEW e \in Dep, CloseDone(e) PROVE Placed(d)'
  BY <1>15 DEF CloseDone, Goto
<1>16. ASSUME NEW e \in Dep, RemoveView(e) PROVE Placed(d)'
  BY <1>16 DEF RemoveView
<1>17. ASSUME NEW e \in Dep, RemoveMark(e) PROVE Placed(d)'
  BY <1>17, RowTyped DEF RemoveMark
<1>18. ASSUME NEW e \in Dep, RemovePersist(e) PROVE Placed(d)'
  BY <1>18, SaveShape, RowTyped DEF RemovePersist
<1>19. ASSUME NEW e \in Dep, Cancel(e) PROVE Placed(d)'
  BY <1>19 DEF Cancel, Canceling
<1>20. ASSUME NEW e \in Dep, RemoveBegin(e) PROVE Placed(d)'
  BY <1>20 DEF RemoveBegin, Canceling
<1>21. ASSUME NEW e \in Dep, Delete(e) PROVE Placed(d)'
  BY <1>21, DropShape DEF Delete
<1>22. CASE (\E plan \in Plans : Start(plan)) \/ (\E e \in Dep : Retry(e) \/ RetryWire(e))
  <2>1. PICK s \in Specs, ids \in [Nodes -> Refs] : Entered(s, ids)
    BY <1>22, EnteredShape
  <2>2. last \in Nat /\ d \in Nat /\ at[last + 1] = 1 /\ last + 1 \in Nat
    BY <2>1 DEF Entered
  <2>3. CASE d = last + 1
    BY <2>1, <2>2, <2>3 DEF Entered
  <2>4. CASE d # last + 1
    <3>1. (d > last' <=> d > last) /\ (d <= last => d <= last') /\ spec[d].array <= last'
      <4>1. last' = last + 1
        BY <2>1 DEF Entered
      <4>2. spec[d].array \in Nat /\ spec[d].array <= last
        BY DEF Specs
      <4>3. QED
        BY <2>2, <2>4, <4>1, <4>2, Beyond
    <3>2. /\ pc'[d] = pc[d] /\ spec'[d] = spec[d] /\ at'[d] = at[d] /\ row'[d] = row[d]
          /\ remover'[d] = remover[d]
      BY <2>1, <2>4 DEF Entered
    <3>3. QED
      BY <3>1, <3>2
  <2>5. QED
    BY <2>3, <2>4
<1>23. ASSUME NEW e \in Dep, Attach(e) \/ PowerOn(e) \/ SendKeys(e) PROVE Placed(d)'
  <2>1. CASE NextCall(e)
    BY <2>1 DEF NextCall
  <2>2. CASE NodeDone(e)
    BY <2>2 DEF NodeDone
  <2>3. QED
    BY <1>23, <2>1, <2>2, NodeShape
<1>24. ASSUME NEW e \in Dep, NEW m \in Nodes, ResolveIP(e, m) PROVE Placed(d)'
  <2>1. PICK v \in VM : Resolves(e, m, v)
    BY <1>24, ResolveShape
  <2>2. QED
    BY <2>1 DEF Resolves
<1>25. ASSUME NEW e \in Dep, NEW v \in VM, DestroyVM(e, v) PROVE Placed(d)'
  BY <1>25 DEF DestroyVM
<1>26. ASSUME NEW k \in KeepChoices, SetKeepCompleted(k) PROVE Placed(d)'
  BY <1>26, DropShape DEF SetKeepCompleted
<1>27. ASSUME NEW e \in Dep, AllDeployed(e) PROVE Placed(d)'
  <2>1. CASE LoopStops(e)
    BY <2>1 DEF LoopStops, Stop
  <2>2. CASE LoopResolves(e)
    BY <2>2 DEF LoopResolves
  <2>3. QED
    BY <1>27, <2>1, <2>2, AllDeployedShape
<1>28. CASE Shutdown
  BY <1>28 DEF Shutdown
<1>29. CASE Restart
  <2>1. /\ pc' = [x \in Dep |-> IF x <= last THEN "gone" ELSE "unused"] /\ at' = [x \in Dep |-> 1]
        /\ last' = last /\ spec' = [x \in Dep |-> NoSpec] /\ remover' = [x \in Dep |-> "none"]
    BY <1>29 DEF Restart
  <2>2. row'[d] # NoRow => row[d] # NoRow
    <3>1. CASE Unreadable
      BY <3>1 DEF Unreadable
    <3>2. ASSUME NEW old, Reloaded(old) PROVE row'[d] # NoRow => row[d] # NoRow
      BY <3>2 DEF Reloaded
    <3>3. QED
      BY <1>29, <3>1, <3>2, RestartShape
  <2>3. NoSpec.array = 0
    BY DEF NoSpec
  <2>4. last \in Nat /\ d \in Nat
    OBVIOUS
  <2>5. QED
    BY <2>1, <2>2, <2>3, <2>4
<1>30. CASE UNCHANGED vars
  BY <1>30 DEF vars
<1>31. QED
  BY <1>1, <1>2, <1>3, <1>4, <1>5, <1>6, <1>7, <1>8, <1>9, <1>10, <1>11, <1>12, <1>13, <1>14,
     <1>15, <1>16, <1>17, <1>18, <1>19, <1>20, <1>21, <1>22, <1>23, <1>24, <1>25, <1>26, <1>27,
     <1>28, <1>29, <1>30, Zenon
     DEF Next, Request, Run, Remove

\* The types and the places, of all deployments.
LEMMA TypedStep == Typed /\ [Next]_vars => Typed'
BY TypeStep, PlacedStep DEF Typed


\* The state and the place of the run of d.
LEMMA AgreedStep ==
    ASSUME Typed, Types, \A x \in Dep : Placed(x), NEW d \in Dep, Agreed(d), RemoverAlone(d),
           RowBehind(d), [Next]_vars
    PROVE  Agreed(d)'
<1> USE Numbers DEF Types, Placed, Live, Over, Started, Calls, Ending, Active, Final, Agreed,
       RemoverAlone, RowBehind, run, record, memory, rm, env
<1>1. ASSUME NEW e \in Dep, PersistPending(e) PROVE Agreed(d)'
  BY <1>1, SaveShape, RowTyped DEF PersistPending, Goto
<1>2. ASSUME NEW e \in Dep, RunBegin(e) PROVE Agreed(d)'
  BY <1>2, PollsTyped DEF RunBegin, Goto
<1>3. ASSUME NEW e \in Dep, StopSignal(e) PROVE Agreed(d)'
  BY <1>3 DEF StopSignal
<1>4. ASSUME NEW e \in Dep, NodeBegin(e) PROVE Agreed(d)'
  BY <1>4 DEF NodeBegin, Goto
<1>5. ASSUME NEW e \in Dep, UploadISO(e) PROVE Agreed(d)'
  BY <1>5 DEF UploadISO, Goto
<1>6. ASSUME NEW e \in Dep, CreateVM(e) PROVE Agreed(d)'
  BY <1>6 DEF CreateVM, Goto
<1>7. ASSUME NEW e \in Dep, Created(e) PROVE Agreed(d)'
  BY <1>7 DEF Created, Goto
<1>8. ASSUME NEW e \in Dep, NodeFail(e) PROVE Agreed(d)'
  BY <1>8 DEF NodeFail, Stop
<1>9. ASSUME NEW e \in Dep, WireBegin(e) PROVE Agreed(d)'
  BY <1>9 DEF WireBegin, Goto
<1>10. ASSUME NEW e \in Dep, WireFail(e) PROVE Agreed(d)'
  BY <1>10 DEF WireFail, Stop
<1>11. ASSUME NEW e \in Dep, Wired(e) PROVE Agreed(d)'
  BY <1>11 DEF Wired, Stop
<1>12. ASSUME NEW e \in Dep, TakeView(e) PROVE Agreed(d)'
  BY <1>12, RowTyped DEF TakeView, Goto
<1>13. ASSUME NEW e \in Dep, SaveFinal(e) PROVE Agreed(d)'
  BY <1>13, SaveShape DEF SaveFinal, Goto
<1>14. ASSUME NEW e \in Dep, PruneFinished(e) PROVE Agreed(d)'
  BY <1>14, DropShape DEF PruneFinished, Goto
<1>15. ASSUME NEW e \in Dep, CloseDone(e) PROVE Agreed(d)'
  BY <1>15 DEF CloseDone, Goto
<1>16. ASSUME NEW e \in Dep, RemoveView(e) PROVE Agreed(d)'
  BY <1>16 DEF RemoveView
<1>17. ASSUME NEW e \in Dep, RemoveMark(e) PROVE Agreed(d)'
  BY <1>17, RowTyped DEF RemoveMark
<1>18. ASSUME NEW e \in Dep, RemovePersist(e) PROVE Agreed(d)'
  BY <1>18, SaveShape, RowTyped DEF RemovePersist
<1>19. ASSUME NEW e \in Dep, Cancel(e) PROVE Agreed(d)'
  BY <1>19 DEF Cancel, Canceling
<1>20. ASSUME NEW e \in Dep, RemoveBegin(e) PROVE Agreed(d)'
  BY <1>20 DEF RemoveBegin, Canceling
<1>21. ASSUME NEW e \in Dep, Delete(e) PROVE Agreed(d)'
  BY <1>21, DropShape DEF Delete
<1>22. CASE (\E plan \in Plans : Start(plan)) \/ (\E e \in Dep : Retry(e) \/ RetryWire(e))
  <2>1. PICK s \in Specs, ids \in [Nodes -> Refs] : Entered(s, ids)
    BY <1>22, EnteredShape
  <2>2. QED
    BY <2>1 DEF Entered
<1>23. ASSUME NEW e \in Dep, Attach(e) \/ PowerOn(e) \/ SendKeys(e) PROVE Agreed(d)'
  <2>1. CASE NextCall(e)
    BY <2>1 DEF NextCall
  <2>2. CASE NodeDone(e)
    BY <2>2 DEF NodeDone
  <2>3. QED
    BY <1>23, <2>1, <2>2, NodeShape
<1>24. ASSUME NEW e \in Dep, NEW m \in Nodes, ResolveIP(e, m) PROVE Agreed(d)'
  <2>1. PICK v \in VM : Resolves(e, m, v)
    BY <1>24, ResolveShape
  <2>2. QED
    BY <2>1 DEF Resolves
<1>25. ASSUME NEW e \in Dep, NEW v \in VM, DestroyVM(e, v) PROVE Agreed(d)'
  BY <1>25 DEF DestroyVM
<1>26. ASSUME NEW k \in KeepChoices, SetKeepCompleted(k) PROVE Agreed(d)'
  BY <1>26, DropShape DEF SetKeepCompleted
<1>27. ASSUME NEW e \in Dep, AllDeployed(e) PROVE Agreed(d)'
  <2>1. CASE LoopStops(e)
    BY <2>1 DEF LoopStops, Stop
  <2>2. CASE LoopResolves(e)
    BY <2>2 DEF LoopResolves
  <2>3. QED
    BY <1>27, <2>1, <2>2, AllDeployedShape
<1>28. CASE Shutdown
  BY <1>28 DEF Shutdown
<1>29. CASE Restart
  <2>1. /\ pc'[d] \in {"gone", "unused"} /\ remover'[d] = "none"
    BY <1>29 DEF Restart
  <2>2. state'[d] \in Final \cup {"none"} /\ (d \in registry' => state'[d] # "none")
    <3>1. CASE Unreadable
      BY <3>1 DEF Unreadable
    <3>2. ASSUME NEW old, Reloaded(old)
          PROVE  state'[d] \in Final \cup {"none"} /\ (d \in registry' => state'[d] # "none")
      BY <3>2 DEF Reloaded, Loaded, Rows
    <3>3. QED
      BY <1>29, <3>1, <3>2, RestartShape
  <2>3. QED
    BY <2>1, <2>2
<1>30. CASE UNCHANGED vars
  BY <1>30 DEF vars
<1>31. QED
  BY <1>1, <1>2, <1>3, <1>4, <1>5, <1>6, <1>7, <1>8, <1>9, <1>10, <1>11, <1>12, <1>13, <1>14,
     <1>15, <1>16, <1>17, <1>18, <1>19, <1>20, <1>21, <1>22, <1>23, <1>24, <1>25, <1>26, <1>27,
     <1>28, <1>29, <1>30, Zenon
     DEF Next, Request, Run, Remove

\* The Remove of d.
LEMMA RemoverStep ==
    ASSUME Typed, Types, \A x \in Dep : Placed(x), NEW d \in Dep, Agreed(d), RemoverAlone(d),
           [Next]_vars
    PROVE  RemoverAlone(d)'
<1> USE Numbers DEF Types, Placed, Live, Over, Started, Calls, Ending, Active, Final, Agreed,
       RemoverAlone, run, record, memory, rm, env
<1>1. ASSUME NEW e \in Dep, PersistPending(e) PROVE RemoverAlone(d)'
  BY <1>1, SaveShape, RowTyped DEF PersistPending, Goto
<1>2. ASSUME NEW e \in Dep, RunBegin(e) PROVE RemoverAlone(d)'
  BY <1>2, PollsTyped DEF RunBegin, Goto
<1>3. ASSUME NEW e \in Dep, StopSignal(e) PROVE RemoverAlone(d)'
  BY <1>3 DEF StopSignal
<1>4. ASSUME NEW e \in Dep, NodeBegin(e) PROVE RemoverAlone(d)'
  BY <1>4 DEF NodeBegin, Goto
<1>5. ASSUME NEW e \in Dep, UploadISO(e) PROVE RemoverAlone(d)'
  BY <1>5 DEF UploadISO, Goto
<1>6. ASSUME NEW e \in Dep, CreateVM(e) PROVE RemoverAlone(d)'
  BY <1>6 DEF CreateVM, Goto
<1>7. ASSUME NEW e \in Dep, Created(e) PROVE RemoverAlone(d)'
  BY <1>7 DEF Created, Goto
<1>8. ASSUME NEW e \in Dep, NodeFail(e) PROVE RemoverAlone(d)'
  BY <1>8 DEF NodeFail, Stop
<1>9. ASSUME NEW e \in Dep, WireBegin(e) PROVE RemoverAlone(d)'
  BY <1>9 DEF WireBegin, Goto
<1>10. ASSUME NEW e \in Dep, WireFail(e) PROVE RemoverAlone(d)'
  BY <1>10 DEF WireFail, Stop
<1>11. ASSUME NEW e \in Dep, Wired(e) PROVE RemoverAlone(d)'
  BY <1>11 DEF Wired, Stop
<1>12. ASSUME NEW e \in Dep, TakeView(e) PROVE RemoverAlone(d)'
  BY <1>12, RowTyped DEF TakeView, Goto
<1>13. ASSUME NEW e \in Dep, SaveFinal(e) PROVE RemoverAlone(d)'
  BY <1>13, SaveShape DEF SaveFinal, Goto
<1>14. ASSUME NEW e \in Dep, PruneFinished(e) PROVE RemoverAlone(d)'
  BY <1>14, DropShape DEF PruneFinished, Goto
<1>15. ASSUME NEW e \in Dep, CloseDone(e) PROVE RemoverAlone(d)'
  BY <1>15 DEF CloseDone, Goto
<1>16. ASSUME NEW e \in Dep, RemoveView(e) PROVE RemoverAlone(d)'
  <2>1. /\ pc' = pc /\ remover' = [remover EXCEPT ![e] = "destroying"]
        /\ gaveUp' = [gaveUp EXCEPT ![e] = gaveUp[e] \/ pc[e] \notin Over]
    BY <1>16 DEF RemoveView
  <2>2. CASE d = e
    <3>1. gaveUp'[d] <=> gaveUp[d] \/ pc[d] \notin Over
      BY <2>1, <2>2
    <3>2. QED
      BY <2>1, <3>1
  <2>3. CASE d # e
    BY <2>1, <2>3
  <2>4. QED
    BY <2>2, <2>3
<1>17. ASSUME NEW e \in Dep, RemoveMark(e) PROVE RemoverAlone(d)'
  BY <1>17, RowTyped DEF RemoveMark
<1>18. ASSUME NEW e \in Dep, RemovePersist(e) PROVE RemoverAlone(d)'
  BY <1>18, SaveShape, RowTyped DEF RemovePersist
<1>19. ASSUME NEW e \in Dep, Cancel(e) PROVE RemoverAlone(d)'
  BY <1>19 DEF Cancel, Canceling
<1>20. ASSUME NEW e \in Dep, RemoveBegin(e) PROVE RemoverAlone(d)'
  BY <1>20 DEF RemoveBegin, Canceling
<1>21. ASSUME NEW e \in Dep, Delete(e) PROVE RemoverAlone(d)'
  BY <1>21, DropShape DEF Delete
<1>22. CASE (\E plan \in Plans : Start(plan)) \/ (\E e \in Dep : Retry(e) \/ RetryWire(e))
  <2>1. PICK s \in Specs, ids \in [Nodes -> Refs] : Entered(s, ids)
    BY <1>22, EnteredShape
  <2>2. QED
    BY <2>1 DEF Entered
<1>23. ASSUME NEW e \in Dep, Attach(e) \/ PowerOn(e) \/ SendKeys(e) PROVE RemoverAlone(d)'
  <2>1. CASE NextCall(e)
    BY <2>1 DEF NextCall
  <2>2. CASE NodeDone(e)
    BY <2>2 DEF NodeDone
  <2>3. QED
    BY <1>23, <2>1, <2>2, NodeShape
<1>24. ASSUME NEW e \in Dep, NEW m \in Nodes, ResolveIP(e, m) PROVE RemoverAlone(d)'
  <2>1. PICK v \in VM : Resolves(e, m, v)
    BY <1>24, ResolveShape
  <2>2. QED
    BY <2>1 DEF Resolves
<1>25. ASSUME NEW e \in Dep, NEW v \in VM, DestroyVM(e, v) PROVE RemoverAlone(d)'
  BY <1>25 DEF DestroyVM
<1>26. ASSUME NEW k \in KeepChoices, SetKeepCompleted(k) PROVE RemoverAlone(d)'
  BY <1>26, DropShape DEF SetKeepCompleted
<1>27. ASSUME NEW e \in Dep, AllDeployed(e) PROVE RemoverAlone(d)'
  <2>1. CASE LoopStops(e)
    BY <2>1 DEF LoopStops, Stop
  <2>2. CASE LoopResolves(e)
    BY <2>2 DEF LoopResolves
  <2>3. QED
    BY <1>27, <2>1, <2>2, AllDeployedShape
<1>28. CASE Shutdown
  BY <1>28 DEF Shutdown
<1>29. CASE Restart
  <2>1. CASE Unreadable
    BY <1>29, <2>1 DEF Restart, Unreadable
  <2>2. ASSUME NEW old, Reloaded(old) PROVE RemoverAlone(d)'
    BY <1>29, <2>2 DEF Restart, Reloaded
  <2>3. QED
    BY <1>29, <2>1, <2>2, RestartShape
<1>30. CASE UNCHANGED vars
  BY <1>30 DEF vars
<1>31. QED
  BY <1>1, <1>2, <1>3, <1>4, <1>5, <1>6, <1>7, <1>8, <1>9, <1>10, <1>11, <1>12, <1>13, <1>14,
     <1>15, <1>16, <1>17, <1>18, <1>19, <1>20, <1>21, <1>22, <1>23, <1>24, <1>25, <1>26, <1>27,
     <1>28, <1>29, <1>30, Zenon
     DEF Next, Request, Run, Remove

\* The row of d.
LEMMA RowBehindStep ==
    ASSUME Typed, Types, \A x \in Dep : Placed(x), NEW d \in Dep, Agreed(d), RemoverAlone(d),
           RowBehind(d), [Next]_vars
    PROVE  RowBehind(d)'
<1> USE Numbers DEF Types, Placed, Live, Over, Started, Calls, Ending, Active, Final, Agreed,
       RemoverAlone, RowBehind, run, record, memory, rm, env
<1>1. ASSUME NEW e \in Dep, PersistPending(e) PROVE RowBehind(d)'
  <2>1. View(e) \in Rows /\ View(e).state = state[e] /\ NoRow.state = "none" /\ Save(e, View(e))
    BY <1>1, RowTyped DEF PersistPending, Goto
  <2>2. /\ row'[e] = View(e) \/ row'[e] = row[e]
        /\ \A x \in Dep : x # e => row'[x] = row[x]
    BY <2>1, SaveShape
  <2>3. CASE d = e
    BY <1>1, <2>1, <2>2, <2>3 DEF PersistPending, Goto, View
  <2>4. CASE d # e
    BY <1>1, <2>2, <2>4 DEF PersistPending, Goto, View
  <2>5. QED
    BY <2>3, <2>4
<1>2. ASSUME NEW e \in Dep, RunBegin(e) PROVE RowBehind(d)'
  BY <1>2, PollsTyped DEF RunBegin, Goto, View
<1>3. ASSUME NEW e \in Dep, StopSignal(e) PROVE RowBehind(d)'
  BY <1>3 DEF StopSignal, View
<1>4. ASSUME NEW e \in Dep, NodeBegin(e) PROVE RowBehind(d)'
  BY <1>4 DEF NodeBegin, Goto, View
<1>5. ASSUME NEW e \in Dep, UploadISO(e) PROVE RowBehind(d)'
  BY <1>5 DEF UploadISO, Goto, View
<1>6. ASSUME NEW e \in Dep, CreateVM(e) PROVE RowBehind(d)'
  BY <1>6 DEF CreateVM, Goto, View
<1>7. ASSUME NEW e \in Dep, Created(e) PROVE RowBehind(d)'
  BY <1>7 DEF Created, Goto, View
<1>8. ASSUME NEW e \in Dep, NodeFail(e) PROVE RowBehind(d)'
  BY <1>8 DEF NodeFail, Stop, View
<1>9. ASSUME NEW e \in Dep, WireBegin(e) PROVE RowBehind(d)'
  BY <1>9 DEF WireBegin, Goto, View
<1>10. ASSUME NEW e \in Dep, WireFail(e) PROVE RowBehind(d)'
  BY <1>10 DEF WireFail, Stop, View
<1>11. ASSUME NEW e \in Dep, Wired(e) PROVE RowBehind(d)'
  BY <1>11 DEF Wired, Stop, View
<1>12. ASSUME NEW e \in Dep, TakeView(e) PROVE RowBehind(d)'
  BY <1>12, RowTyped DEF TakeView, Goto, View
<1>13. ASSUME NEW e \in Dep, SaveFinal(e) PROVE RowBehind(d)'
  BY <1>13, SaveShape DEF SaveFinal, Goto, View
<1>14. ASSUME NEW e \in Dep, PruneFinished(e) PROVE RowBehind(d)'
  <2>1. NoRow.state = "none" /\ Drop(Oldest(registry, state, keep), registry)
    BY <1>14, RowTyped DEF PruneFinished, Goto
  <2>2. row'[d] = row[d] \/ row'[d] = NoRow
    BY <2>1, DropShape
  <2>3. UNCHANGED <<snap, state, vmid, canceled, rm>> /\ (pc'[d] = pc[d] \/ pc'[d] = "pruned")
    BY <1>14 DEF PruneFinished, Goto
  <2>4. QED
    BY <2>1, <2>2, <2>3 DEF View
<1>15. ASSUME NEW e \in Dep, CloseDone(e) PROVE RowBehind(d)'
  BY <1>15 DEF CloseDone, Goto, View
<1>16. ASSUME NEW e \in Dep, RemoveView(e) PROVE RowBehind(d)'
  BY <1>16 DEF RemoveView, View
<1>17. ASSUME NEW e \in Dep, RemoveMark(e) PROVE RowBehind(d)'
  BY <1>17, RowTyped DEF RemoveMark, View
<1>18. ASSUME NEW e \in Dep, RemovePersist(e) PROVE RowBehind(d)'
  <2>1. View(e) \in Rows /\ View(e).state = state[e] /\ NoRow.state = "none" /\ Save(e, View(e))
    BY <1>18, RowTyped DEF RemovePersist
  <2>2. /\ row'[e] = View(e) \/ row'[e] = row[e]
        /\ \A x \in Dep : x # e => row'[x] = row[x]
    BY <2>1, SaveShape
  <2>3. CASE d = e
    BY <1>18, <2>1, <2>2, <2>3 DEF RemovePersist, View
  <2>4. CASE d # e
    BY <1>18, <2>2, <2>4 DEF RemovePersist, View
  <2>5. QED
    BY <2>3, <2>4
<1>19. ASSUME NEW e \in Dep, Cancel(e) PROVE RowBehind(d)'
  BY <1>19 DEF Cancel, Canceling, View
<1>20. ASSUME NEW e \in Dep, RemoveBegin(e) PROVE RowBehind(d)'
  BY <1>20 DEF RemoveBegin, Canceling, View
<1>21. ASSUME NEW e \in Dep, Delete(e) PROVE RowBehind(d)'
  <2>1. NoRow.state = "none" /\ Drop({e}, registry)
    BY <1>21, RowTyped DEF Delete
  <2>2. row'[d] = row[d] \/ row'[d] = NoRow
    BY <2>1, DropShape
  <2>3. UNCHANGED <<snap, state, vmid, canceled, rm>> /\ (pc'[d] = pc[d] \/ pc'[d] = "pruned")
    BY <1>21 DEF Delete
  <2>4. QED
    BY <2>1, <2>2, <2>3 DEF View
<1>22. CASE (\E plan \in Plans : Start(plan)) \/ (\E e \in Dep : Retry(e) \/ RetryWire(e))
  <2>1. PICK s \in Specs, ids \in [Nodes -> Refs] : Entered(s, ids)
    BY <1>22, EnteredShape
  <2>2. last \in Nat /\ d \in Nat /\ NoRow.state = "none"
    BY RowTyped
  <2>3. CASE d = last + 1
    BY <2>1, <2>2, <2>3 DEF Entered
  <2>4. CASE d # last + 1
    BY <2>1, <2>2, <2>4 DEF Entered, View
  <2>5. QED
    BY <2>3, <2>4
<1>23. ASSUME NEW e \in Dep, Attach(e) \/ PowerOn(e) \/ SendKeys(e) PROVE RowBehind(d)'
  <2>1. CASE NextCall(e)
    BY <2>1 DEF NextCall, View
  <2>2. CASE NodeDone(e)
    BY <2>2 DEF NodeDone, View
  <2>3. QED
    BY <1>23, <2>1, <2>2, NodeShape
<1>24. ASSUME NEW e \in Dep, NEW m \in Nodes, ResolveIP(e, m) PROVE RowBehind(d)'
  <2>1. PICK v \in VM : Resolves(e, m, v)
    BY <1>24, ResolveShape
  <2>2. QED
    BY <2>1 DEF Resolves, View
<1>25. ASSUME NEW e \in Dep, NEW v \in VM, DestroyVM(e, v) PROVE RowBehind(d)'
  BY <1>25 DEF DestroyVM, View
<1>26. ASSUME NEW k \in KeepChoices, SetKeepCompleted(k) PROVE RowBehind(d)'
  <2>1. NoRow.state = "none" /\ Drop(Oldest(registry, state, k), registry)
    BY <1>26, RowTyped DEF SetKeepCompleted
  <2>2. row'[d] = row[d] \/ row'[d] = NoRow
    BY <2>1, DropShape
  <2>3. UNCHANGED <<snap, state, vmid, canceled, rm>> /\ (pc'[d] = pc[d] \/ pc'[d] = "pruned")
    BY <1>26 DEF SetKeepCompleted
  <2>4. QED
    BY <2>1, <2>2, <2>3 DEF View
<1>27. ASSUME NEW e \in Dep, AllDeployed(e) PROVE RowBehind(d)'
  <2>1. CASE LoopStops(e)
    BY <2>1 DEF LoopStops, Stop, View
  <2>2. CASE LoopResolves(e)
    BY <2>2 DEF LoopResolves, View
  <2>3. QED
    BY <1>27, <2>1, <2>2, AllDeployedShape
<1>28. CASE Shutdown
  BY <1>28 DEF Shutdown, View
<1>29. CASE Restart
  <2>1. pc'[d] \in {"gone", "unused"} /\ ~gaveUp'[d]
    BY <1>29 DEF Restart
  <2>2. NoRow.state = "none" /\ row[d] \in Rows
    BY RowTyped
  <2>3. CASE Unreadable
    BY <2>1, <2>2, <2>3 DEF Unreadable
  <2>4. ASSUME NEW old, Reloaded(old) PROVE RowBehind(d)'
    <3>1. state'[d] = Loaded(d) /\ (row'[d] \in {NoRow, row[d]} \/ (row[d] # NoRow /\ row'[d] = View(d)'))
      BY <2>4 DEF Reloaded
    <3>2. View(d)'.state = state'[d]
      BY DEF View
    <3>3. Loaded(d) = IF row[d].state \in Active THEN "failed" ELSE row[d].state
      BY DEF Loaded
    <3>4. row[d].state \in Active \cup Final \cup {"none"}
      BY <2>2 DEF Rows
    <3>5. QED
      BY <2>1, <2>2, <3>1, <3>2, <3>3, <3>4
  <2>5. QED
    BY <1>29, <2>3, <2>4, RestartShape
<1>30. CASE UNCHANGED vars
  BY <1>30 DEF vars, View
<1>31. QED
  BY <1>1, <1>2, <1>3, <1>4, <1>5, <1>6, <1>7, <1>8, <1>9, <1>10, <1>11, <1>12, <1>13, <1>14,
     <1>15, <1>16, <1>17, <1>18, <1>19, <1>20, <1>21, <1>22, <1>23, <1>24, <1>25, <1>26, <1>27,
     <1>28, <1>29, <1>30, Zenon
     DEF Next, Request, Run, Remove

\* The row of d, at rest.
LEMMA RowSavedStep ==
    ASSUME Typed, Types, \A x \in Dep : Placed(x), NEW d \in Dep, Agreed(d), RemoverAlone(d),
           RowBehind(d), RowSaved(d), [Next]_vars
    PROVE  RowSaved(d)'
<1> USE Numbers DEF Types, Placed, Live, Over, Started, Calls, Ending, Active, Final, Agreed,
       RemoverAlone, RowBehind, RowSaved, run, record, memory, rm, env
<1>1. ASSUME NEW e \in Dep, PersistPending(e) PROVE RowSaved(d)'
  BY <1>1, SaveShape, RowTyped DEF PersistPending, Goto, View
<1>2. ASSUME NEW e \in Dep, RunBegin(e) PROVE RowSaved(d)'
  BY <1>2, PollsTyped DEF RunBegin, Goto, View
<1>3. ASSUME NEW e \in Dep, StopSignal(e) PROVE RowSaved(d)'
  BY <1>3 DEF StopSignal, View
<1>4. ASSUME NEW e \in Dep, NodeBegin(e) PROVE RowSaved(d)'
  BY <1>4 DEF NodeBegin, Goto, View
<1>5. ASSUME NEW e \in Dep, UploadISO(e) PROVE RowSaved(d)'
  BY <1>5 DEF UploadISO, Goto, View
<1>6. ASSUME NEW e \in Dep, CreateVM(e) PROVE RowSaved(d)'
  BY <1>6 DEF CreateVM, Goto, View
<1>7. ASSUME NEW e \in Dep, Created(e) PROVE RowSaved(d)'
  BY <1>7 DEF Created, Goto, View
<1>8. ASSUME NEW e \in Dep, NodeFail(e) PROVE RowSaved(d)'
  BY <1>8 DEF NodeFail, Stop, View
<1>9. ASSUME NEW e \in Dep, WireBegin(e) PROVE RowSaved(d)'
  BY <1>9 DEF WireBegin, Goto, View
<1>10. ASSUME NEW e \in Dep, WireFail(e) PROVE RowSaved(d)'
  BY <1>10 DEF WireFail, Stop, View
<1>11. ASSUME NEW e \in Dep, Wired(e) PROVE RowSaved(d)'
  BY <1>11 DEF Wired, Stop, View
<1>12. ASSUME NEW e \in Dep, TakeView(e) PROVE RowSaved(d)'
  BY <1>12, RowTyped DEF TakeView, Goto, View
<1>13. ASSUME NEW e \in Dep, SaveFinal(e) PROVE RowSaved(d)'
  BY <1>13, SaveShape DEF SaveFinal, Goto, View
<1>14. ASSUME NEW e \in Dep, PruneFinished(e) PROVE RowSaved(d)'
  BY <1>14, DropShape DEF PruneFinished, Goto, View
<1>15. ASSUME NEW e \in Dep, CloseDone(e) PROVE RowSaved(d)'
  BY <1>15 DEF CloseDone, Goto, View
<1>16. ASSUME NEW e \in Dep, RemoveView(e) PROVE RowSaved(d)'
  BY <1>16 DEF RemoveView, View
<1>17. ASSUME NEW e \in Dep, RemoveMark(e) PROVE RowSaved(d)'
  BY <1>17, RowTyped DEF RemoveMark, View
<1>18. ASSUME NEW e \in Dep, RemovePersist(e) PROVE RowSaved(d)'
  BY <1>18, SaveShape, RowTyped DEF RemovePersist, View
<1>19. ASSUME NEW e \in Dep, Cancel(e) PROVE RowSaved(d)'
  BY <1>19 DEF Cancel, Canceling, View
<1>20. ASSUME NEW e \in Dep, RemoveBegin(e) PROVE RowSaved(d)'
  BY <1>20 DEF RemoveBegin, Canceling, View
<1>21. ASSUME NEW e \in Dep, Delete(e) PROVE RowSaved(d)'
  BY <1>21, DropShape DEF Delete, View
<1>22. CASE (\E plan \in Plans : Start(plan)) \/ (\E e \in Dep : Retry(e) \/ RetryWire(e))
  <2>1. PICK s \in Specs, ids \in [Nodes -> Refs] : Entered(s, ids)
    BY <1>22, EnteredShape
  <2>2. QED
    BY <2>1 DEF Entered, View
<1>23. ASSUME NEW e \in Dep, Attach(e) \/ PowerOn(e) \/ SendKeys(e) PROVE RowSaved(d)'
  <2>1. CASE NextCall(e)
    BY <2>1 DEF NextCall, View
  <2>2. CASE NodeDone(e)
    BY <2>2 DEF NodeDone, View
  <2>3. QED
    BY <1>23, <2>1, <2>2, NodeShape
<1>24. ASSUME NEW e \in Dep, NEW m \in Nodes, ResolveIP(e, m) PROVE RowSaved(d)'
  <2>1. PICK v \in VM : Resolves(e, m, v)
    BY <1>24, ResolveShape
  <2>2. QED
    BY <2>1 DEF Resolves, View
<1>25. ASSUME NEW e \in Dep, NEW v \in VM, DestroyVM(e, v) PROVE RowSaved(d)'
  BY <1>25 DEF DestroyVM, View
<1>26. ASSUME NEW k \in KeepChoices, SetKeepCompleted(k) PROVE RowSaved(d)'
  BY <1>26, DropShape DEF SetKeepCompleted, View
<1>27. ASSUME NEW e \in Dep, AllDeployed(e) PROVE RowSaved(d)'
  <2>1. CASE LoopStops(e)
    BY <2>1 DEF LoopStops, Stop, View
  <2>2. CASE LoopResolves(e)
    BY <2>2 DEF LoopResolves, View
  <2>3. QED
    BY <1>27, <2>1, <2>2, AllDeployedShape
<1>28. CASE Shutdown
  BY <1>28 DEF Shutdown, View
<1>29. CASE Restart
  <2>1. ~gaveUp'[d] /\ remover'[d] = "none"
    BY <1>29 DEF Restart
  <2>2. CASE Unreadable
    BY <2>2 DEF Unreadable
  <2>3. ASSUME NEW old, Reloaded(old) PROVE RowSaved(d)'
    <3>1. d \in registry' => row'[d] = View(d)' \/ faulted'
      BY <2>3 DEF Reloaded
    <3>2. QED
      BY <3>1
  <2>4. QED
    BY <1>29, <2>2, <2>3, RestartShape
<1>30. CASE UNCHANGED vars
  BY <1>30 DEF vars, View
<1>31. QED
  BY <1>1, <1>2, <1>3, <1>4, <1>5, <1>6, <1>7, <1>8, <1>9, <1>10, <1>11, <1>12, <1>13, <1>14,
     <1>15, <1>16, <1>17, <1>18, <1>19, <1>20, <1>21, <1>22, <1>23, <1>24, <1>25, <1>26, <1>27,
     <1>28, <1>29, <1>30, Zenon
     DEF Next, Request, Run, Remove

\* VM n of d.
LEMMA AccountedStep ==
    ASSUME Typed, Types, \A x \in Dep : Placed(x), NEW d \in Dep, NEW n \in Nodes, Agreed(d),
           RemoverAlone(d), Accounted(d, n), [Next]_vars
    PROVE  Accounted(d, n)'
<1> USE Numbers DEF Types, Placed, Live, Over, Started, Calls, Ending, Active, Final,
       RemoverAlone, Accounted, run, record, memory, rm, env
<1>1. ASSUME NEW e \in Dep, PersistPending(e) PROVE Accounted(d, n)'
  BY <1>1 DEF PersistPending, Goto
<1>2. ASSUME NEW e \in Dep, RunBegin(e) PROVE Accounted(d, n)'
  BY <1>2 DEF RunBegin, Goto
<1>3. ASSUME NEW e \in Dep, StopSignal(e) PROVE Accounted(d, n)'
  BY <1>3 DEF StopSignal
<1>4. ASSUME NEW e \in Dep, NodeBegin(e) PROVE Accounted(d, n)'
  BY <1>4 DEF NodeBegin, Goto
<1>5. ASSUME NEW e \in Dep, UploadISO(e) PROVE Accounted(d, n)'
  BY <1>5 DEF UploadISO, Goto
<1>6. ASSUME NEW e \in Dep, CreateVM(e) PROVE Accounted(d, n)'
  BY <1>6 DEF CreateVM, Goto
<1>7. ASSUME NEW e \in Dep, Created(e) PROVE Accounted(d, n)'
  BY <1>7 DEF Created, Goto
<1>8. ASSUME NEW e \in Dep, NodeFail(e) PROVE Accounted(d, n)'
  BY <1>8 DEF NodeFail, Stop
<1>9. ASSUME NEW e \in Dep, WireBegin(e) PROVE Accounted(d, n)'
  BY <1>9 DEF WireBegin, Goto
<1>10. ASSUME NEW e \in Dep, WireFail(e) PROVE Accounted(d, n)'
  BY <1>10 DEF WireFail, Stop
<1>11. ASSUME NEW e \in Dep, Wired(e) PROVE Accounted(d, n)'
  BY <1>11 DEF Wired, Stop
<1>12. ASSUME NEW e \in Dep, TakeView(e) PROVE Accounted(d, n)'
  BY <1>12 DEF TakeView, Goto
<1>13. ASSUME NEW e \in Dep, SaveFinal(e) PROVE Accounted(d, n)'
  BY <1>13 DEF SaveFinal, Goto
<1>14. ASSUME NEW e \in Dep, PruneFinished(e) PROVE Accounted(d, n)'
  BY <1>14 DEF PruneFinished, Goto
<1>15. ASSUME NEW e \in Dep, CloseDone(e) PROVE Accounted(d, n)'
  BY <1>15 DEF CloseDone, Goto
<1>16. ASSUME NEW e \in Dep, RemoveView(e) PROVE Accounted(d, n)'
  <2>1. /\ remover' = [remover EXCEPT ![e] = "destroying"] /\ UNCHANGED <<last, vms, spec, leftover, vmid>>
        /\ todo' = [todo EXCEPT ![e] = IF spec[e].hv THEN {vmid[e][m] : m \in Nodes} \ {NoVM} ELSE {}]
        /\ gaveUp' = [gaveUp EXCEPT ![e] = gaveUp[e] \/ pc[e] \notin Over]
    BY <1>16 DEF RemoveView
  <2>2. CASE d = e
    <3>1. ~gaveUp'[d] => ~gaveUp[d]
      BY <2>1, <2>2
    <3>2. <<d, n>> \in VM /\ <<d, n>> # NoVM
      OBVIOUS
    <3>3. spec[d].hv /\ vmid[d][n] = <<d, n>> => <<d, n>> \in todo'[d]
      BY <2>1, <2>2, <3>2
    <3>4. QED
      BY <2>1, <3>1, <3>3
  <2>3. CASE d # e
    BY <2>1, <2>3
  <2>4. QED
    BY <2>2, <2>3
<1>17. ASSUME NEW e \in Dep, RemoveMark(e) PROVE Accounted(d, n)'
  BY <1>17 DEF RemoveMark
<1>18. ASSUME NEW e \in Dep, RemovePersist(e) PROVE Accounted(d, n)'
  BY <1>18 DEF RemovePersist
<1>19. ASSUME NEW e \in Dep, Cancel(e) PROVE Accounted(d, n)'
  BY <1>19 DEF Cancel, Canceling
<1>20. ASSUME NEW e \in Dep, RemoveBegin(e) PROVE Accounted(d, n)'
  BY <1>20 DEF RemoveBegin, Canceling
<1>21. ASSUME NEW e \in Dep, Delete(e) PROVE Accounted(d, n)'
  BY <1>21 DEF Delete
<1>22. CASE (\E plan \in Plans : Start(plan)) \/ (\E e \in Dep : Retry(e) \/ RetryWire(e))
  <2>1. PICK s \in Specs, ids \in [Nodes -> Refs] : Entered(s, ids)
    BY <1>22, EnteredShape
  <2>2. last \in Nat /\ d \in Nat
    BY <2>1 DEF Entered
  <2>3. CASE d = last + 1
    <3>1. d > last
      BY <2>2, <2>3
    <3>2. QED
      BY <2>1, <2>3, <3>1 DEF Entered
  <2>4. CASE d # last + 1
    <3>1. d > last' => d > last
      BY <2>1, <2>2, <2>4, Beyond DEF Entered
    <3>2. QED
      BY <2>1, <2>4, <3>1 DEF Entered
  <2>5. QED
    BY <2>3, <2>4
<1>23. ASSUME NEW e \in Dep, Attach(e) \/ PowerOn(e) \/ SendKeys(e) PROVE Accounted(d, n)'
  <2>1. CASE NextCall(e)
    BY <2>1 DEF NextCall
  <2>2. CASE NodeDone(e)
    BY <2>2 DEF NodeDone
  <2>3. QED
    BY <1>23, <2>1, <2>2, NodeShape
<1>24. ASSUME NEW e \in Dep, NEW m \in Nodes, ResolveIP(e, m) PROVE Accounted(d, n)'
  <2>1. PICK v \in VM : Resolves(e, m, v)
    BY <1>24, ResolveShape
  <2>2. QED
    BY <2>1 DEF Resolves
<1>25. ASSUME NEW e \in Dep, NEW v \in VM, DestroyVM(e, v) PROVE Accounted(d, n)'
  BY <1>25 DEF DestroyVM
<1>26. ASSUME NEW k \in KeepChoices, SetKeepCompleted(k) PROVE Accounted(d, n)'
  BY <1>26 DEF SetKeepCompleted
<1>27. ASSUME NEW e \in Dep, AllDeployed(e) PROVE Accounted(d, n)'
  <2>1. CASE LoopStops(e)
    BY <2>1 DEF LoopStops, Stop
  <2>2. CASE LoopResolves(e)
    BY <2>2 DEF LoopResolves
  <2>3. QED
    BY <1>27, <2>1, <2>2, AllDeployedShape
<1>28. CASE Shutdown
  BY <1>28 DEF Shutdown
<1>29. CASE Restart
  <2>1. spec'[d] = NoSpec /\ vms' = vms /\ last' = last
    BY <1>29 DEF Restart
  <2>2. QED
    BY <2>1 DEF NoSpec
<1>30. CASE UNCHANGED vars
  BY <1>30 DEF vars
<1>31. QED
  BY <1>1, <1>2, <1>3, <1>4, <1>5, <1>6, <1>7, <1>8, <1>9, <1>10, <1>11, <1>12, <1>13, <1>14,
     <1>15, <1>16, <1>17, <1>18, <1>19, <1>20, <1>21, <1>22, <1>23, <1>24, <1>25, <1>26, <1>27,
     <1>28, <1>29, <1>30, Zenon
     DEF Next, Request, Run, Remove

\* What the shared cells say of the nodes of d stays true while the run of d stands still, or
\* moves anywhere but to the resolving and the wiring.
LEMMA DeployedKept ==
    ASSUME NEW d \in Dep, Deployed(d), UNCHANGED <<at, cells, spec>>,
           \/ pc'[d] = pc[d] /\ pending'[d] = pending[d]
           \/ pc[d] # "gone" /\ pc'[d] \notin {"resolve", "wire"}
           \/ spec[d].kind # "full"
    PROVE  Deployed(d)'
<1>1. Cell(d)' = Cell(d)
  BY DEF Cell
<1>2. QED
  BY <1>1 DEF Deployed

\* Nor does it become false when cells are filled in: by the run of d, or, if its array is
\* shared, by another one.
LEMMA CellsGrow ==
    ASSUME NEW d \in Dep, Deployed(d), at'[d] = at[d], pc'[d] = pc[d], spec'[d] = spec[d],
           \A m \in Nodes :
              /\ Cell(d)[m].ref # NoVM => Cell(d)'[m].ref # NoVM
              /\ Cell(d)'[m].ip = NoIP =>
                    /\ Cell(d)[m].ip = NoIP
                    /\ \A v \in VM : <<m, v>> \in pending[d] => <<m, v>> \in pending'[d]
    PROVE  Deployed(d)'
BY DEF Deployed

\* The nodes of d.
LEMMA DeployedStep ==
    ASSUME Typed, Types, \A x \in Dep : Placed(x), NEW d \in Dep, Deployed(d), [Next]_vars
    PROVE  Deployed(d)'
<1> USE Numbers DEF Types, Placed, Live, Over, Started, Calls, Ending, Active, Final, Deployed,
       run, record, memory, rm, env
<1>1. ASSUME NEW e \in Dep, PersistPending(e) PROVE Deployed(d)'
  <2>1. /\ UNCHANGED <<at, cells, spec>>
        /\ \/ pc'[d] = pc[d] /\ pending'[d] = pending[d]
           \/ pc[d] # "gone" /\ pc'[d] \notin {"resolve", "wire"}
           \/ spec[d].kind # "full"
    BY <1>1 DEF PersistPending, Goto
  <2>2. QED
    BY <2>1, DeployedKept
<1>2. ASSUME NEW e \in Dep, RunBegin(e) PROVE Deployed(d)'
  <2>1. /\ UNCHANGED <<at, cells, spec>>
        /\ \/ pc'[d] = pc[d] /\ pending'[d] = pending[d]
           \/ pc[d] # "gone" /\ pc'[d] \notin {"resolve", "wire"}
           \/ spec[d].kind # "full"
    BY <1>2 DEF RunBegin, Goto
  <2>2. QED
    BY <2>1, DeployedKept
<1>3. ASSUME NEW e \in Dep, StopSignal(e) PROVE Deployed(d)'
  <2>1. /\ UNCHANGED <<at, cells, spec>>
        /\ \/ pc'[d] = pc[d] /\ pending'[d] = pending[d]
           \/ pc[d] # "gone" /\ pc'[d] \notin {"resolve", "wire"}
           \/ spec[d].kind # "full"
    BY <1>3 DEF StopSignal
  <2>2. QED
    BY <2>1, DeployedKept
<1>4. ASSUME NEW e \in Dep, NodeBegin(e) PROVE Deployed(d)'
  <2>1. /\ UNCHANGED <<at, cells, spec>>
        /\ \/ pc'[d] = pc[d] /\ pending'[d] = pending[d]
           \/ pc[d] # "gone" /\ pc'[d] \notin {"resolve", "wire"}
           \/ spec[d].kind # "full"
    BY <1>4 DEF NodeBegin, Goto
  <2>2. QED
    BY <2>1, DeployedKept
<1>5. ASSUME NEW e \in Dep, UploadISO(e) PROVE Deployed(d)'
  <2>1. /\ UNCHANGED <<at, cells, spec>>
        /\ \/ pc'[d] = pc[d] /\ pending'[d] = pending[d]
           \/ pc[d] # "gone" /\ pc'[d] \notin {"resolve", "wire"}
           \/ spec[d].kind # "full"
    BY <1>5 DEF UploadISO, Goto
  <2>2. QED
    BY <2>1, DeployedKept
<1>6. ASSUME NEW e \in Dep, CreateVM(e) PROVE Deployed(d)'
  <2>1. /\ UNCHANGED <<at, cells, spec>>
        /\ \/ pc'[d] = pc[d] /\ pending'[d] = pending[d]
           \/ pc[d] # "gone" /\ pc'[d] \notin {"resolve", "wire"}
           \/ spec[d].kind # "full"
    BY <1>6 DEF CreateVM, Goto
  <2>2. QED
    BY <2>1, DeployedKept
<1>7. ASSUME NEW e \in Dep, Created(e) PROVE Deployed(d)'
  <2>1. /\ UNCHANGED <<at, cells, spec>>
        /\ \/ pc'[d] = pc[d] /\ pending'[d] = pending[d]
           \/ pc[d] # "gone" /\ pc'[d] \notin {"resolve", "wire"}
           \/ spec[d].kind # "full"
    BY <1>7 DEF Created, Goto
  <2>2. QED
    BY <2>1, DeployedKept
<1>8. ASSUME NEW e \in Dep, NodeFail(e) PROVE Deployed(d)'
  <2>1. /\ UNCHANGED <<at, cells, spec>>
        /\ \/ pc'[d] = pc[d] /\ pending'[d] = pending[d]
           \/ pc[d] # "gone" /\ pc'[d] \notin {"resolve", "wire"}
           \/ spec[d].kind # "full"
    BY <1>8 DEF NodeFail, Stop
  <2>2. QED
    BY <2>1, DeployedKept
<1>9. ASSUME NEW e \in Dep, WireBegin(e) PROVE Deployed(d)'
  <2>1. CASE d # e
    <3>1. UNCHANGED <<at, cells, spec, pending>> /\ pc'[d] = pc[d]
      BY <1>9, <2>1 DEF WireBegin, Goto
    <3>2. QED
      BY <3>1, DeployedKept
  <2>2. CASE d = e
    <3>1. UNCHANGED <<at, cells, spec>> /\ pc[d] = "resolve" /\ pc'[d] = "wire" /\ pending[d] = {}
      BY <1>9, <2>2 DEF WireBegin, Goto
    <3>2. Cell(d)' = Cell(d)
      BY <3>1 DEF Cell
    <3>3. QED
      BY <3>1, <3>2
  <2>3. QED
    BY <2>1, <2>2
<1>10. ASSUME NEW e \in Dep, WireFail(e) PROVE Deployed(d)'
  <2>1. /\ UNCHANGED <<at, cells, spec>>
        /\ \/ pc'[d] = pc[d] /\ pending'[d] = pending[d]
           \/ pc[d] # "gone" /\ pc'[d] \notin {"resolve", "wire"}
           \/ spec[d].kind # "full"
    BY <1>10 DEF WireFail, Stop
  <2>2. QED
    BY <2>1, DeployedKept
<1>11. ASSUME NEW e \in Dep, Wired(e) PROVE Deployed(d)'
  <2>1. /\ UNCHANGED <<at, cells, spec>>
        /\ \/ pc'[d] = pc[d] /\ pending'[d] = pending[d]
           \/ pc[d] # "gone" /\ pc'[d] \notin {"resolve", "wire"}
           \/ spec[d].kind # "full"
    BY <1>11 DEF Wired, Stop
  <2>2. QED
    BY <2>1, DeployedKept
<1>12. ASSUME NEW e \in Dep, TakeView(e) PROVE Deployed(d)'
  <2>1. /\ UNCHANGED <<at, cells, spec>>
        /\ \/ pc'[d] = pc[d] /\ pending'[d] = pending[d]
           \/ pc[d] # "gone" /\ pc'[d] \notin {"resolve", "wire"}
           \/ spec[d].kind # "full"
    BY <1>12 DEF TakeView, Goto
  <2>2. QED
    BY <2>1, DeployedKept
<1>13. ASSUME NEW e \in Dep, SaveFinal(e) PROVE Deployed(d)'
  <2>1. /\ UNCHANGED <<at, cells, spec>>
        /\ \/ pc'[d] = pc[d] /\ pending'[d] = pending[d]
           \/ pc[d] # "gone" /\ pc'[d] \notin {"resolve", "wire"}
           \/ spec[d].kind # "full"
    BY <1>13 DEF SaveFinal, Goto
  <2>2. QED
    BY <2>1, DeployedKept
<1>14. ASSUME NEW e \in Dep, PruneFinished(e) PROVE Deployed(d)'
  <2>1. /\ UNCHANGED <<at, cells, spec>>
        /\ \/ pc'[d] = pc[d] /\ pending'[d] = pending[d]
           \/ pc[d] # "gone" /\ pc'[d] \notin {"resolve", "wire"}
           \/ spec[d].kind # "full"
    BY <1>14 DEF PruneFinished, Goto
  <2>2. QED
    BY <2>1, DeployedKept
<1>15. ASSUME NEW e \in Dep, CloseDone(e) PROVE Deployed(d)'
  <2>1. /\ UNCHANGED <<at, cells, spec>>
        /\ \/ pc'[d] = pc[d] /\ pending'[d] = pending[d]
           \/ pc[d] # "gone" /\ pc'[d] \notin {"resolve", "wire"}
           \/ spec[d].kind # "full"
    BY <1>15 DEF CloseDone, Goto
  <2>2. QED
    BY <2>1, DeployedKept
<1>16. ASSUME NEW e \in Dep, RemoveView(e) PROVE Deployed(d)'
  <2>1. /\ UNCHANGED <<at, cells, spec>>
        /\ \/ pc'[d] = pc[d] /\ pending'[d] = pending[d]
           \/ pc[d] # "gone" /\ pc'[d] \notin {"resolve", "wire"}
           \/ spec[d].kind # "full"
    BY <1>16 DEF RemoveView
  <2>2. QED
    BY <2>1, DeployedKept
<1>17. ASSUME NEW e \in Dep, RemoveMark(e) PROVE Deployed(d)'
  <2>1. /\ UNCHANGED <<at, cells, spec>>
        /\ \/ pc'[d] = pc[d] /\ pending'[d] = pending[d]
           \/ pc[d] # "gone" /\ pc'[d] \notin {"resolve", "wire"}
           \/ spec[d].kind # "full"
    BY <1>17 DEF RemoveMark
  <2>2. QED
    BY <2>1, DeployedKept
<1>18. ASSUME NEW e \in Dep, RemovePersist(e) PROVE Deployed(d)'
  <2>1. /\ UNCHANGED <<at, cells, spec>>
        /\ \/ pc'[d] = pc[d] /\ pending'[d] = pending[d]
           \/ pc[d] # "gone" /\ pc'[d] \notin {"resolve", "wire"}
           \/ spec[d].kind # "full"
    BY <1>18 DEF RemovePersist
  <2>2. QED
    BY <2>1, DeployedKept
<1>19. ASSUME NEW e \in Dep, Cancel(e) PROVE Deployed(d)'
  <2>1. /\ UNCHANGED <<at, cells, spec>>
        /\ \/ pc'[d] = pc[d] /\ pending'[d] = pending[d]
           \/ pc[d] # "gone" /\ pc'[d] \notin {"resolve", "wire"}
           \/ spec[d].kind # "full"
    BY <1>19 DEF Cancel
  <2>2. QED
    BY <2>1, DeployedKept
<1>20. ASSUME NEW e \in Dep, RemoveBegin(e) PROVE Deployed(d)'
  <2>1. /\ UNCHANGED <<at, cells, spec>>
        /\ \/ pc'[d] = pc[d] /\ pending'[d] = pending[d]
           \/ pc[d] # "gone" /\ pc'[d] \notin {"resolve", "wire"}
           \/ spec[d].kind # "full"
    BY <1>20 DEF RemoveBegin
  <2>2. QED
    BY <2>1, DeployedKept
<1>21. ASSUME NEW e \in Dep, Delete(e) PROVE Deployed(d)'
  <2>1. /\ UNCHANGED <<at, cells, spec>>
        /\ \/ pc'[d] = pc[d] /\ pending'[d] = pending[d]
           \/ pc[d] # "gone" /\ pc'[d] \notin {"resolve", "wire"}
           \/ spec[d].kind # "full"
    BY <1>21 DEF Delete
  <2>2. QED
    BY <2>1, DeployedKept
<1>22. CASE (\E plan \in Plans : Start(plan)) \/ (\E e \in Dep : Retry(e) \/ RetryWire(e))
  <2>1. PICK s \in Specs, ids \in [Nodes -> Refs] : Entered(s, ids)
    BY <1>22, EnteredShape
  <2>2. last \in Nat /\ d \in Nat
    BY <2>1 DEF Entered
  <2>3. CASE d > last
    <3>1. at'[d] = 1 /\ pc'[d] \in {"unused", "registered"}
      BY <2>1, <2>2, <2>3 DEF Entered
    <3>2. \A m \in Nodes : ~(m < 1)
      OBVIOUS
    <3>3. QED
      BY <3>1, <3>2
  <2>4. CASE d <= last
    <3>1. spec[d].array <= last /\ (spec[d].array # 0 => spec[d].array \in Dep) /\ spec[d].array \in Nat
      BY DEF Specs
    <3>2. UNCHANGED <<pending>> /\ at'[d] = at[d] /\ pc'[d] = pc[d] /\ spec'[d] = spec[d]
      BY <2>1, <2>2, <2>4 DEF Entered
    <3>3. \A a \in Dep : a <= last => cells'[a] = cells[a]
      BY <2>1 DEF Entered
    <3>4. CASE pc[d] \in {"unused", "gone"}
      BY <2>2, <2>4, <3>2, <3>4
    <3>5. CASE pc[d] \notin {"unused", "gone"}
      <4>1. Cell(d)' = Cell(d)
        BY <3>1, <3>2, <3>3, <3>5 DEF Cell
      <4>2. QED
        BY <3>2, <4>1
    <3>6. QED
      BY <3>4, <3>5
  <2>5. QED
    BY <2>2, <2>3, <2>4, Comparable
<1>23. ASSUME NEW e \in Dep, Attach(e) \/ PowerOn(e) \/ SendKeys(e) PROVE Deployed(d)'
  <2>1. CASE NextCall(e)
    <3>1. /\ UNCHANGED <<at, cells, spec>>
          /\ \/ pc'[d] = pc[d] /\ pending'[d] = pending[d]
             \/ pc[d] # "gone" /\ pc'[d] \notin {"resolve", "wire"}
             \/ spec[d].kind # "full"
      BY <2>1 DEF NextCall
    <3>2. QED
      BY <3>1, DeployedKept
  <2>2. CASE NodeDone(e)
    <3>1. \A x \in Dep, m \in Nodes : spec[x].array \in Dep =>
              /\ Cell(x)'[m].ip = Cell(x)[m].ip
              /\ Cell(x)[m].ref # NoVM => Cell(x)'[m].ref # NoVM
              /\ x = e /\ m = at[e] => Cell(x)'[m].ref # NoVM
      <4>1. <<e, at[e]>> # NoVM
        BY <2>2 DEF NodeDone
      <4>2. QED
        BY <2>2, <4>1 DEF NodeDone, Cell
    <3>2. UNCHANGED <<pending, spec>>
      BY <2>2 DEF NodeDone
    <3>3. CASE pc[d] = "gone"
      BY <2>2, <3>3 DEF NodeDone
    <3>4. CASE pc[d] = "unused"
      BY <2>2, <3>4 DEF NodeDone
    <3>5. CASE pc[d] \notin {"gone", "unused"} /\ d # e
      <4>1. spec[d].array \in Dep
        BY <3>5 DEF Specs
      <4>2. pc'[d] = pc[d] /\ at'[d] = at[d]
        BY <2>2, <3>5 DEF NodeDone
      <4>3. \A m \in Nodes : /\ Cell(d)'[m].ip = Cell(d)[m].ip
                             /\ Cell(d)[m].ref # NoVM => Cell(d)'[m].ref # NoVM
        BY <3>1, <4>1
      <4>4. spec'[d] = spec[d] /\ pending'[d] = pending[d]
        BY <3>2
      <4>5. QED
        BY <4>2, <4>3, <4>4, CellsGrow
    <3>6. CASE d = e
      <4>1. spec[d].array \in Dep /\ pc[d] # "gone"
        BY <2>2, <3>6 DEF NodeDone, Specs
      <4>2. pc'[d] = "loop" /\ at'[d] = at[d] + 1
        BY <2>2, <3>6 DEF NodeDone
      <4>3. \A m \in Nodes : m < at[d] + 1 => m < at[d] \/ m = at[d]
        <5>1. at[d] \in Nat /\ \A m \in Nodes : m \in Nat
          OBVIOUS
        <5>2. QED
          BY <5>1, Comparable, Zenon
      <4>5. spec[d].kind = "full" => \A m \in Nodes : m < at'[d] => Cell(d)'[m].ref # NoVM
        <5>1. SUFFICES ASSUME NEW m \in Nodes, spec[d].kind = "full", m < at[d] \/ m = at[d]
                       PROVE  Cell(d)'[m].ref # NoVM
          BY <4>2, <4>3
        <5>2. CASE m = at[d]
          BY <3>1, <3>6, <4>1, <5>2
        <5>3. CASE m < at[d]
          <6>1. Cell(d)[m].ref # NoVM
            BY <4>1, <5>1, <5>3
          <6>2. QED
            BY <3>1, <4>1, <6>1
        <5>4. QED
          BY <5>1, <5>2, <5>3
      <4>6. QED
        BY <3>2, <4>2, <4>5
    <3>7. QED
      BY <3>3, <3>4, <3>5, <3>6
  <2>3. QED
    BY <1>23, <2>1, <2>2, NodeShape
<1>24. ASSUME NEW e \in Dep, NEW m \in Nodes, ResolveIP(e, m) PROVE Deployed(d)'
  <2>1. PICK v \in VM : Resolves(e, m, v)
    BY <1>24, ResolveShape
  <2>2. \A x \in Dep, w \in Nodes : spec[x].array \in Dep =>
            /\ Cell(x)'[w].ref = Cell(x)[w].ref
            /\ Cell(x)'[w].ip = NoIP => Cell(x)[w].ip = NoIP /\ (x = e => w # m)
    BY <2>1 DEF Resolves, Cell
  <2>3. /\ UNCHANGED <<pc, spec, at>> /\ pending' = [pending EXCEPT ![e] = pending[e] \ {<<m, v>>}]
        /\ pc[e] = "resolve"
    BY <2>1 DEF Resolves, record, memory
  <2>4. CASE pc[d] = "unused"
    BY <2>3, <2>4
  <2>5. CASE pc[d] \notin {"gone", "unused"} /\ spec[d].kind = "full"
    <3>1. spec[d].array \in Dep
      BY <2>5 DEF Specs
    <3>2. \A w \in Nodes, u \in VM : <<w, u>> \in pending[d] /\ (d = e => w # m) => <<w, u>> \in pending'[d]
      BY <2>3
    <3>3. \A w \in Nodes : /\ Cell(d)'[w].ref = Cell(d)[w].ref
                           /\ Cell(d)'[w].ip = NoIP => Cell(d)[w].ip = NoIP /\ (d = e => w # m)
      BY <2>2, <3>1
    <3>4. QED
      BY <2>3, <3>2, <3>3, CellsGrow
  <2>6. QED
    BY <2>3, <2>4, <2>5
<1>25. ASSUME NEW e \in Dep, NEW v \in VM, DestroyVM(e, v) PROVE Deployed(d)'
  <2>1. /\ UNCHANGED <<at, cells, spec>>
        /\ \/ pc'[d] = pc[d] /\ pending'[d] = pending[d]
           \/ pc[d] # "gone" /\ pc'[d] \notin {"resolve", "wire"}
           \/ spec[d].kind # "full"
    BY <1>25 DEF DestroyVM
  <2>2. QED
    BY <2>1, DeployedKept
<1>26. ASSUME NEW k \in KeepChoices, SetKeepCompleted(k) PROVE Deployed(d)'
  <2>1. /\ UNCHANGED <<at, cells, spec>>
        /\ \/ pc'[d] = pc[d] /\ pending'[d] = pending[d]
           \/ pc[d] # "gone" /\ pc'[d] \notin {"resolve", "wire"}
           \/ spec[d].kind # "full"
    BY <1>26 DEF SetKeepCompleted
  <2>2. QED
    BY <2>1, DeployedKept
<1>27. ASSUME NEW e \in Dep, AllDeployed(e) PROVE Deployed(d)'
  <2>1. CASE LoopStops(e)
    <3>1. /\ UNCHANGED <<at, cells, spec>>
          /\ \/ pc'[d] = pc[d] /\ pending'[d] = pending[d]
             \/ pc[d] # "gone" /\ pc'[d] \notin {"resolve", "wire"}
             \/ spec[d].kind # "full"
      BY <2>1 DEF LoopStops, Stop
    <3>2. QED
      BY <3>1, DeployedKept
  <2>2. CASE LoopResolves(e)
    <3>1. UNCHANGED <<at, cells, spec>>
      BY <2>2 DEF LoopResolves, memory
    <3>2. Cell(d)' = Cell(d)
      BY <3>1 DEF Cell
    <3>3. CASE d # e
      <4>1. pc'[d] = pc[d] /\ pending'[d] = pending[d]
        BY <2>2, <3>3 DEF LoopResolves
      <4>2. QED
        BY <3>1, <4>1, DeployedKept
    <3>4. CASE d = e
      <4>1. pc[d] = "loop" /\ pc'[d] = "resolve" /\ at[d] \notin Nodes /\ pending'[d] = Polls(d)
        BY <2>2, <3>4 DEF LoopResolves
      <4>2. \A w \in Nodes : w < at[d]
        <5>1. at[d] \in Nat /\ at[d] # 0
          OBVIOUS
        <5>2. at[d] > Cardinality(Nodes)
          BY <4>1, <5>1
        <5>3. QED
          BY <5>1, <5>2
      <4>3. \A w \in Nodes : Cell(d)[w].ref # NoVM
        BY <4>1, <4>2
      <4>4. spec[d].array \in Dep
        BY <4>1 DEF Specs
      <4>5. \A w \in Nodes : Cell(d)[w].ref \in VM
        BY <4>3, <4>4 DEF Cell, Place
      <4>6. \A w \in Nodes : Cell(d)[w].ip = NoIP => \E u \in VM : <<w, u>> \in Polls(d)
        <5>1. SUFFICES ASSUME NEW w \in Nodes, Cell(d)[w].ip = NoIP
                       PROVE  <<w, Cell(d)[w].ref>> \in Polls(d)
          BY <4>5
        <5>2. w \in {x \in Nodes : Cell(d)[x].ip = NoIP /\ Cell(d)[x].ref # NoVM}
          BY <4>3, <5>1
        <5>3. QED
          BY <5>2 DEF Polls
      <4>7. QED
        BY <3>1, <3>2, <4>1, <4>3, <4>6
    <3>5. QED
      BY <3>3, <3>4
  <2>3. QED
    BY <1>27, <2>1, <2>2, AllDeployedShape
<1>28. CASE Shutdown
  <2>1. /\ UNCHANGED <<at, cells, spec>>
        /\ \/ pc'[d] = pc[d] /\ pending'[d] = pending[d]
           \/ pc[d] # "gone" /\ pc'[d] \notin {"resolve", "wire"}
           \/ spec[d].kind # "full"
    BY <1>28 DEF Shutdown
  <2>2. QED
    BY <2>1, DeployedKept
<1>29. CASE Restart
  <2>1. pc'[d] \in {"gone", "unused"} /\ at'[d] = 1
    BY <1>29 DEF Restart
  <2>2. \A m \in Nodes : ~(m < 1)
    OBVIOUS
  <2>3. QED
    BY <2>1, <2>2
<1>30. CASE UNCHANGED vars
  <2>1. /\ UNCHANGED <<at, cells, spec>>
        /\ \/ pc'[d] = pc[d] /\ pending'[d] = pending[d]
           \/ pc[d] # "gone" /\ pc'[d] \notin {"resolve", "wire"}
           \/ spec[d].kind # "full"
    BY <1>30 DEF vars
  <2>2. QED
    BY <2>1, DeployedKept
<1>31. QED
  BY <1>1, <1>2, <1>3, <1>4, <1>5, <1>6, <1>7, <1>8, <1>9, <1>10, <1>11, <1>12, <1>13, <1>14,
     <1>15, <1>16, <1>17, <1>18, <1>19, <1>20, <1>21, <1>22, <1>23, <1>24, <1>25, <1>26, <1>27,
     <1>28, <1>29, <1>30, Zenon
     DEF Next, Request, Run, Remove
-----------------------------------------------------------------------------
(* Retention. *)

\* What retention keeps of a set of numbers: those that fewer than n exceed, at most n.
LEMMA AtMostNewest ==
    ASSUME NEW S, S \subseteq Nat, IsFiniteSet(S), NEW n \in Nat
    PROVE  Cardinality(S \ {d \in S : Cardinality({e \in S : e > d}) >= n}) <= n
<1> DEFINE Newer(d) == {e \in S : e > d}
           K == {d \in S : Cardinality(Newer(d)) < n}
<1>1. \A T \in SUBSET S : IsFiniteSet(T) /\ Cardinality(T) \in Nat
  BY FS_Subset, FS_CardinalityType
<1>2. S \ {d \in S : Cardinality({e \in S : e > d}) >= n} = K
  <2>1. \A d \in S : Cardinality(Newer(d)) \in Nat
    BY <1>1
  <2>2. \A d \in S : ~(Cardinality(Newer(d)) >= n) <=> Cardinality(Newer(d)) < n
    <3> HIDE DEF Newer
    <3> QED
      BY <2>1
  <2>3. QED
    BY <2>2
<1> SUFFICES Cardinality(K) <= n
  BY <1>2
<1>3. CASE K = {}
  <2>1. Cardinality(K) = 0
    <3> HIDE DEF K
    <3> QED
      BY <1>3, FS_EmptySet
  <2>2. QED
    BY <2>1
<1>4. CASE K # {}
  <2>1. PICK m \in K : \A d \in K : ~(<<d, m>> \in OpToRel(<, Nat))
    <3>1. K \subseteq Nat
      OBVIOUS
    <3>2. QED
      BY <1>4, <3>1, NatLessThanWellFounded, WFMin
  <2>2. \A d \in K \ {m} : d > m
    <3>1. \A d \in Nat, x \in Nat : d < x => <<d, x>> \in OpToRel(<, Nat)
      BY DEF OpToRel
    <3>2. \A d \in K \ {m} : d \in Nat /\ m \in Nat /\ ~(d < m) /\ d # m
      BY <2>1, <3>1
    <3>3. QED
      BY <3>2
  <2>3. K \ {m} \in SUBSET Newer(m)
    BY <2>2
  <2>4. Cardinality(K \ {m}) <= Cardinality(Newer(m)) /\ Cardinality(K \ {m}) \in Nat
    BY <1>1, <2>3, FS_Subset, FS_CardinalityType
  <2>5. Cardinality(Newer(m)) < n /\ Cardinality(Newer(m)) \in Nat
    BY <1>1
  <2>6. Cardinality(K) \in Nat /\ Cardinality(K \ {m}) = Cardinality(K) - 1
    BY <1>1, FS_RemoveElement
  <2>7. Cardinality(K) <= n
    <3> HIDE DEF K, Newer
    <3> QED
      BY <2>4, <2>5, <2>6
  <2>8. QED
    BY <2>7
<1>5. QED
  BY <1>3, <1>4

\* What FinishedBounded counts.
AtRest(d) == d \in registry /\ state[d] \in Final /\ pc[d] \in Over \cup {"pruned"}

\* The cap has just been applied.
Retained == \E reg \in SUBSET Dep : registry' = reg \ Oldest(reg, state', keep')

\* The cap bounds what it is applied to.
LEMMA RetainedBounded == Typed' /\ Retained => FinishedBounded'
<1> SUFFICES ASSUME Typed', Retained PROVE FinishedBounded'
  OBVIOUS
<1>1. PICK reg \in SUBSET Dep : registry' = reg \ Oldest(reg, state', keep')
  BY DEF Retained
<1> DEFINE fin == {d \in reg : state'[d] \in Final}
           dropped == {d \in fin : Cardinality({e \in fin : e > d}) >= keep'}
           rest == {d \in registry' : state'[d] \in Final /\ pc'[d] \in Over \cup {"pruned"}}
<1>2. IsFiniteSet(Dep) /\ Dep \subseteq Nat
  BY FS_Interval, Numbers DEF Dep
<1>3. fin \subseteq Nat /\ IsFiniteSet(fin)
  BY <1>2, FS_Subset
<1>4. keep' \in Nat
  BY Numbers DEF Typed, Types
<1>5. Cardinality(fin \ dropped) <= keep'
  <2> HIDE DEF fin
  <2> QED
    BY <1>3, <1>4, AtMostNewest
<1>6. dropped = Oldest(reg, state', keep')
  BY DEF Oldest, Finished
<1>7. rest \subseteq fin \ dropped
  <2> HIDE DEF dropped
  <2> QED
    BY <1>1, <1>6
<1>8. Cardinality(rest) <= Cardinality(fin \ dropped) /\ Cardinality(rest) \in Nat /\ Cardinality(fin \ dropped) \in Nat
  <2>1. IsFiniteSet(fin \ dropped)
    <3> HIDE DEF fin
    <3> QED
      BY <1>3, FS_Subset
  <2> HIDE DEF fin, dropped, rest
  <2>2. QED
    BY <1>7, <2>1, FS_Subset, FS_CardinalityType
<1>9. Cardinality(rest) <= keep'
  <2> HIDE DEF fin, dropped, rest
  <2> QED
    BY <1>4, <1>5, <1>8
<1>10. QED
  BY <1>9 DEF FinishedBounded

\* No deployment has come to rest that was not before.
LEMMA NoneMoreBounded ==
    Typed /\ FinishedBounded /\ keep' = keep /\ (\A d \in Dep : AtRest(d)' => AtRest(d)) /\ Typed'
        => FinishedBounded'
<1> SUFFICES ASSUME Typed, FinishedBounded, keep' = keep, \A d \in Dep : AtRest(d)' => AtRest(d), Typed'
             PROVE  FinishedBounded'
  OBVIOUS
<1> DEFINE before == {d \in registry : state[d] \in Final /\ pc[d] \in Over \cup {"pruned"}}
           after  == {d \in registry' : state'[d] \in Final /\ pc'[d] \in Over \cup {"pruned"}}
<1>1. IsFiniteSet(Dep)
  BY FS_Interval, Numbers DEF Dep
<1>2. IsFiniteSet(before)
  BY <1>1, FS_Subset DEF Typed, Types
<1>3. after \subseteq before
  BY DEF AtRest, Typed, Types
<1>4. keep \in Nat
  BY Numbers DEF Typed, Types
<1>5. Cardinality(before) <= keep
  BY DEF FinishedBounded
<1>6. Cardinality(after) <= Cardinality(before) /\ Cardinality(after) \in Nat /\ Cardinality(before) \in Nat
  <2> HIDE DEF before, after
  <2> QED
    BY <1>2, <1>3, FS_Subset, FS_CardinalityType
<1>7. Cardinality(after) <= keep'
  <2> HIDE DEF before, after
  <2> QED
    BY <1>4, <1>5, <1>6
<1>8. QED
  BY <1>7 DEF FinishedBounded


\* What comes to rest.
LEMMA RestStep ==
    ASSUME Typed, Types, \A x \in Dep : Placed(x), NEW d \in Dep, Agreed(d), [Next]_vars
    PROVE  Retained \/ (keep' = keep /\ (AtRest(d)' => AtRest(d)))
<1> USE Numbers DEF Types, Placed, Live, Over, Started, Calls, Ending, Active, Final, Agreed,
       AtRest, run, record, memory, rm, env
<1>1. ASSUME NEW e \in Dep, PersistPending(e) PROVE Retained \/ (keep' = keep /\ (AtRest(d)' => AtRest(d)))
  BY <1>1 DEF PersistPending, Goto
<1>2. ASSUME NEW e \in Dep, RunBegin(e) PROVE Retained \/ (keep' = keep /\ (AtRest(d)' => AtRest(d)))
  BY <1>2 DEF RunBegin, Goto
<1>3. ASSUME NEW e \in Dep, StopSignal(e) PROVE Retained \/ (keep' = keep /\ (AtRest(d)' => AtRest(d)))
  BY <1>3 DEF StopSignal
<1>4. ASSUME NEW e \in Dep, NodeBegin(e) PROVE Retained \/ (keep' = keep /\ (AtRest(d)' => AtRest(d)))
  BY <1>4 DEF NodeBegin, Goto
<1>5. ASSUME NEW e \in Dep, UploadISO(e) PROVE Retained \/ (keep' = keep /\ (AtRest(d)' => AtRest(d)))
  BY <1>5 DEF UploadISO, Goto
<1>6. ASSUME NEW e \in Dep, CreateVM(e) PROVE Retained \/ (keep' = keep /\ (AtRest(d)' => AtRest(d)))
  BY <1>6 DEF CreateVM, Goto
<1>7. ASSUME NEW e \in Dep, Created(e) PROVE Retained \/ (keep' = keep /\ (AtRest(d)' => AtRest(d)))
  BY <1>7 DEF Created, Goto
<1>8. ASSUME NEW e \in Dep, NodeFail(e) PROVE Retained \/ (keep' = keep /\ (AtRest(d)' => AtRest(d)))
  BY <1>8 DEF NodeFail, Stop
<1>9. ASSUME NEW e \in Dep, WireBegin(e) PROVE Retained \/ (keep' = keep /\ (AtRest(d)' => AtRest(d)))
  BY <1>9 DEF WireBegin, Goto
<1>10. ASSUME NEW e \in Dep, WireFail(e) PROVE Retained \/ (keep' = keep /\ (AtRest(d)' => AtRest(d)))
  BY <1>10 DEF WireFail, Stop
<1>11. ASSUME NEW e \in Dep, Wired(e) PROVE Retained \/ (keep' = keep /\ (AtRest(d)' => AtRest(d)))
  BY <1>11 DEF Wired, Stop
<1>12. ASSUME NEW e \in Dep, TakeView(e) PROVE Retained \/ (keep' = keep /\ (AtRest(d)' => AtRest(d)))
  BY <1>12 DEF TakeView, Goto
<1>13. ASSUME NEW e \in Dep, SaveFinal(e) PROVE Retained \/ (keep' = keep /\ (AtRest(d)' => AtRest(d)))
  BY <1>13 DEF SaveFinal, Goto
<1>14. ASSUME NEW e \in Dep, PruneFinished(e) PROVE Retained \/ (keep' = keep /\ (AtRest(d)' => AtRest(d)))
  <2>1. registry' = registry \ Oldest(registry, state', keep') /\ registry \subseteq Dep
    BY <1>14 DEF PruneFinished, Drop
  <2>2. QED
    BY <2>1 DEF Retained
<1>15. ASSUME NEW e \in Dep, CloseDone(e) PROVE Retained \/ (keep' = keep /\ (AtRest(d)' => AtRest(d)))
  BY <1>15 DEF CloseDone, Goto
<1>16. ASSUME NEW e \in Dep, RemoveView(e) PROVE Retained \/ (keep' = keep /\ (AtRest(d)' => AtRest(d)))
  BY <1>16 DEF RemoveView
<1>17. ASSUME NEW e \in Dep, RemoveMark(e) PROVE Retained \/ (keep' = keep /\ (AtRest(d)' => AtRest(d)))
  BY <1>17 DEF RemoveMark
<1>18. ASSUME NEW e \in Dep, RemovePersist(e) PROVE Retained \/ (keep' = keep /\ (AtRest(d)' => AtRest(d)))
  BY <1>18 DEF RemovePersist
<1>19. ASSUME NEW e \in Dep, Cancel(e) PROVE Retained \/ (keep' = keep /\ (AtRest(d)' => AtRest(d)))
  BY <1>19 DEF Cancel, Canceling
<1>20. ASSUME NEW e \in Dep, RemoveBegin(e) PROVE Retained \/ (keep' = keep /\ (AtRest(d)' => AtRest(d)))
  BY <1>20 DEF RemoveBegin, Canceling
<1>21. ASSUME NEW e \in Dep, Delete(e) PROVE Retained \/ (keep' = keep /\ (AtRest(d)' => AtRest(d)))
  <2>1. keep' = keep /\ UNCHANGED <<pc, state>> /\ registry' \subseteq registry
    BY <1>21 DEF Delete, Drop
  <2>2. QED
    BY <2>1
<1>22. CASE (\E plan \in Plans : Start(plan)) \/ (\E e \in Dep : Retry(e) \/ RetryWire(e))
  <2>1. PICK s \in Specs, ids \in [Nodes -> Refs] : Entered(s, ids)
    BY <1>22, EnteredShape
  <2>2. QED
    BY <2>1 DEF Entered
<1>23. ASSUME NEW e \in Dep, Attach(e) \/ PowerOn(e) \/ SendKeys(e) PROVE Retained \/ (keep' = keep /\ (AtRest(d)' => AtRest(d)))
  <2>1. CASE NextCall(e)
    BY <2>1 DEF NextCall
  <2>2. CASE NodeDone(e)
    BY <2>2 DEF NodeDone
  <2>3. QED
    BY <1>23, <2>1, <2>2, NodeShape
<1>24. ASSUME NEW e \in Dep, NEW m \in Nodes, ResolveIP(e, m) PROVE Retained \/ (keep' = keep /\ (AtRest(d)' => AtRest(d)))
  <2>1. PICK v \in VM : Resolves(e, m, v)
    BY <1>24, ResolveShape
  <2>2. QED
    BY <2>1 DEF Resolves
<1>25. ASSUME NEW e \in Dep, NEW v \in VM, DestroyVM(e, v) PROVE Retained \/ (keep' = keep /\ (AtRest(d)' => AtRest(d)))
  BY <1>25 DEF DestroyVM
<1>26. ASSUME NEW k \in KeepChoices, SetKeepCompleted(k) PROVE Retained \/ (keep' = keep /\ (AtRest(d)' => AtRest(d)))
  <2>1. registry' = registry \ Oldest(registry, state', keep') /\ registry \subseteq Dep
    BY <1>26 DEF SetKeepCompleted, Drop
  <2>2. QED
    BY <2>1 DEF Retained
<1>27. ASSUME NEW e \in Dep, AllDeployed(e) PROVE Retained \/ (keep' = keep /\ (AtRest(d)' => AtRest(d)))
  <2>1. CASE LoopStops(e)
    BY <2>1 DEF LoopStops, Stop
  <2>2. CASE LoopResolves(e)
    BY <2>2 DEF LoopResolves
  <2>3. QED
    BY <1>27, <2>1, <2>2, AllDeployedShape
<1>28. CASE Shutdown
  BY <1>28 DEF Shutdown
<1>29. CASE Restart
  <2>1. keep' = keep
    BY <1>29 DEF Restart
  <2>2. CASE Unreadable
    BY <2>1, <2>2 DEF Unreadable
  <2>3. CASE Reloaded(Oldest({x \in Dep : row[x] # NoRow}, [x \in Dep |-> Loaded(x)], keep))
    <3>1. registry' = {x \in Dep : row[x] # NoRow} \ Oldest({x \in Dep : row[x] # NoRow}, state', keep')
      BY <2>1, <2>3 DEF Reloaded
    <3>2. QED
      BY <3>1 DEF Retained
  <2>4. QED
    BY <1>29, <2>2, <2>3, RestartShape
<1>30. CASE UNCHANGED vars
  BY <1>30 DEF vars
<1>31. QED
  BY <1>1, <1>2, <1>3, <1>4, <1>5, <1>6, <1>7, <1>8, <1>9, <1>10, <1>11, <1>12, <1>13, <1>14,
     <1>15, <1>16, <1>17, <1>18, <1>19, <1>20, <1>21, <1>22, <1>23, <1>24, <1>25, <1>26, <1>27,
     <1>28, <1>29, <1>30, Zenon
     DEF Next, Request, Run, Remove

\* The number of finished deployments.
LEMMA BoundedStep ==
    ASSUME Typed, Typed', \A d \in Dep : Agreed(d), FinishedBounded, [Next]_vars
    PROVE  FinishedBounded'
<1>1. \A d \in Dep : Types /\ \A x \in Dep : Placed(x)
  BY DEF Typed
<1>2. \A d \in Dep : Retained \/ (keep' = keep /\ (AtRest(d)' => AtRest(d)))
  BY <1>1, RestStep
<1>3. CASE Retained
  BY <1>3, RetainedBounded
<1>4. CASE keep' = keep /\ \A d \in Dep : AtRest(d)' => AtRest(d)
  BY <1>4, NoneMoreBounded
<1>5. CASE Dep = {}
  <2>1. registry' = {} /\ keep' \in Nat
    BY <1>5, Numbers DEF Typed, Types
  <2>2. {d \in registry' : state'[d] \in Final /\ pc'[d] \in Over \cup {"pruned"}} = {}
    BY <2>1
  <2>3. QED
    BY <2>1, <2>2, FS_EmptySet DEF FinishedBounded
<1>6. QED
  BY <1>2, <1>3, <1>4, <1>5

-----------------------------------------------------------------------------
(* The invariant. *)

\* It holds at the first start.
LEMMA ManagerInvInit == Init => ManagerInv
<1> SUFFICES ASSUME Init PROVE ManagerInv
  OBVIOUS
<1>1. NoRow \in Rows /\ NoVMs \in [Nodes -> Refs] /\ NoCells \in [Nodes -> Place] /\ NoSpec \in Specs
  BY Numbers DEF NoRow, NoVMs, NoCells, NoSpec, NoPlan, PlanSet, Specs, Place, Rows
<1>2. Types
  <2>1. /\ last \in Nat /\ last <= MaxDeploy /\ registry \subseteq Dep /\ \A d \in registry : d <= last
        /\ keep \in KeepChoices /\ restarts \in Nat
    <3>1. last = 0 /\ registry = {} /\ keep \in KeepChoices /\ restarts = 0
      BY DEF Init
    <3>2. QED
      BY <3>1, Numbers
  <2>2. /\ pc \in [Dep -> Live \cup Over \cup {"unused"}] /\ state \in [Dep -> Active \cup Final \cup {"none"}]
        /\ canceled \in [Dep -> BOOLEAN] /\ ctx \in [Dep -> {"none", "live", "done"}]
        /\ pending \in [Dep -> SUBSET (Nodes \X VM)] /\ todo \in [Dep -> SUBSET VM]
        /\ remover \in [Dep -> {"none", "waiting", "destroying", "marked"}]
        /\ vms \in [VM -> {"absent", "building", "made", "orphan"}]
        /\ gaveUp \in [Dep -> BOOLEAN] /\ leftover \in [Dep -> BOOLEAN]
        /\ stopping \in BOOLEAN /\ faulted \in BOOLEAN
    BY DEF Init
  <2>3. at \in [Dep -> Nat \ {0}] /\ \A d \in Dep : at[d] <= Cardinality(Nodes) + 1
    BY Numbers DEF Init
  <2>4. /\ vmid = [d \in Dep |-> NoVMs] /\ spec = [d \in Dep |-> NoSpec] /\ cells = [d \in Dep |-> NoCells]
        /\ snap = [d \in Dep |-> NoRow] /\ row = [d \in Dep |-> NoRow]
    BY DEF Init, NoVMs
  <2>5. QED
    BY <1>1, <2>1, <2>2, <2>3, <2>4 DEF Types
<1>3. \A d \in Dep : Placed(d)
  BY Numbers DEF Init, Placed, Calls, NoSpec
<1>4. Typed
  BY <1>2, <1>3 DEF Typed
<1>5. \A d \in Dep : Agreed(d) /\ RemoverAlone(d)
  BY DEF Init, Agreed, RemoverAlone, Started, Calls, Ending
<1>6. \A d \in Dep : RowBehind(d) /\ RowSaved(d)
  BY DEF Init, RowBehind, RowSaved, Active, Final, NoRow
<1>7. \A d \in Dep : Deployed(d) /\ \A n \in Nodes : Accounted(d, n)
  BY Numbers DEF Init, Deployed, Accounted, NoSpec
<1>8. FinishedBounded
  <2>1. {d \in registry : state[d] \in Final /\ pc[d] \in Over \cup {"pruned"}} = {} /\ keep \in Nat
    BY Numbers DEF Init
  <2>2. QED
    BY <2>1, FS_EmptySet DEF FinishedBounded
<1>9. QED
  BY <1>4, <1>5, <1>6, <1>7, <1>8 DEF ManagerInv

\* And every step keeps it.
LEMMA ManagerInvStep == ManagerInv /\ [Next]_vars => ManagerInv'
<1> SUFFICES ASSUME ManagerInv, [Next]_vars PROVE ManagerInv'
  OBVIOUS
<1>1. Typed /\ Types /\ \A x \in Dep : Placed(x)
  BY DEF ManagerInv, Typed
<1>2. Typed'
  BY <1>1, TypedStep
<1>3. ASSUME NEW d \in Dep
      PROVE  (Agreed(d) /\ RemoverAlone(d) /\ RowBehind(d) /\ RowSaved(d) /\ Deployed(d))'
  <2>1. Agreed(d) /\ RemoverAlone(d) /\ RowBehind(d) /\ RowSaved(d) /\ Deployed(d)
    BY DEF ManagerInv
  <2>2. QED
    BY <1>1, <2>1, AgreedStep, RemoverStep, RowBehindStep, RowSavedStep, DeployedStep
<1>4. ASSUME NEW d \in Dep, NEW n \in Nodes PROVE Accounted(d, n)'
  <2>1. Agreed(d) /\ RemoverAlone(d) /\ Accounted(d, n)
    BY DEF ManagerInv
  <2>2. QED
    BY <1>1, <2>1, AccountedStep
<1>5. FinishedBounded'
  BY <1>1, <1>2, BoundedStep DEF ManagerInv
<1>6. QED
  BY <1>2, <1>3, <1>4, <1>5 DEF ManagerInv

\* So it is an invariant.
LEMMA ManagerInvariant == Spec => []ManagerInv
<1>1. Init => ManagerInv
  BY ManagerInvInit
<1>2. ManagerInv /\ [Next]_vars => ManagerInv'
  BY ManagerInvStep
<1>3. QED
  BY <1>1, <1>2, PTL DEF Spec

-----------------------------------------------------------------------------
(* What it means. *)

\* Every variable keeps its type; in particular what was reloaded after a restart has no
\* specification, and no more deployments are listed than were started.
THEOREM TypeCorrect == Spec => []TypeOK
<1>1. ManagerInv => TypeOK
  BY TypesSame DEF ManagerInv, Typed
<1>2. QED
  BY <1>1, ManagerInvariant, PTL

\* A VM whose creation was reported is in the record of its deployment until it is destroyed,
\* however a Remove, a Cancel and the failing calls of deployNode fall between the two.
THEOREM CreatedVMsAreRecorded == Spec => []VMsAccounted
<1>1. ManagerInv => VMsAccounted
  BY DEF ManagerInv, Accounted, Typed, Types, VMsAccounted
<1>2. QED
  BY <1>1, ManagerInvariant, PTL

\* What looks active has a goroutine that will end it, and the row of a deployment at rest is
\* its record: the row that persist wrote last was taken from the record as it still is.
THEOREM RowsFollowRecords == Spec => []RowTracksRecord
<1>1. ASSUME ManagerInv, NEW d \in registry
      PROVE  /\ state[d] \in Active => pc[d] \in Live
             /\ pc[d] \in Over \cup {"saved", "pruned"} /\ remover[d] # "marked"
                  /\ ~faulted /\ ~gaveUp[d] => row[d] = View(d)
  <2>1. d \in Dep /\ d <= last /\ last \in Nat /\ d \in Nat
    BY <1>1, Numbers DEF ManagerInv, Typed, Types
  <2>2. pc[d] # "unused" /\ pc[d] \in Live \cup Over \cup {"unused"}
    <3>1. ~(d > last)
      BY <2>1
    <3>2. QED
      BY <1>1, <2>1, <3>1 DEF ManagerInv, Typed, Types, Placed
  <2>3. Agreed(d) /\ RowSaved(d)
    BY <1>1, <2>1 DEF ManagerInv
  <2>4. state[d] \in Active => pc[d] \in Live
    BY <1>1, <2>2, <2>3 DEF Agreed, Active, Final, Live, Over, Ending
  <2>5. QED
    BY <1>1, <2>3, <2>4 DEF RowSaved
<1>2. ManagerInv => RowTracksRecord
  BY <1>1 DEF RowTracksRecord
<1>3. QED
  BY <1>2, ManagerInvariant, PTL

\* The wiring of a full run gets an address and a VM for every node, whichever other runs
\* deploy or resolve nodes of the same array at the time.
THEOREM WiringGetsAddresses == Spec => []WiredWithIPs
<1>1. ASSUME ManagerInv, NEW d \in 1 .. last, pc[d] = "wire", spec[d].kind = "full", NEW n \in Nodes
      PROVE  Cell(d)[n].ip # NoIP /\ Cell(d)[n].ref # NoVM
  <2>1. d \in Dep
    <3>1. last \in Nat /\ last <= MaxDeploy
      BY <1>1 DEF ManagerInv, Typed, Types
    <3>2. QED
      BY <3>1, Numbers
  <2>2. Deployed(d)
    BY <1>1, <2>1 DEF ManagerInv
  <2>3. at[d] \notin Nodes /\ at[d] \in Nat /\ at[d] # 0
    BY <1>1, <2>1, <2>2 DEF Deployed, ManagerInv, Typed, Types
  <2>4. n < at[d]
    <3>1. n \in Nat /\ n <= Cardinality(Nodes) /\ Cardinality(Nodes) \in Nat
      BY Numbers
    <3>2. at[d] > Cardinality(Nodes)
      BY <2>3, Numbers
    <3>3. QED
      BY <2>3, <3>1, <3>2
  <2>5. QED
    BY <1>1, <2>2, <2>4 DEF Deployed
<1>2. ManagerInv => WiredWithIPs
  BY <1>1 DEF WiredWithIPs
<1>3. QED
  BY <1>2, ManagerInvariant, PTL

\* Retention needs no later request: what is at rest never exceeds the cap.
THEOREM RetentionHolds == Spec => []FinishedBounded
<1>1. ManagerInv => FinishedBounded
  BY DEF ManagerInv
<1>2. QED
  BY <1>1, ManagerInvariant, PTL


-----------------------------------------------------------------------------
(* What a client sees is the lifecycle of DeployLifecycle. *)

\* A step of the lifecycle, or none.
ClientStep == Lifecycle!LNext \/ UNCHANGED <<Shown, canceled, gaveUp, restarts>>

\* A listed deployment is shown in its state.
LEMMA ShownListed ==
    ASSUME Types
    PROVE  /\ \A d \in registry : d \in Dep /\ Shown[d] = state[d]
           /\ \A d \in Dep : d > last => Shown[d] = "new"
           /\ \A d \in Dep : d <= last /\ d \notin registry => Shown[d] = "absent"
           /\ \A d \in Dep : d \in registry \/ d > last \/ (d <= last /\ d \notin registry)
<1>1. last \in Nat /\ \A d \in Dep : d \in Nat
  BY Numbers DEF Types
<1>2. \A d \in registry : d \in Dep /\ ~(d > last)
  BY <1>1 DEF Types
<1>3. \A d \in Dep : d <= last => ~(d > last)
  BY <1>1
<1>4. \A d \in Dep : d > last \/ d <= last
  BY <1>1
<1>5. QED
  BY <1>2, <1>3, <1>4 DEF Shown

\* A change of the state of one deployment is seen, if it is listed.
LEMMA StateShown ==
    ASSUME Types, NEW d \in Dep, NEW v, UNCHANGED <<last, registry>>, state' = [state EXCEPT ![d] = v]
    PROVE  IF d \in registry THEN Shown[d] = state[d] /\ Shown' = [Shown EXCEPT ![d] = v] ELSE UNCHANGED Shown
<1>1. \A e \in Dep : state'[e] = IF e = d THEN v ELSE state[e]
  BY DEF Types
<1>2. \A e \in registry : ~(e > last) /\ e \in Dep
  <2>1. \A e \in registry : e \in Nat /\ last \in Nat /\ e <= last /\ e \in Dep
    BY Numbers DEF Types
  <2>2. QED
    BY <2>1
<1>3. QED
  BY <1>1, <1>2 DEF Shown

\* Verdicts and marks are what a deployment ends in.
LEMMA Settles ==
    /\ Lifecycle!Settled = Final /\ Lifecycle!Verdict = Final \ {"removed"}
    /\ \A d : d \in Lifecycle!Listed <=> d \in Dep /\ Shown[d] \notin {"new", "absent"}
BY DEF Lifecycle!Settled, Lifecycle!Verdict, Lifecycle!Listed, Final

\* The run of d is over with outcome o.
LEMMA StopShown ==
    ASSUME Types, NEW d \in Dep, Agreed(d), pc[d] \in Started, NEW o \in Final \ {"removed"},
           o = "canceled" => canceled[d], Stop(d, o), UNCHANGED <<last, registry, canceled, gaveUp, restarts>>
    PROVE  ClientStep
<1>1. CASE d \in registry
  <2>1. Shown[d] = state[d] /\ Shown' = [Shown EXCEPT ![d] = o]
    BY <1>1, StateShown DEF Stop
  <2>2. state[d] = "running" \/ (gaveUp[d] /\ state[d] = "removed")
    BY DEF Agreed
  <2>3. Lifecycle!Conclude(d, o)
    BY <2>1, <2>2 DEF Lifecycle!Conclude, Lifecycle!In, Lifecycle!Becomes
  <2>4. QED
    BY <2>3, Settles DEF ClientStep, Lifecycle!LNext
<1>2. CASE d \notin registry
  BY <1>2, StateShown DEF ClientStep, Stop
<1>3. QED
  BY <1>1, <1>2

\* Cancel and Remove ask for a stop.
LEMMA AskShown ==
    ASSUME Types, NEW d \in registry, Agreed(d), Canceling(d), UNCHANGED <<last, registry, state, gaveUp, restarts>>
    PROVE  ClientStep
<1>1. UNCHANGED Shown
  BY DEF Shown
<1>2. d \in Dep /\ canceled' = [canceled EXCEPT ![d] = canceled[d] \/ pc[d] \in Live \ Ending]
  BY DEF Canceling, Types
<1>3. CASE canceled[d] \/ pc[d] \in Live \ Ending
  <2>1. Shown[d] = state[d] /\ state[d] # "none" /\ state[d] \in Active \cup Final \cup {"none"}
    BY <1>2, ShownListed DEF Agreed, Types
  <2>2. d \in Lifecycle!Listed
    BY <1>2, <2>1, Settles DEF Active, Final
  <2>3. canceled' = [canceled EXCEPT ![d] = TRUE]
    BY <1>2, <1>3
  <2>4. Lifecycle!Ask(d)
    BY <1>1, <2>2, <2>3 DEF Lifecycle!Ask
  <2>5. QED
    BY <1>2, <2>4 DEF ClientStep, Lifecycle!LNext
<1>4. CASE ~(canceled[d] \/ pc[d] \in Live \ Ending)
  <2>1. canceled[d] = FALSE /\ canceled \in [Dep -> BOOLEAN]
    BY <1>2, <1>4 DEF Types
  <2>2. canceled' = [canceled EXCEPT ![d] = canceled[d]]
    BY <1>2, <1>4, <2>1
  <2>4. canceled' = canceled
    BY <2>1, <2>2, Zenon
  <2>3. QED
    BY <1>1, <2>4 DEF ClientStep
<1>5. QED
  BY <1>3, <1>4

\* Finished deployments leave the list.
LEMMA DropShown ==
    ASSUME Types, NEW D \in SUBSET registry, \A d \in D : state[d] \in Final, registry' = registry \ D,
           UNCHANGED <<last, state, canceled, gaveUp, restarts>>
    PROVE  ClientStep
<1>1. \A d \in D : d \in Dep /\ Shown[d] \in Lifecycle!Settled
  BY ShownListed, Settles
<1>2. D \in SUBSET {d \in Dep : Shown[d] \in Lifecycle!Settled}
  BY <1>1
<1>3. Shown' = [d \in Dep |-> IF d \in D THEN "absent" ELSE Shown[d]]
  <2>1. \A d \in registry : ~(d > last)
    <3>1. \A d \in registry : d \in Nat /\ last \in Nat /\ d <= last
      BY Numbers DEF Types
    <3>2. QED
      BY <3>1
  <2>2. QED
    BY <2>1 DEF Shown
<1>4. Lifecycle!Forget
  BY <1>2, <1>3 DEF Lifecycle!Forget
<1>5. QED
  BY <1>4 DEF ClientStep, Lifecycle!LNext

\* A restart shows the rows, and the unfinished ones as failed.
LEMMA RebootShown == ManagerInv /\ Restart => ClientStep
<1> SUFFICES ASSUME ManagerInv, Restart PROVE ClientStep
  OBVIOUS
<1>1. Types /\ Typed /\ last \in Nat /\ (\A d \in Dep : d \in Nat) /\ registry \subseteq Dep
  BY Numbers DEF ManagerInv, Typed, Types
<1>2. /\ last' = last /\ restarts' = restarts + 1
      /\ canceled' = [d \in Dep |-> FALSE] /\ gaveUp' = [d \in Dep |-> FALSE]
  BY DEF Restart
<1>3. \A d \in Dep : d \in registry' => state'[d] = Loaded(d) /\ row[d] # NoRow
  <2>1. CASE Unreadable
    BY <2>1 DEF Unreadable
  <2>2. ASSUME NEW old, Reloaded(old) PROVE \A d \in Dep : d \in registry' => state'[d] = Loaded(d) /\ row[d] # NoRow
    BY <2>2 DEF Reloaded
  <2>3. QED
    BY <1>1, <2>1, <2>2, RestartShape
<1>4. ASSUME NEW d \in Dep
      PROVE  /\ Shown'[d] \in Final \cup {"new", "absent"}
             /\ Shown'[d] = "new" <=> Shown[d] = "new"
             /\ Shown[d] \in {"pending", "running"} /\ ~gaveUp[d] => Shown'[d] \in {"failed", "absent"}
             /\ Shown[d] \in Final \ {"removed"} /\ ~gaveUp[d] => Shown'[d] \in {Shown[d], "failed", "absent"}
  <2>1. RowBehind(d) /\ row[d] \in Rows /\ gaveUp[d] \in BOOLEAN /\ state[d] \in Active \cup Final \cup {"none"}
    BY <1>1 DEF ManagerInv, Types
  <2>2. Shown'[d] = IF d > last THEN "new" ELSE IF d \in registry' THEN state'[d] ELSE "absent"
    BY <1>2 DEF Shown
  <2>3. Shown[d] = IF d > last THEN "new" ELSE IF d \in registry THEN state[d] ELSE "absent"
    BY DEF Shown
  <2>4. CASE d > last
    BY <2>2, <2>3, <2>4 DEF Final
  <2>5. CASE ~(d > last) /\ d \notin registry'
    BY <2>1, <2>2, <2>3, <2>5 DEF Active, Final
  <2>6. CASE ~(d > last) /\ d \in registry'
    <3>1. Shown'[d] = Loaded(d) /\ row[d].state # "none" /\ row[d].state \in Active \cup Final \cup {"none"}
      BY <1>3, <2>1, <2>2, <2>6 DEF RowBehind, Rows
    <3>2. Loaded(d) = IF row[d].state \in Active THEN "failed" ELSE row[d].state
      BY DEF Loaded
    <3>3. /\ ~gaveUp[d] /\ state[d] \in Active => row[d].state \in Active \cup {"none"}
          /\ ~gaveUp[d] /\ state[d] \in Final \ {"removed"} => row[d].state \in Active \cup {"none", state[d]}
      BY <2>1 DEF RowBehind
    <3>4. Shown[d] \in {state[d], "absent"}
      BY <2>3, <2>6
    <3>5. QED
      BY <2>1, <3>1, <3>2, <3>3, <3>4 DEF Active, Final
  <2>7. QED
    BY <2>4, <2>5, <2>6
<1>5. Shown' \in [Dep -> Lifecycle!Settled \cup {"new", "absent"}]
  <2>1. Shown' = [d \in Dep |-> Shown'[d]]
    BY DEF Shown
  <2>2. \A d \in Dep : Shown'[d] \in Lifecycle!Settled \cup {"new", "absent"}
    BY <1>4, Settles
  <2> DEFINE S == Shown'
  <2>3. S = [d \in Dep |-> S[d]] /\ \A d \in Dep : S[d] \in Lifecycle!Settled \cup {"new", "absent"}
    BY <2>1, <2>2
  <2> HIDE DEF S
  <2>4. S \in [Dep -> Lifecycle!Settled \cup {"new", "absent"}]
    BY <2>3
  <2>5. QED
    BY <2>4 DEF S
<1>6. \A d \in Dep : Lifecycle!AfterReboot(d)
  BY <1>4, Settles DEF Lifecycle!AfterReboot
<1>7. Lifecycle!Reboot
  BY <1>2, <1>5, <1>6 DEF Lifecycle!Reboot
<1>8. QED
  BY <1>7 DEF ClientStep, Lifecycle!LNext


\* Every step maps to a step of the lifecycle or to none.
LEMMA EveryStepIsAClientStep ==
    ASSUME ManagerInv, Typed, Types, \A x \in Dep : Placed(x) /\ Agreed(x) /\ RemoverAlone(x),
           [Next]_vars
    PROVE  ClientStep
<1> USE DEF run, record, memory, rm, env
<1>1. ASSUME NEW e \in Dep, PersistPending(e) PROVE ClientStep
  BY <1>1 DEF PersistPending, Goto, ClientStep, Shown, Save
<1>2. ASSUME NEW e \in Dep, RunBegin(e) PROVE ClientStep
  <2>1. /\ pc[e] = "spawned" /\ state' = [state EXCEPT ![e] = "running"]
        /\ UNCHANGED <<last, registry, canceled, gaveUp, restarts>>
    BY <1>2 DEF RunBegin, Goto
  <2>2. CASE e \in registry
    <3>1. Shown[e] = state[e] /\ Shown' = [Shown EXCEPT ![e] = "running"]
      BY <2>1, <2>2, StateShown
    <3>2. state[e] = "pending" \/ (gaveUp[e] /\ state[e] = "removed")
      BY <2>1 DEF Agreed
    <3>3. Lifecycle!Begin(e)
      BY <2>1, <3>1, <3>2 DEF Lifecycle!Begin, Lifecycle!In, Lifecycle!Becomes
    <3>4. QED
      BY <3>3 DEF ClientStep, Lifecycle!LNext
  <2>3. CASE e \notin registry
    BY <2>1, <2>3, StateShown DEF ClientStep
  <2>4. QED
    BY <2>2, <2>3
<1>3. ASSUME NEW e \in Dep, StopSignal(e) PROVE ClientStep
  BY <1>3 DEF StopSignal, ClientStep, Shown
<1>4. ASSUME NEW e \in Dep, NodeBegin(e) PROVE ClientStep
  BY <1>4 DEF NodeBegin, Goto, ClientStep, Shown
<1>5. ASSUME NEW e \in Dep, UploadISO(e) PROVE ClientStep
  BY <1>5 DEF UploadISO, Goto, ClientStep, Shown
<1>6. ASSUME NEW e \in Dep, CreateVM(e) PROVE ClientStep
  BY <1>6 DEF CreateVM, Goto, ClientStep, Shown
<1>7. ASSUME NEW e \in Dep, Created(e) PROVE ClientStep
  BY <1>7 DEF Created, Goto, ClientStep, Shown
<1>8. ASSUME NEW e \in Dep, NodeFail(e) PROVE ClientStep
  <2>1. pc[e] \in Started /\ (IF canceled[e] THEN "canceled" ELSE "failed") \in Final \ {"removed"} /\ ((IF canceled[e] THEN "canceled" ELSE "failed") = "canceled" => canceled[e])
    BY <1>8 DEF NodeFail, Started, Calls, Final
  <2>2. Stop(e, (IF canceled[e] THEN "canceled" ELSE "failed")) /\ UNCHANGED <<last, registry, canceled, gaveUp, restarts>>
    BY <1>8 DEF NodeFail
  <2>3. QED
    BY <2>1, <2>2, StopShown
<1>9. ASSUME NEW e \in Dep, WireBegin(e) PROVE ClientStep
  BY <1>9 DEF WireBegin, Goto, ClientStep, Shown
<1>10. ASSUME NEW e \in Dep, WireFail(e) PROVE ClientStep
  <2>1. pc[e] \in Started /\ (IF canceled[e] THEN "canceled" ELSE "failed") \in Final \ {"removed"} /\ ((IF canceled[e] THEN "canceled" ELSE "failed") = "canceled" => canceled[e])
    BY <1>10 DEF WireFail, Started, Calls, Final
  <2>2. Stop(e, (IF canceled[e] THEN "canceled" ELSE "failed")) /\ UNCHANGED <<last, registry, canceled, gaveUp, restarts>>
    BY <1>10 DEF WireFail
  <2>3. QED
    BY <2>1, <2>2, StopShown
<1>11. ASSUME NEW e \in Dep, Wired(e) PROVE ClientStep
  <2>1. pc[e] \in Started /\ "done" \in Final \ {"removed"} /\ ("done" = "canceled" => canceled[e])
    BY <1>11 DEF Wired, Started, Calls, Final
  <2>2. Stop(e, "done") /\ UNCHANGED <<last, registry, canceled, gaveUp, restarts>>
    BY <1>11 DEF Wired
  <2>3. QED
    BY <2>1, <2>2, StopShown
<1>12. ASSUME NEW e \in Dep, TakeView(e) PROVE ClientStep
  BY <1>12 DEF TakeView, Goto, ClientStep, Shown
<1>13. ASSUME NEW e \in Dep, SaveFinal(e) PROVE ClientStep
  BY <1>13 DEF SaveFinal, Goto, ClientStep, Shown, Save
<1>14. ASSUME NEW e \in Dep, PruneFinished(e) PROVE ClientStep
  <2> DEFINE D == Oldest(registry, state, keep)
  <2>1. D \in SUBSET registry /\ \A d \in D : state[d] \in Final
    BY <1>14, OldestFinished DEF PruneFinished
  <2>2. registry' = registry \ D /\ UNCHANGED <<last, state, canceled, gaveUp, restarts>>
    BY <1>14 DEF PruneFinished, Drop
  <2>3. QED
    BY <2>1, <2>2, DropShown
<1>15. ASSUME NEW e \in Dep, CloseDone(e) PROVE ClientStep
  BY <1>15 DEF CloseDone, Goto, ClientStep, Shown
<1>16. ASSUME NEW e \in Dep, RemoveView(e) PROVE ClientStep
  <2>1. /\ gaveUp' = [gaveUp EXCEPT ![e] = gaveUp[e] \/ pc[e] \notin Over]
        /\ UNCHANGED <<last, registry, state, canceled, restarts>>
    BY <1>16 DEF RemoveView
  <2>2. UNCHANGED Shown
    BY <2>1 DEF Shown
  <2>3. CASE gaveUp[e] \/ pc[e] \notin Over
    <3>1. gaveUp' = [gaveUp EXCEPT ![e] = TRUE]
      BY <2>1, <2>3
    <3>2. Lifecycle!GiveUp(e)
      BY <2>1, <2>2, <3>1 DEF Lifecycle!GiveUp
    <3>3. QED
      BY <3>2 DEF ClientStep, Lifecycle!LNext
  <2>4. CASE ~(gaveUp[e] \/ pc[e] \notin Over)
    <3>1. gaveUp[e] = FALSE /\ gaveUp \in [Dep -> BOOLEAN]
      BY <2>4 DEF Types
    <3>2. gaveUp' = [gaveUp EXCEPT ![e] = gaveUp[e]]
      BY <2>1, <2>4, <3>1
    <3>3. gaveUp' = gaveUp
      BY <3>1, <3>2, Zenon
    <3>4. QED
      BY <2>1, <2>2, <3>3 DEF ClientStep
  <2>5. QED
    BY <2>3, <2>4
<1>17. ASSUME NEW e \in Dep, RemoveMark(e) PROVE ClientStep
  <2>1. /\ remover[e] = "destroying" /\ state' = [state EXCEPT ![e] = "removed"]
        /\ UNCHANGED <<last, registry, canceled, gaveUp, restarts>>
    BY <1>17 DEF RemoveMark
  <2>2. CASE e \in registry
    <3>1. Shown[e] = state[e] /\ Shown' = [Shown EXCEPT ![e] = "removed"]
      BY <2>1, <2>2, StateShown
    <3>2. ~gaveUp[e] => state[e] \in Final
      BY <2>1 DEF RemoverAlone, Agreed, Over
    <3>3. e \in Lifecycle!Listed
      <4>1. state[e] \in Active \cup Final \cup {"none"} /\ state[e] # "none"
        BY <2>2 DEF Agreed, Types
      <4>2. QED
        BY <3>1, <4>1, Settles DEF Active, Final
    <3>4. Lifecycle!Mark(e)
      BY <2>1, <3>1, <3>2, <3>3, Settles DEF Lifecycle!Mark, Lifecycle!Becomes
    <3>5. QED
      BY <3>4 DEF ClientStep, Lifecycle!LNext
  <2>3. CASE e \notin registry
    BY <2>1, <2>3, StateShown DEF ClientStep
  <2>4. QED
    BY <2>2, <2>3
<1>18. ASSUME NEW e \in Dep, RemovePersist(e) PROVE ClientStep
  BY <1>18 DEF RemovePersist, ClientStep, Shown, Save
<1>19. ASSUME NEW e \in Dep, Cancel(e) PROVE ClientStep
  <2>1. e \in registry /\ Canceling(e) /\ UNCHANGED <<last, registry, state, gaveUp, restarts>>
    BY <1>19 DEF Cancel
  <2>2. QED
    BY <2>1, AskShown
<1>20. ASSUME NEW e \in Dep, RemoveBegin(e) PROVE ClientStep
  <2>1. e \in registry /\ Canceling(e) /\ UNCHANGED <<last, registry, state, gaveUp, restarts>>
    BY <1>20 DEF RemoveBegin
  <2>2. QED
    BY <2>1, AskShown
<1>21. ASSUME NEW e \in Dep, Delete(e) PROVE ClientStep
  <2> DEFINE D == {e}
  <2>1. D \in SUBSET registry /\ \A d \in D : state[d] \in Final
    BY <1>21, OldestFinished DEF Delete, Agreed, Types, Active, Final
  <2>2. registry' = registry \ D /\ UNCHANGED <<last, state, canceled, gaveUp, restarts>>
    BY <1>21 DEF Delete, Drop
  <2>3. QED
    BY <2>1, <2>2, DropShown
<1>22. CASE (\E plan \in Plans : Start(plan)) \/ (\E e \in Dep : Retry(e) \/ RetryWire(e))
  <2>1. PICK s \in Specs, ids \in [Nodes -> Refs] : Entered(s, ids)
    BY <1>22, EnteredShape
  <2> DEFINE d == last + 1
  <2>2. /\ d \in Dep /\ last' = d /\ state' = [state EXCEPT ![d] = "pending"] /\ registry' = registry \cup {d}
        /\ UNCHANGED <<canceled, gaveUp, restarts>>
    BY <2>1 DEF Entered
  <2>3. last \in Nat /\ \A x \in Dep : x \in Nat
    BY Numbers DEF Types
  <2>4. \A x \in Dep : x # d => (x > d <=> x > last)
    BY <2>3, Beyond
  <2>5. d > last /\ ~(d > d)
    BY <2>3
  <2> HIDE DEF d
  <2>6. Shown[d] = "new"
    BY <2>2, <2>5 DEF Shown
  <2>7. \A x \in Dep : Shown'[x] = IF x = d THEN "pending" ELSE Shown[x]
    BY <2>2, <2>4, <2>5 DEF Shown, Types
  <2>8. Shown' = [Shown EXCEPT ![d] = "pending"]
    BY <2>2, <2>7 DEF Shown
  <2>9. Lifecycle!Accept(d)
    BY <2>2, <2>6, <2>8 DEF Lifecycle!Accept, Lifecycle!Becomes
  <2>10. QED
    BY <2>2, <2>9 DEF ClientStep, Lifecycle!LNext
<1>23. ASSUME NEW e \in Dep, Attach(e) \/ PowerOn(e) \/ SendKeys(e) PROVE ClientStep
  <2>1. CASE NextCall(e)
    BY <2>1 DEF NextCall, ClientStep, Shown
  <2>2. CASE NodeDone(e)
    BY <2>2 DEF NodeDone, ClientStep, Shown
  <2>3. QED
    BY <1>23, <2>1, <2>2, NodeShape
<1>24. ASSUME NEW e \in Dep, NEW m \in Nodes, ResolveIP(e, m) PROVE ClientStep
  <2>1. PICK v \in VM : Resolves(e, m, v)
    BY <1>24, ResolveShape
  <2>2. QED
    BY <2>1 DEF Resolves, ClientStep, Shown
<1>25. ASSUME NEW e \in Dep, NEW v \in VM, DestroyVM(e, v) PROVE ClientStep
  BY <1>25 DEF DestroyVM, ClientStep, Shown
<1>26. ASSUME NEW k \in KeepChoices, SetKeepCompleted(k) PROVE ClientStep
  <2> DEFINE D == Oldest(registry, state, k)
  <2>1. D \in SUBSET registry /\ \A d \in D : state[d] \in Final
    BY <1>26, OldestFinished DEF SetKeepCompleted
  <2>2. registry' = registry \ D /\ UNCHANGED <<last, state, canceled, gaveUp, restarts>>
    BY <1>26 DEF SetKeepCompleted, Drop
  <2>3. QED
    BY <2>1, <2>2, DropShown
<1>27. ASSUME NEW e \in Dep, AllDeployed(e) PROVE ClientStep
  <2>1. CASE LoopStops(e)
    <3>1. pc[e] \in Started /\ "done" \in Final \ {"removed"} /\ ("done" = "canceled" => canceled[e])
      BY <2>1 DEF LoopStops, Started, Calls, Final
    <3>2. Stop(e, "done") /\ UNCHANGED <<last, registry, canceled, gaveUp, restarts>>
      BY <2>1 DEF LoopStops
    <3>3. QED
      BY <3>1, <3>2, StopShown
  <2>2. CASE LoopResolves(e)
    BY <2>2 DEF LoopResolves, ClientStep, Shown
  <2>3. QED
    BY <1>27, <2>1, <2>2, AllDeployedShape
<1>28. CASE Shutdown
  BY <1>28 DEF Shutdown, ClientStep, Shown
<1>29. CASE Restart
  BY <1>29, RebootShown
<1>30. CASE UNCHANGED vars
  BY <1>30 DEF vars, ClientStep, Shown
<1>31. QED
  BY <1>1, <1>2, <1>3, <1>4, <1>5, <1>6, <1>7, <1>8, <1>9, <1>10, <1>11, <1>12, <1>13, <1>14,
     <1>15, <1>16, <1>17, <1>18, <1>19, <1>20, <1>21, <1>22, <1>23, <1>24, <1>25, <1>26, <1>27,
     <1>28, <1>29, <1>30, Zenon
     DEF Next, Request, Run, Remove

\* A client that follows one id sees pending, running, a verdict and perhaps "removed", in that
\* order, "canceled" only if somebody has asked, and nothing active after a restart, whatever
\* the interleaving of the run, Cancel, Remove, Delete and retention, store faults included.
THEOREM ClientsSeeALifecycle == Spec => ImplementsLifecycle
<1>1. Init => Lifecycle!LInit
  <2>1. ASSUME Init PROVE Shown = [d \in Dep |-> "new"]
    <3>1. \A d \in Dep : d > last
      <4>1. last = 0
        BY <2>1 DEF Init
      <4>2. QED
        BY <4>1, Numbers
    <3>2. QED
      BY <3>1 DEF Shown
  <2>2. QED
    BY <2>1 DEF Init, Lifecycle!LInit
<1>2. ManagerInv /\ [Next]_vars => [Lifecycle!LNext]_(Lifecycle!lvars)
  <2> SUFFICES ASSUME ManagerInv, [Next]_vars PROVE [Lifecycle!LNext]_(Lifecycle!lvars)
    OBVIOUS
  <2>1. Typed /\ Types /\ \A d \in Dep : Placed(d) /\ Agreed(d) /\ RemoverAlone(d)
    BY DEF ManagerInv, Typed
  <2>2. ClientStep
    BY <2>1, EveryStepIsAClientStep
  <2>3. QED
    BY <2>2 DEF ClientStep, Lifecycle!lvars
<1>3. QED
  BY <1>1, <1>2, ManagerInvariant, PTL DEF Spec, ImplementsLifecycle, Lifecycle!LSpec

=============================================================================
