---------------------------- MODULE LogHub_proofs ----------------------------
(***************************************************************************)
(* Proofs about the log fan-out, for any number of goroutines that log,    *)
(* viewers and lines, and whatever the capacities of channel and ring are. *)
(***************************************************************************)
EXTENDS LogHub, SequenceTheorems, TLAPS

-----------------------------------------------------------------------------
(* Sequences. *)

\* Taking the first of t to the end of s changes nothing in s \o t.
LEMMA MoveOne ==
    ASSUME NEW S, NEW s \in Seq(S), NEW t \in Seq(S), t # <<>>
    PROVE  Append(s, Head(t)) \o Tail(t) = s \o t
OBVIOUS

\* Adding to t adds to s \o t.
LEMMA AddOne ==
    ASSUME NEW S, NEW s \in Seq(S), NEW t \in Seq(S), NEW l \in S
    PROVE  s \o Append(t, l) = Append(s \o t, l)
OBVIOUS

-----------------------------------------------------------------------------
(* The subscriber slice. *)

Elem == Stream \cup {NoStream}

\* The slice is a window on its backing array.
Slice ==
    /\ arrays \in Seq(Seq(Elem))
    /\ subs \in [arr : Nat, len : Nat] /\ subs.arr <= Len(arrays)
    /\ subs.arr = 0 => subs.len = 0
    /\ subs.arr # 0 => subs.len <= Len(arrays[subs.arr])

\* Nobody is in it twice.
Roster ==
    /\ Slice
    /\ \A i \in 1 .. subs.len : Subscribers[i] \in Stream
    /\ \A i, k \in 1 .. subs.len : Subscribers[i] = Subscribers[k] => i = k

Members == {Subscribers[i] : i \in 1 .. subs.len}

\* append puts the new subscriber at the end, in place or in a new array.
LEMMA AppendShape ==
    ASSUME Slice, NEW s \in Stream, AppendSub(s)
    PROVE  /\ Slice' /\ subs'.len = subs.len + 1 /\ Len(arrays') >= Len(arrays)
           /\ \A i \in 1 .. subs.len : Subscribers'[i] = Subscribers[i]
           /\ Subscribers'[subs.len + 1] = s
<1> DEFINE full == subs.arr = 0 \/ subs.len = Len(arrays[subs.arr])
<1>1. CASE full
  <2> DEFINE cap == IF subs.len = 0 THEN 1 ELSE 2 * subs.len
             a   == [i \in 1 .. cap |-> IF i <= subs.len THEN arrays[subs.arr][i]
                                        ELSE IF i = subs.len + 1 THEN s ELSE NoStream]
  <2>1. arrays' = Append(arrays, a) /\ subs' = [arr |-> Len(arrays) + 1, len |-> subs.len + 1]
    BY <1>1 DEF AppendSub
  <2>2. cap \in Nat /\ cap >= subs.len + 1 /\ subs.len \in Nat
    BY DEF Slice
  <2>3. \A i \in 1 .. subs.len : arrays[subs.arr][i] \in Elem
    BY DEF Slice
  <2>4. \A i \in 1 .. cap : a[i] \in Elem
    BY <2>3 DEF Elem
  <2>5. a \in Seq(Elem) /\ Len(a) = cap
    <3> DEFINE b == [i \in 1 .. cap |-> a[i]]
    <3>1. a = b
      OBVIOUS
    <3>2. \A i \in 1 .. cap : a[i] \in Elem
      BY <2>4
    <3> HIDE DEF a, cap
    <3>3. b \in Seq(Elem) /\ Len(b) = cap
      BY <2>2, <3>2
    <3>4. QED
      BY <3>1, <3>3
  <2>6. \A i \in 1 .. subs.len + 1 : a[i] = IF i <= subs.len THEN arrays[subs.arr][i] ELSE s
    BY <2>2
  <2> HIDE DEF a, cap
  <2>7. /\ arrays'[subs'.arr] = a /\ subs'.len = subs.len + 1 /\ subs'.arr = Len(arrays) + 1
        /\ Len(arrays') >= Len(arrays)
    BY <2>1, <2>5 DEF Slice
  <2>8. Slice'
    BY <2>1, <2>2, <2>5, <2>7 DEF Slice
  <2>9. QED
    BY <2>2, <2>6, <2>7, <2>8 DEF Subscribers
<1>2. CASE ~full
  <2> DEFINE A == [arrays[subs.arr] EXCEPT ![subs.len + 1] = s]
  <2>1. arrays' = [arrays EXCEPT ![subs.arr] = A] /\ subs' = [subs EXCEPT !.len = subs.len + 1]
    BY <1>2 DEF AppendSub
  <2>2. subs.arr \in 1 .. Len(arrays) /\ subs.len + 1 \in 1 .. Len(arrays[subs.arr])
        /\ arrays[subs.arr] \in Seq(Elem)
    BY <1>2 DEF Slice
  <2>3. /\ A \in Seq(Elem) /\ Len(A) = Len(arrays[subs.arr]) /\ A[subs.len + 1] = s
        /\ \A i \in 1 .. subs.len : A[i] = arrays[subs.arr][i]
    BY <2>2 DEF Elem, Slice
  <2> HIDE DEF A
  <2>4. /\ arrays' \in Seq(Seq(Elem)) /\ arrays'[subs.arr] = A
        /\ Len(arrays') = Len(arrays) /\ Len(arrays) \in Nat
    BY <2>1, <2>2, <2>3 DEF Slice
  <2>5. subs'.arr = subs.arr /\ subs'.len = subs.len + 1 /\ subs' \in [arr : Nat, len : Nat]
    BY <2>1 DEF Slice
  <2>6. Slice'
    BY <2>2, <2>3, <2>4, <2>5 DEF Slice
  <2>7. subs.len \in Nat
    BY DEF Slice
  <2>8. \A i \in 1 .. subs.len + 1 : Subscribers'[i] = A[i]
    BY <2>4, <2>5 DEF Subscribers
  <2>9. \A i \in 1 .. subs.len : Subscribers[i] = arrays[subs.arr][i] /\ i \in 1 .. subs.len + 1
    BY <2>7 DEF Subscribers
  <2>10. subs.len + 1 \in 1 .. subs.len + 1
    BY <2>7
  <2>11. \A i \in 1 .. subs.len : Subscribers'[i] = Subscribers[i]
    BY <2>3, <2>8, <2>9
  <2>12. Subscribers'[subs.len + 1] = s
    BY <2>3, <2>8, <2>10
  <2>13. Len(arrays') >= Len(arrays)
    BY <2>4
  <2>14. QED
    BY <2>5, <2>6, <2>11, <2>12, <2>13
<1>3. QED
  BY <1>1, <1>2

\* The removal moves the tail down one place.
LEMMA RemoveShape ==
    ASSUME Slice, NEW j \in 1 .. subs.len, RemoveSub(j)
    PROVE  /\ Slice' /\ subs'.len = subs.len - 1 /\ Len(arrays') = Len(arrays)
           /\ \A i \in 1 .. subs.len - 1 :
                 Subscribers'[i] = IF i < j THEN Subscribers[i] ELSE Subscribers[i + 1]
<1> DEFINE B == arrays[subs.arr]
           A == [k \in DOMAIN B |-> IF k \in j..(subs.len - 1) THEN B[k + 1] ELSE B[k]]
<1>1. arrays' = [arrays EXCEPT ![subs.arr] = A] /\ subs' = [subs EXCEPT !.len = subs.len - 1]
  BY DEF RemoveSub
<1>2. /\ subs.arr \in 1 .. Len(arrays) /\ B \in Seq(Elem) /\ subs.len \in Nat /\ subs.len <= Len(B)
      /\ subs.len > 0
  BY DEF Slice
<1>3. DOMAIN B = 1 .. Len(B) /\ Len(B) \in Nat /\ \A k \in 1 .. Len(B) : B[k] \in Elem
  BY <1>2
<1> HIDE DEF B
<1>4. DOMAIN A = 1 .. Len(B) /\ \A k \in 1 .. Len(B) : A[k] \in Elem
  BY <1>2, <1>3
<1>5. A \in Seq(Elem) /\ Len(A) = Len(B)
  <2> DEFINE C == [k \in 1 .. Len(B) |-> A[k]]
  <2>1. A = C
    BY <1>3
  <2> HIDE DEF A
  <2>2. C \in Seq(Elem) /\ Len(C) = Len(B)
    BY <1>3, <1>4
  <2>3. QED
    BY <2>1, <2>2
<1>6. \A k \in 1 .. subs.len - 1 : A[k] = IF k < j THEN B[k] ELSE B[k + 1]
  BY <1>2, <1>3
<1> HIDE DEF A
<1>7. arrays' \in Seq(Seq(Elem)) /\ Len(arrays') = Len(arrays) /\ arrays'[subs.arr] = A
  BY <1>1, <1>2, <1>5 DEF Slice
<1>8. subs'.arr = subs.arr /\ subs'.len = subs.len - 1 /\ subs' \in [arr : Nat, len : Nat]
  <2>1. subs.len - 1 \in Nat /\ subs \in [arr : Nat, len : Nat]
    BY <1>2 DEF Slice
  <2>2. QED
    BY <1>1, <2>1
<1>9. Slice'
  BY <1>2, <1>5, <1>7, <1>8 DEF Slice
<1>10. \A i \in 1 .. subs.len - 1 : Subscribers'[i] = A[i]
  BY <1>2, <1>7, <1>8 DEF Subscribers
<1>11. \A i \in 1 .. subs.len : Subscribers[i] = B[i]
  BY DEF Subscribers, B
<1>12. QED
  BY <1>2, <1>6, <1>7, <1>8, <1>9, <1>10, <1>11

\* A subscription adds one member.
LEMMA MemberJoins ==
    ASSUME Roster, NEW s \in Stream, s \notin Members, AppendSub(s)
    PROVE  Roster' /\ Members' = Members \cup {s} /\ Len(arrays') >= Len(arrays)
<1> DEFINE len == subs.len
<1>1. /\ Slice' /\ subs'.len = len + 1 /\ len \in Nat /\ Len(arrays') >= Len(arrays)
      /\ \A i \in 1 .. len : Subscribers'[i] = Subscribers[i]
      /\ Subscribers'[len + 1] = s
  BY AppendShape DEF Roster, Slice
<1>2. \A i \in 1 .. len : Subscribers[i] # s /\ Subscribers[i] \in Stream
  BY DEF Members, Roster
<1>3. \A i, k \in 1 .. len : Subscribers[i] = Subscribers[k] => i = k
  BY DEF Roster
<1> HIDE DEF len
<1>4. \A i \in 1 .. len + 1 : i \in 1 .. len \/ i = len + 1
  BY <1>1
<1>5. Roster'
  BY <1>1, <1>2, <1>3, <1>4 DEF Roster
<1>6. Members' = Members \cup {s}
  <2>1. Members = {Subscribers[i] : i \in 1 .. len}
    BY DEF Members, len
  <2>2. Members' = {Subscribers'[i] : i \in 1 .. len + 1}
    BY <1>1 DEF Members
  <2>3. len + 1 \in 1 .. len + 1 /\ \A i \in 1 .. len : i \in 1 .. len + 1
    BY <1>1
  <2>4. QED
    BY <1>1, <1>4, <2>1, <2>2, <2>3
<1>7. QED
  BY <1>1, <1>5, <1>6

\* The cancel function removes its member and closes the channel, the first time.
LEMMA MemberLeaves ==
    ASSUME Roster, NEW s \in Stream, CancelSub(s)
    PROVE  /\ Roster' /\ Members' = Members \ {s} /\ Len(arrays') = Len(arrays)
           /\ closed' = IF s \in Members THEN closed \cup {s} ELSE closed
<1>1. CASE s \in Members
  <2>0. DOMAIN Subscribers = 1 .. subs.len
    BY DEF Subscribers
  <2>1. PICK j \in 1 .. subs.len : Subscribers[j] = s /\ RemoveSub(j)
    BY <1>1, <2>0 DEF Members, CancelSub
  <2>2. closed' = closed \cup {s}
    BY <1>1, <2>0 DEF Members, CancelSub
  <2> DEFINE len == subs.len
  <2>3. /\ Slice' /\ subs'.len = len - 1 /\ len \in Nat /\ Len(arrays') = Len(arrays)
        /\ \A i \in 1 .. len - 1 :
              Subscribers'[i] = IF i < j THEN Subscribers[i] ELSE Subscribers[i + 1]
    BY <2>1, RemoveShape DEF Roster, Slice
  <2>4. \A i \in 1 .. len : Subscribers[i] \in Stream
    BY DEF Roster
  <2>5. \A i, k \in 1 .. len : Subscribers[i] = Subscribers[k] => i = k
    BY DEF Roster
  <2>6. j \in 1 .. len
    BY <2>1
  <2> HIDE DEF len
  <2>7. \A i \in 1 .. len - 1 : i \in 1 .. len /\ i + 1 \in 1 .. len
    BY <2>3
  <2>8. \A i, k \in 1 .. len - 1 : Subscribers'[i] = Subscribers'[k] => i = k
    BY <2>3, <2>5, <2>6, <2>7
  <2>9. Roster'
    BY <2>3, <2>4, <2>7, <2>8 DEF Roster
  <2>10. Members' = Members \ {s}
    <3>1. Members = {Subscribers[i] : i \in 1 .. len}
      BY DEF Members, len
    <3>2. Members' = {Subscribers'[i] : i \in 1 .. len - 1}
      BY <2>3 DEF Members
    <3>3. \A i \in 1 .. len - 1 : Subscribers'[i] \in Members \ {s}
      BY <2>1, <2>3, <2>5, <2>6, <2>7, <3>1
    <3>4. ASSUME NEW x \in Members \ {s} PROVE x \in Members'
      <4>1. PICK i \in 1 .. len : x = Subscribers[i]
        BY <3>1
      <4>2. CASE i < j
        <5>1. i \in 1 .. len - 1
          BY <2>3, <2>6, <4>2
        <5>2. QED
          BY <2>3, <3>2, <4>1, <4>2, <5>1
      <4>3. CASE i > j
        <5>1. i - 1 \in 1 .. len - 1 /\ ~(i - 1 < j) /\ (i - 1) + 1 = i
          BY <2>3, <2>6, <4>3
        <5>2. QED
          BY <2>3, <3>2, <4>1, <5>1
      <4>4. QED
        BY <2>1, <2>6, <2>3, <4>1, <4>2, <4>3
    <3>5. QED
      BY <3>2, <3>3, <3>4
  <2>11. QED
    BY <1>1, <2>2, <2>3, <2>9, <2>10
<1>2. CASE s \notin Members
  <2>1. UNCHANGED <<arrays, subs, closed>>
    BY <1>2 DEF Members, CancelSub, Subscribers
  <2>2. UNCHANGED Subscribers
    BY <2>1 DEF Subscribers
  <2>3. QED
    BY <1>2, <2>1, <2>2 DEF Roster, Slice, Members
<1>3. QED
  BY <1>1, <1>2

-----------------------------------------------------------------------------
(* The inductive invariant. *)

\* The members of the slice are the streams that are served and whose channel is open;
\* the channel of a served stream is closed by the epilogue only.
Listed(s) ==
    /\ s \in Members <=> stream[s].at = "on" /\ s \notin closed
    /\ stream[s].at = "off" => s \notin closed
    /\ stream[s].at = "on" /\ s \in closed => phase \in {"subsClosed", "done"}
    /\ stream[s].last # "active"

\* A fan-out over a copy stays within it, and the copy has nobody twice.
Fan(e) ==
    emitter[e].line # 0 =>
        /\ emitter[e].len = Len(emitter[e].copy)
        /\ emitter[e].len > 0 => emitter[e].pos <= emitter[e].len
        /\ \A i, k \in 1 .. emitter[e].len : emitter[e].copy[i] = emitter[e].copy[k] => i = k

\* Two fan-outs are of two lines.
TwoLines(e, f) == e # f /\ emitter[e].line = emitter[f].line => emitter[e].line = 0

\* The fan-out of e has still to offer its line to s.
Owes(e, s) ==
    /\ emitter[e].line # 0
    /\ \E k \in emitter[e].pos .. Len(emitter[e].copy) : emitter[e].copy[k] = s

\* What a stream was sent came after its history, each line once.
Sound(s) ==
    /\ stream[s].at = "off" => Sent(s) = <<>>
    /\ \A l \in stream[s].hist : l <= stream[s].from
    /\ \A i \in DOMAIN Sent(s) : Sent(s)[i] > stream[s].from
    /\ \A i, k \in DOMAIN Sent(s) : i # k => Sent(s)[i] # Sent(s)[k]

\* A line that is still to be offered to s came after the history of s and was not sent to it.
Flight(e, s) ==
    Owes(e, s) =>
        /\ stream[s].at # "off" /\ emitter[e].line > stream[s].from
        /\ \A i \in DOMAIN Sent(s) : Sent(s)[i] # emitter[e].line

\* Of both variants ...
HubInv == TypeOK /\ Roster /\ \A s \in Stream : Listed(s)

\* ... and of the one that copies.
CopyInv ==
    hub = "deploy" =>
        /\ \A e \in Emitter : Fan(e) /\ \A f \in Emitter : TwoLines(e, f)
        /\ \A s \in Stream : Sound(s) /\ NoGap(s) /\ \A e \in Emitter : Flight(e, s)

-----------------------------------------------------------------------------
(* What the actions do to the parts of the invariant. *)

\* AppendLine takes a new number and owes it to every member.
LEMMA AppendLineShape ==
    ASSUME TypeOK, Roster, hub = "deploy", NEW e \in Emitter, AppendLine(e)
    PROVE  /\ emitter[e].line = 0 /\ emitter'[e].line = n + 1
           /\ Fan(e)'
           /\ \A s \in Stream : ~Owes(e, s) /\ (Owes(e, s)' <=> s \in Members)
           /\ \A f \in Emitter : f # e => emitter'[f] = emitter[f]
<1>1. /\ emitter[e].line = 0 /\ n \in Nat
      /\ emitter'[e] = [line |-> n + 1, arr |-> subs.arr, len |-> subs.len, pos |-> 1,
                        copy |-> Subscribers]
      /\ \A f \in Emitter : f # e => emitter'[f] = emitter[f]
  BY DEF AppendLine, TypeOK
<1>2. subs.len \in Nat /\ Len(Subscribers) = subs.len
  BY DEF Roster, Slice, Subscribers
<1>3. \A i, k \in 1 .. subs.len : Subscribers[i] = Subscribers[k] => i = k
  BY DEF Roster
<1>4. Members = {Subscribers[i] : i \in 1 .. subs.len}
  BY DEF Members
<1>5. Fan(e)'
  BY <1>1, <1>2, <1>3 DEF Fan
<1>6. ASSUME NEW s \in Stream PROVE ~Owes(e, s) /\ (Owes(e, s)' <=> s \in Members)
  BY <1>1, <1>2, <1>4 DEF Owes
<1>7. QED
  BY <1>1, <1>5, <1>6

\* Send pays one debt.
LEMMA AdvanceShape ==
    ASSUME TypeOK, hub = "deploy", NEW e \in Emitter, Fan(e),
           emitter[e].line # 0, emitter[e].len > 0, Advance(e)
    PROVE  /\ Target(e) \in Stream /\ Owes(e, Target(e))
           /\ Fan(e)'
           /\ emitter'[e].line \in {0, emitter[e].line}
           /\ \A s \in Stream : Owes(e, s)' <=> Owes(e, s) /\ s # Target(e)
           /\ \A f \in Emitter : f # e => emitter'[f] = emitter[f]
<1> DEFINE x == emitter[e]
<1>1. /\ x \in [line : 0..n, arr : 0..Len(arrays), len : Nat, pos : Nat \ {0}, copy : Seq(Stream)]
      /\ emitter'[e] = IF x.pos = x.len THEN Idle ELSE [x EXCEPT !.pos = x.pos + 1]
      /\ \A f \in Emitter : f # e => emitter'[f] = emitter[f]
  <2>1. x \in [line : 0..n, arr : 0..Len(arrays), len : Nat, pos : Nat \ {0}, copy : Seq(Stream)]
        /\ DOMAIN emitter = Emitter
    BY DEF TypeOK
  <2>2. emitter' = [emitter EXCEPT ![e] = IF x.pos = x.len THEN Idle ELSE [x EXCEPT !.pos = x.pos + 1]]
    BY DEF Advance
  <2> HIDE DEF x
  <2>3. QED
    BY <2>1, <2>2, Zenon
<1>2. /\ x.len = Len(x.copy) /\ x.pos <= x.len
      /\ \A i, k \in 1 .. x.len : x.copy[i] = x.copy[k] => i = k
  BY DEF Fan
<1>3. Target(e) = x.copy[x.pos]
  BY DEF Target
<1>4. x.pos \in 1 .. x.len /\ x.len \in Nat /\ x.copy \in Seq(Stream)
  BY <1>1, <1>2
<1>5. Target(e) \in Stream /\ Owes(e, Target(e))
  BY <1>2, <1>3, <1>4 DEF Owes
<1>6. CASE x.pos = x.len
  <2>1. emitter'[e] = Idle
    BY <1>1, <1>6
  <2>2. emitter'[e].line = 0
    BY <2>1 DEF Idle
  <2>3. \A s \in Stream : Owes(e, s) => s = Target(e)
    BY <1>2, <1>3, <1>4, <1>6 DEF Owes
  <2>4. QED
    BY <1>1, <1>5, <2>2, <2>3 DEF Fan, Owes
<1>7. CASE x.pos # x.len
  <2>1. emitter'[e] = [x EXCEPT !.pos = x.pos + 1]
    BY <1>1, <1>7
  <2>2. /\ emitter'[e].line = x.line /\ emitter'[e].len = x.len /\ emitter'[e].copy = x.copy
        /\ emitter'[e].pos = x.pos + 1
    BY <1>1, <2>1
  <2> HIDE DEF x
  <2>3. Fan(e)'
    BY <1>2, <1>4, <1>7, <2>2 DEF Fan
  <2>4. ASSUME NEW s \in Stream PROVE Owes(e, s)' <=> Owes(e, s) /\ s # Target(e)
    <3>1. Owes(e, s)' <=> \E k \in x.pos + 1 .. x.len : x.copy[k] = s
      BY <1>2, <2>2 DEF Owes, x
    <3>2. Owes(e, s) <=> \E k \in x.pos .. x.len : x.copy[k] = s
      BY <1>2 DEF Owes, x
    <3>3. \A k \in x.pos .. x.len : x.copy[k] = Target(e) <=> k = x.pos
      BY <1>2, <1>3, <1>4
    <3>4. \A k : k \in x.pos .. x.len <=> k = x.pos \/ k \in x.pos + 1 .. x.len
      BY <1>4
    <3>5. QED
      BY <1>3, <1>4, <3>1, <3>2, <3>3, <3>4
  <2>5. QED
    BY <1>1, <1>5, <2>2, <2>3, <2>4 DEF x
<1>8. QED
  BY <1>6, <1>7

-----------------------------------------------------------------------------
(* Types. *)

\* A sequence of numbers up to m is one of numbers up to m + 1.
LEMMA SeqGrows ==
    ASSUME NEW m \in Nat, NEW q \in Seq(1 .. m)
    PROVE  q \in Seq(1 .. m + 1)
<1>1. 1 .. m \subseteq 1 .. m + 1
  OBVIOUS
<1>2. QED
  BY <1>1

\* One more line does no harm to what is typed by the lines so far.
LEMMA TypedAppend ==
    ASSUME TypeOK, Roster, NEW e \in Emitter, AppendLine(e)
    PROVE  TypeOK'
<1> USE LogHubAssumption
<1>1. /\ n \in Nat /\ n' = n + 1
      /\ UNCHANGED <<hub, arrays, subs, stream, chan, closed, dropped, phase, panicked>>
  BY DEF AppendLine, TypeOK
<1>2. emitter' \in [Emitter -> [line : 0..n + 1, arr : 0..Len(arrays), len : Nat,
                                pos : Nat \ {0}, copy : Seq(Stream)]]
  <2> DEFINE T(m) == [line : 0..m, arr : 0..Len(arrays), len : Nat, pos : Nat \ {0}, copy : Seq(Stream)]
             new == [line |-> n + 1, arr |-> subs.arr, len |-> subs.len, pos |-> 1,
                     copy |-> IF hub = "deploy" THEN Subscribers ELSE <<>>]
  <2>1. emitter' = [emitter EXCEPT ![e] = new] /\ emitter \in [Emitter -> T(n)]
    BY DEF AppendLine, TypeOK
  <2>2. Subscribers \in Seq(Stream)
    <3>1. subs.len \in Nat /\ \A i \in 1 .. subs.len : arrays[subs.arr][i] \in Stream
      BY DEF Roster, Slice, Subscribers
    <3>2. QED
      BY <3>1 DEF Subscribers
  <2>3. new \in T(n + 1)
    BY <1>1, <2>2 DEF TypeOK
  <2>4. T(n) \subseteq T(n + 1)
    BY <1>1
  <2> HIDE DEF T, new
  <2>5. emitter' \in [Emitter -> T(n + 1)]
    BY <2>1, <2>3, <2>4
  <2>6. QED
    BY <2>5 DEF T
<1>3. stream \in [Stream -> [at : {"off", "on", "ended"}, hist : SUBSET (1..n + 1),
                             from : 0..n + 1, got : Seq(1..n + 1),
                             last : {"none", "active", "final"}]]
  <2> DEFINE T(m) == [at : {"off", "on", "ended"}, hist : SUBSET (1..m), from : 0..m,
                      got : Seq(1..m), last : {"none", "active", "final"}]
  <2>1. stream \in [Stream -> T(n)]
    BY DEF TypeOK
  <2>2. SUBSET (1..n) \subseteq SUBSET (1..n + 1) /\ 0..n \subseteq 0..n + 1
    BY <1>1
  <2>3. Seq(1..n) \subseteq Seq(1..n + 1)
    BY <1>1, SeqGrows
  <2>4. T(n) \subseteq T(n + 1)
    BY <2>2, <2>3
  <2> HIDE DEF T
  <2>5. stream \in [Stream -> T(n + 1)]
    BY <2>1, <2>4
  <2>6. QED
    BY <2>5 DEF T
<1>4. chan \in [Stream -> Seq(1..n + 1)]
  <2>1. Seq(1..n) \subseteq Seq(1..n + 1)
    BY <1>1, SeqGrows
  <2>2. chan \in [Stream -> Seq(1..n)]
    BY DEF TypeOK
  <2>3. QED
    BY <2>1, <2>2
<1>5. dropped \in [Stream -> SUBSET (1..n + 1)]
  <2>1. SUBSET (1..n) \subseteq SUBSET (1..n + 1)
    BY <1>1
  <2>2. dropped \in [Stream -> SUBSET (1..n)]
    BY DEF TypeOK
  <2>3. QED
    BY <2>1, <2>2
<1>6. /\ hub \in {"job", "deploy"} /\ n + 1 \in Nat /\ arrays \in Seq(Array)
      /\ subs \in [arr : 0..Len(arrays), len : Nat]
      /\ subs.len > 0 => subs.arr # 0 /\ subs.len <= Len(arrays[subs.arr])
      /\ \A s \in Stream : Len(chan[s]) <= ChanCap
      /\ closed \subseteq Stream /\ phase \in {"active", "final", "subsClosed", "done"}
      /\ panicked \in BOOLEAN
  BY <1>1 DEF TypeOK
<1>7. QED
  BY <1>1, <1>2, <1>3, <1>4, <1>5, <1>6, Zenon DEF TypeOK

\* The range loop stays typed.
LEMMA TypedAdvance ==
    ASSUME TypeOK, NEW e \in Emitter, Advance(e)
    PROVE  emitter' \in [Emitter -> [line : 0..n, arr : 0..Len(arrays), len : Nat,
                                     pos : Nat \ {0}, copy : Seq(Stream)]]
<1> DEFINE T == [line : 0..n, arr : 0..Len(arrays), len : Nat, pos : Nat \ {0}, copy : Seq(Stream)]
           x == emitter[e]
<1>1. emitter \in [Emitter -> T] /\ x \in T /\ n \in Nat /\ arrays \in Seq(Array)
  BY DEF TypeOK
<1>2. Idle \in T
  BY <1>1 DEF Idle
<1>3. [x EXCEPT !.pos = x.pos + 1] \in T
  <2>1. x.pos \in Nat \ {0}
    BY <1>1
  <2>2. x.pos + 1 \in Nat \ {0}
    BY <2>1
  <2> HIDE DEF x
  <2>3. QED
    BY <1>1, <2>2
<1>4. emitter' = [emitter EXCEPT ![e] = IF x.pos = x.len THEN Idle ELSE [x EXCEPT !.pos = x.pos + 1]]
  BY DEF Advance
<1> HIDE DEF T, x
<1>5. emitter' \in [Emitter -> T]
  BY <1>1, <1>2, <1>3, <1>4
<1>6. QED
  BY <1>5 DEF T

\* A send adds a line to the channel, or to the lines that were dropped.
LEMMA TypedSend ==
    ASSUME TypeOK, NEW e \in Emitter, Send(e)
    PROVE  /\ chan' \in [Stream -> Seq(1..n)]
           /\ \A s \in Stream : Len(chan'[s]) <= ChanCap
           /\ dropped' \in [Stream -> SUBSET (1..n)]
<1>1. /\ n \in Nat /\ emitter[e].line \in 1..n /\ chan \in [Stream -> Seq(1..n)]
      /\ dropped \in [Stream -> SUBSET (1..n)] /\ \A s \in Stream : Len(chan[s]) <= ChanCap
      /\ ChanCap \in Nat
  BY LogHubAssumption DEF TypeOK, Send
<1> DEFINE t == Target(e)
           l == emitter[e].line
<1>2. CASE Len(chan[t]) < ChanCap /\ chan' = [chan EXCEPT ![t] = Append(chan[t], l)] /\ UNCHANGED dropped
  <2> HIDE DEF t, l
  <2>1. \A s \in Stream : chan'[s] = IF s = t THEN Append(chan[s], l) ELSE chan[s]
    BY <1>1, <1>2
  <2>2. l \in 1..n
    BY <1>1 DEF l
  <2>3. ASSUME NEW s \in Stream PROVE chan'[s] \in Seq(1..n) /\ Len(chan'[s]) <= ChanCap
    <3> DEFINE q == chan[s]
    <3>1. q \in Seq(1..n) /\ Len(q) <= ChanCap
      BY <1>1
    <3>2. chan'[s] = IF s = t THEN Append(q, l) ELSE q
      BY <2>1
    <3>3. s = t => Len(q) < ChanCap
      BY <1>2
    <3> HIDE DEF q
    <3>4. Append(q, l) \in Seq(1..n) /\ Len(Append(q, l)) = Len(q) + 1 /\ Len(q) \in Nat
      BY <2>2, <3>1
    <3>5. CASE s = t
      <4>1. chan'[s] = Append(q, l) /\ Len(q) < ChanCap
        BY <3>2, <3>3, <3>5
      <4>2. Len(q) + 1 <= ChanCap
        BY <1>1, <3>4, <4>1
      <4>3. QED
        BY <3>4, <4>1, <4>2
    <3>6. QED
      BY <3>1, <3>2, <3>5
  <2>4. QED
    BY <1>1, <1>2, <2>3
<1>3. CASE dropped' = [dropped EXCEPT ![t] = dropped[t] \cup {l}] /\ UNCHANGED chan
  <2>1. \A s \in Stream : dropped'[s] \in SUBSET (1..n)
    BY <1>1, <1>3
  <2>2. QED
    BY <1>1, <1>3, <2>1
<1>4. QED
  BY <1>2, <1>3 DEF Send

\* What one stream sees is typed.
LEMMA TypedSubscribe ==
    ASSUME TypeOK, Roster, NEW s \in Stream, Subscribe(s), s \notin Members
    PROVE  TypeOK'
<1>1. /\ UNCHANGED <<hub, n, emitter, chan, closed, dropped, phase, panicked>> /\ AppendSub(s)
      /\ stream' = [stream EXCEPT ![s].at = "on", ![s].hist = History, ![s].from = n]
  BY DEF Subscribe
<1>2. Roster' /\ Len(arrays') >= Len(arrays)
  BY <1>1, MemberJoins
<1>3. History \subseteq 1..n /\ n \in 0..n
  BY LogHubAssumption DEF History, TypeOK
<1>4. stream' \in [Stream -> [at : {"off", "on", "ended"}, hist : SUBSET (1..n),
                              from : 0..n, got : Seq(1..n), last : {"none", "active", "final"}]]
  <2> DEFINE H == SUBSET (1..n)
             F == 0..n
             G == Seq(1..n)
             T == [at : {"off", "on", "ended"}, hist : H, from : F, got : G, last : {"none", "active", "final"}]
  <2>1. stream \in [Stream -> T] /\ History \in H /\ n \in F
    BY <1>3 DEF TypeOK
  <2> HIDE DEF H, F, G
  <2>2. stream' \in [Stream -> T]
    <3> DEFINE x == stream[s]
               y == [x EXCEPT !.at = "on", !.hist = History, !.from = n]
    <3>1. x \in T /\ History \in H /\ n \in F
      BY <2>1
    <3>2. stream' = [stream EXCEPT ![s] = y]
      BY <1>1, <2>1
    <3> HIDE DEF x
    <3>3. [x EXCEPT !.at = "on"] \in T
      BY <3>1
    <3>4. [x EXCEPT !.at = "on", !.hist = History] \in T
      BY <3>1, <3>3
    <3>5. y \in T
      BY <3>1, <3>4
    <3> HIDE DEF y, T
    <3>6. QED
      BY <2>1, <3>2, <3>5
  <2>3. QED
    BY <2>2 DEF H, F, G
<1>5. emitter \in [Emitter -> [line : 0..n, arr : 0..Len(arrays'), len : Nat,
                               pos : Nat \ {0}, copy : Seq(Stream)]]
  <2> DEFINE T(m) == [line : 0..n, arr : 0..m, len : Nat, pos : Nat \ {0}, copy : Seq(Stream)]
  <2>1. emitter \in [Emitter -> T(Len(arrays))]
    BY DEF TypeOK
  <2>2. 0..Len(arrays) \subseteq 0..Len(arrays')
    BY <1>2 DEF Roster, Slice
  <2>3. T(Len(arrays)) \subseteq T(Len(arrays'))
    BY <2>2
  <2> HIDE DEF T
  <2>4. emitter \in [Emitter -> T(Len(arrays'))]
    BY <2>1, <2>3
  <2>5. QED
    BY <2>4 DEF T
<1>6. /\ arrays' \in Seq(Array) /\ subs' \in [arr : 0..Len(arrays'), len : Nat]
      /\ subs'.len > 0 => subs'.arr # 0 /\ subs'.len <= Len(arrays'[subs'.arr])
  BY <1>2 DEF Roster, Slice, Elem, Array
<1>7. /\ hub \in {"job", "deploy"} /\ n \in Nat /\ chan \in [Stream -> Seq(1..n)]
      /\ \A r \in Stream : Len(chan[r]) <= ChanCap
      /\ closed \subseteq Stream /\ dropped \in [Stream -> SUBSET (1..n)]
      /\ phase \in {"active", "final", "subsClosed", "done"} /\ panicked \in BOOLEAN
  BY DEF TypeOK
<1>8. QED
  BY <1>1, <1>4, <1>5, <1>6, <1>7, Zenon DEF TypeOK

\* ... also when it receives a line ...
LEMMA TypedReceive ==
    ASSUME TypeOK, NEW s \in Stream, Receive(s)
    PROVE  TypeOK'
<1>1. /\ UNCHANGED <<hub, n, arrays, subs, emitter, closed, dropped, phase, panicked>>
      /\ stream' = [stream EXCEPT ![s].got = Append(stream[s].got, Head(chan[s]))]
      /\ chan' = [chan EXCEPT ![s] = Tail(chan[s])] /\ chan[s] # <<>>
  BY DEF Receive
<1>2. chan \in [Stream -> Seq(1..n)] /\ \A r \in Stream : Len(chan[r]) <= ChanCap
  BY DEF TypeOK
<1>3. /\ Head(chan[s]) \in 1..n /\ Tail(chan[s]) \in Seq(1..n)
      /\ Len(Tail(chan[s])) = Len(chan[s]) - 1 /\ Len(chan[s]) \in Nat
  <2> DEFINE q == chan[s]
             S == 1..n
  <2>1. q \in Seq(S) /\ q # <<>>
    BY <1>1, <1>2
  <2> HIDE DEF q, S
  <2>2. Head(q) \in S /\ Tail(q) \in Seq(S) /\ Len(Tail(q)) = Len(q) - 1 /\ Len(q) \in Nat
    BY <2>1
  <2>3. QED
    BY <2>2 DEF q, S
<1>4. chan' \in [Stream -> Seq(1..n)]
  BY <1>1, <1>2, <1>3
<1>5. \A r \in Stream : Len(chan'[r]) <= ChanCap
  <2>1. Len(Tail(chan[s])) <= ChanCap
    <3>1. Len(chan[s]) <= ChanCap /\ ChanCap \in Nat
      BY <1>2, LogHubAssumption
    <3>2. QED
      BY <1>3, <3>1
  <2>2. \A r \in Stream : chan'[r] = IF r = s THEN Tail(chan[s]) ELSE chan[r]
    BY <1>1, <1>2
  <2>3. QED
    BY <1>2, <2>1, <2>2
<1>6. stream' \in [Stream -> [at : {"off", "on", "ended"}, hist : SUBSET (1..n),
                              from : 0..n, got : Seq(1..n), last : {"none", "active", "final"}]]
  <2>1. Append(stream[s].got, Head(chan[s])) \in Seq(1..n)
    BY <1>3 DEF TypeOK
  <2> DEFINE H == SUBSET (1..n)
             F == 0..n
             G == Seq(1..n)
             T == [at : {"off", "on", "ended"}, hist : H, from : F, got : G,
                   last : {"none", "active", "final"}]
             x == stream[s]
             y == [x EXCEPT !.got = Append(x.got, Head(chan[s]))]
  <2>2. stream \in [Stream -> T] /\ x \in T /\ Append(x.got, Head(chan[s])) \in G
    BY <2>1 DEF TypeOK
  <2>3. stream' = [stream EXCEPT ![s] = y]
    BY <1>1
  <2> HIDE DEF H, F, G, x
  <2>4. y \in T
    BY <2>2
  <2> HIDE DEF T, y
  <2>5. stream' \in [Stream -> T]
    BY <2>2, <2>3, <2>4
  <2>6. QED
    BY <2>5 DEF H, F, G, T
<1>7. /\ hub \in {"job", "deploy"} /\ n \in Nat /\ arrays \in Seq(Array)
      /\ subs \in [arr : 0..Len(arrays), len : Nat]
      /\ subs.len > 0 => subs.arr # 0 /\ subs.len <= Len(arrays[subs.arr])
      /\ emitter \in [Emitter -> [line : 0..n, arr : 0..Len(arrays), len : Nat,
                                  pos : Nat \ {0}, copy : Seq(Stream)]]
      /\ closed \subseteq Stream /\ dropped \in [Stream -> SUBSET (1..n)]
      /\ phase \in {"active", "final", "subsClosed", "done"} /\ panicked \in BOOLEAN
  BY DEF TypeOK
<1>8. QED
  BY <1>1, <1>4, <1>5, <1>6, <1>7, Zenon DEF TypeOK

\* ... and when it ends.
LEMMA TypedEnd ==
    ASSUME TypeOK, Roster, NEW s \in Stream, NEW event \in {"none", "active", "final"}, End(s, event)
    PROVE  TypeOK'
<1>1. /\ UNCHANGED <<hub, n, emitter, chan, dropped, phase, panicked>> /\ CancelSub(s)
      /\ stream' = [stream EXCEPT ![s].at = "ended", ![s].last = event]
  BY DEF End
<1>2. Roster' /\ Len(arrays') = Len(arrays) /\ closed' \in {closed, closed \cup {s}}
  BY <1>1, MemberLeaves
<1>3. stream' \in [Stream -> [at : {"off", "on", "ended"}, hist : SUBSET (1..n),
                              from : 0..n, got : Seq(1..n), last : {"none", "active", "final"}]]
  <2> DEFINE H == SUBSET (1..n)
             F == 0..n
             G == Seq(1..n)
             T == [at : {"off", "on", "ended"}, hist : H, from : F, got : G, last : {"none", "active", "final"}]
  <2>1. stream \in [Stream -> T]
    BY DEF TypeOK
  <2> HIDE DEF H, F, G
  <2>2. stream' \in [Stream -> T]
    <3> DEFINE x == stream[s]
               y == [x EXCEPT !.at = "ended", !.last = event]
    <3>1. x \in T
      BY <2>1
    <3>2. stream' = [stream EXCEPT ![s] = y]
      BY <1>1, <2>1
    <3> HIDE DEF x
    <3>3. [x EXCEPT !.at = "ended"] \in T
      BY <3>1
    <3>4. y \in T
      BY <3>3
    <3> HIDE DEF y, T
    <3>5. QED
      BY <2>1, <3>2, <3>4
  <2>3. QED
    BY <2>2 DEF H, F, G
<1>4. emitter \in [Emitter -> [line : 0..n, arr : 0..Len(arrays'), len : Nat,
                               pos : Nat \ {0}, copy : Seq(Stream)]]
  BY <1>2 DEF TypeOK
<1>5. /\ arrays' \in Seq(Array) /\ subs' \in [arr : 0..Len(arrays'), len : Nat]
      /\ subs'.len > 0 => subs'.arr # 0 /\ subs'.len <= Len(arrays'[subs'.arr])
  BY <1>2 DEF Roster, Slice, Elem, Array
<1>6. /\ hub \in {"job", "deploy"} /\ n \in Nat /\ chan \in [Stream -> Seq(1..n)]
      /\ \A r \in Stream : Len(chan[r]) <= ChanCap
      /\ dropped \in [Stream -> SUBSET (1..n)]
      /\ phase \in {"active", "final", "subsClosed", "done"} /\ panicked \in BOOLEAN
  BY DEF TypeOK
<1>7. closed' \subseteq Stream
  BY <1>2 DEF TypeOK
<1>8. QED
  BY <1>1, <1>3, <1>4, <1>5, <1>6, <1>7, Zenon DEF TypeOK

\* The streams whose handler returns, and with which event.
LEMMA Ends ==
    ASSUME NEW s \in Stream, Serve(s) \/ Hangup(s), TypeOK
    PROVE  \/ Receive(s)
           \/ /\ s \in closed \/ phase = "done"
              /\ End(s, LastEvent) /\ LastEvent \in {"none", "active", "final"}
           \/ End(s, "none")
BY DEF Serve, Hangup, EndClosed, EndDone, LastEvent

-----------------------------------------------------------------------------
(* Both variants: who is subscribed, and how a stream ends. *)

\* closeSubs empties the slice and closes what was in it.
LEMMA SliceCloses ==
    ASSUME TypeOK, Roster, CloseSubs
    PROVE  /\ TypeOK' /\ Roster' /\ Members' = {} /\ closed' = closed \cup Members
<1>1. /\ UNCHANGED <<hub, n, arrays, emitter, stream, chan, dropped, panicked>>
      /\ phase' = "subsClosed" /\ subs' = [arr |-> 0, len |-> 0] /\ closed' = closed \cup Members
  BY DEF CloseSubs, Members
<1>2. arrays \in Seq(Seq(Elem)) /\ Len(arrays) \in Nat
  BY DEF Roster, Slice
<1>3. Roster' /\ Members' = {}
  BY <1>1, <1>2 DEF Roster, Slice, Members
<1>4. Members \subseteq Stream
  BY DEF Roster, Members
<1>5. subs' \in [arr : 0..Len(arrays), len : Nat] /\ ~(subs'.len > 0)
  BY <1>1, <1>2
<1>6. QED
  BY <1>1, <1>3, <1>4, <1>5 DEF TypeOK

\* What an unchanged slice means.
LEMMA SliceStays ==
    ASSUME Roster, UNCHANGED <<arrays, subs>>
    PROVE  Roster' /\ Members' = Members
<1>1. UNCHANGED Subscribers
  BY DEF Subscribers
<1>2. QED
  BY <1>1 DEF Roster, Slice, Members

\* The invariant of both variants is inductive.
LEMMA HubStep ==
    ASSUME HubInv, Next
    PROVE  HubInv'
<1> USE DEF HubInv
<1>1. ASSUME NEW e \in Emitter, AppendLine(e) PROVE HubInv'
  <2>1. TypeOK'
    BY <1>1, TypedAppend
  <2>2. Roster' /\ Members' = Members
    BY <1>1, SliceStays DEF AppendLine
  <2>3. QED
    BY <1>1, <2>1, <2>2 DEF AppendLine, Listed
<1>2. ASSUME NEW e \in Emitter, Send(e) PROVE HubInv'
  <2>1. /\ Roster' /\ Members' = Members
        /\ UNCHANGED <<hub, n, arrays, subs, stream, closed, phase, panicked>> /\ Advance(e)
    BY <1>2, SliceStays DEF Send
  <2>2. emitter' \in [Emitter -> [line : 0..n, arr : 0..Len(arrays), len : Nat,
                                  pos : Nat \ {0}, copy : Seq(Stream)]]
    BY <2>1, TypedAdvance
  <2>3. /\ chan' \in [Stream -> Seq(1..n)]
        /\ \A s \in Stream : Len(chan'[s]) <= ChanCap
        /\ dropped' \in [Stream -> SUBSET (1..n)]
    BY <1>2, TypedSend
  <2>4. TypeOK'
    BY <2>1, <2>2, <2>3, Zenon DEF TypeOK
  <2>5. QED
    BY <2>1, <2>4 DEF Listed
<1>3. ASSUME NEW e \in Emitter, SendNone(e) PROVE HubInv'
  <2>1. /\ Roster' /\ Members' = Members /\ emitter' = [emitter EXCEPT ![e] = Idle]
        /\ UNCHANGED <<hub, n, arrays, subs, stream, chan, closed, dropped, phase, panicked>>
    BY <1>3, SliceStays DEF SendNone
  <2>2. emitter' \in [Emitter -> [line : 0..n, arr : 0..Len(arrays), len : Nat,
                                  pos : Nat \ {0}, copy : Seq(Stream)]]
    <3>1. 0 \in 0..n /\ 0 \in 0..Len(arrays)
      BY DEF TypeOK
    <3>2. QED
      BY <2>1, <3>1 DEF TypeOK, Idle
  <2>3. TypeOK'
    BY <2>1, <2>2, Zenon DEF TypeOK
  <2>4. QED
    BY <2>1, <2>3 DEF Listed
<1>4. ASSUME NEW e \in Emitter, SendClosed(e) PROVE HubInv'
  <2>1. /\ Roster' /\ Members' = Members /\ panicked' = TRUE
        /\ UNCHANGED <<hub, n, arrays, subs, emitter, stream, chan, closed, dropped, phase>>
    BY <1>4, SliceStays DEF SendClosed
  <2>2. TypeOK'
    BY <2>1, Zenon DEF TypeOK
  <2>3. QED
    BY <2>1, <2>2 DEF Listed
<1>5. ASSUME NEW s \in Stream, Subscribe(s) PROVE HubInv'
  <2>1. s \notin Members /\ s \notin closed
    BY <1>5 DEF Subscribe, Listed
  <2>2. Roster' /\ Members' = Members \cup {s}
    BY <1>5, <2>1, MemberJoins DEF Subscribe
  <2>3. TypeOK'
    BY <1>5, <2>1, TypedSubscribe
  <2>4. ASSUME NEW r \in Stream PROVE Listed(r)'
    <3>1. /\ stream'[r].at = IF r = s THEN "on" ELSE stream[r].at
          /\ stream'[r].last = stream[r].last /\ UNCHANGED <<closed, phase>>
      BY <1>5 DEF Subscribe, TypeOK
    <3>2. Listed(r)
      OBVIOUS
    <3>3. QED
      BY <2>1, <2>2, <3>1, <3>2, Zenon DEF Listed
  <2>5. QED
    BY <2>2, <2>3, <2>4
<1>6. ASSUME NEW s \in Stream, Serve(s) \/ Hangup(s) PROVE HubInv'
  <2>1. CASE Receive(s)
    <3>1. TypeOK' /\ Roster' /\ Members' = Members
      BY <2>1, TypedReceive, SliceStays DEF Receive
    <3>2. ASSUME NEW r \in Stream PROVE Listed(r)'
      <4>1. stream'[r].at = stream[r].at /\ stream'[r].last = stream[r].last /\ UNCHANGED <<closed, phase>>
        BY <2>1 DEF Receive, TypeOK
      <4>2. Listed(r)
        OBVIOUS
      <4>3. QED
        BY <3>1, <4>1, <4>2, Zenon DEF Listed
    <3>3. QED
      BY <3>1, <3>2
  <2>2. ASSUME NEW event \in {"none", "final"}, End(s, event) PROVE HubInv'
    <3>1. TypeOK'
      BY <2>2, TypedEnd
    <3>2. /\ Roster' /\ Members' = Members \ {s} /\ UNCHANGED phase
          /\ closed' = IF s \in Members THEN closed \cup {s} ELSE closed
      BY <2>2, MemberLeaves DEF End
    <3>3. ASSUME NEW r \in Stream PROVE Listed(r)'
      <4>1. /\ stream'[r].at = IF r = s THEN "ended" ELSE stream[r].at
            /\ stream'[r].last = IF r = s THEN event ELSE stream[r].last
        BY <2>2 DEF End, TypeOK
      <4>2. Listed(r)
        OBVIOUS
      <4>3. QED
        BY <2>2, <3>2, <4>1, <4>2 DEF Listed
    <3>4. QED
      BY <3>1, <3>2, <3>3
  <2>3. CASE (s \in closed \/ phase = "done") /\ End(s, LastEvent)
    <3>1. stream[s].at = "on"
      BY <2>3 DEF End
    <3>2. phase # "active"
      BY <2>3, <3>1 DEF Listed
    <3>3. QED
      BY <2>2, <2>3, <3>2 DEF LastEvent
  <2>4. QED
    BY <1>6, <2>1, <2>2, <2>3, Ends
<1>7. CASE CloseSubs
  <2>1. /\ TypeOK' /\ Roster' /\ Members' = {} /\ closed' = closed \cup Members
        /\ UNCHANGED stream /\ phase' = "subsClosed"
    BY <1>7, SliceCloses DEF CloseSubs
  <2>2. QED
    BY <2>1 DEF Listed
<1>8. CASE Conclude \/ CloseDone \/ CancelQueued
  <2>1. /\ Roster' /\ Members' = Members
        /\ UNCHANGED <<hub, n, arrays, subs, emitter, stream, chan, closed, dropped, panicked>>
        /\ phase' \in {"final", "done"} /\ (phase \in {"subsClosed", "done"} => phase' = "done")
    BY <1>8, SliceStays DEF Conclude, CloseDone, CancelQueued
  <2>2. TypeOK'
    BY <2>1 DEF TypeOK
  <2>3. QED
    BY <2>1, <2>2 DEF Listed
<1>9. QED
  BY <1>1, <1>2, <1>3, <1>4, <1>5, <1>6, <1>7, <1>8, Zenon DEF Next, Emit

-----------------------------------------------------------------------------
(* The variant that copies: the fan-outs. *)

\* What the emitters do: a new line, one debt less, an empty fan-out, or nothing.
Fans ==
    \/ \E e \in Emitter : AppendLine(e) \/ SendNone(e)
    \/ \E e \in Emitter : emitter[e].line # 0 /\ emitter[e].len > 0 /\ Advance(e) /\ UNCHANGED n
    \/ UNCHANGED <<emitter, n>>

\* Every step is one of these for the emitters.
LEMMA StepIsFans ==
    ASSUME Next \/ UNCHANGED vars
    PROVE  Fans /\ UNCHANGED hub
<1>1. CASE Next
  BY <1>1, Zenon DEF Next, Emit, Serve, AppendLine, Send, SendNone, SendClosed, Subscribe, Receive,
    EndClosed, EndDone, Hangup, End, Conclude, CloseSubs, CloseDone, CancelQueued, Fans
<1>2. CASE UNCHANGED vars
  BY <1>2 DEF vars, Fans
<1>3. QED
  BY <1>1, <1>2

\* An empty fan-out owes nobody.
LEMMA NoneShape ==
    ASSUME TypeOK, hub = "deploy", NEW e \in Emitter, Fan(e), SendNone(e)
    PROVE  /\ emitter'[e].line = 0 /\ Fan(e)'
           /\ \A s \in Stream : ~Owes(e, s) /\ ~Owes(e, s)'
           /\ \A f \in Emitter : f # e => emitter'[f] = emitter[f]
<1>1. emitter[e].line # 0 /\ emitter[e].len = 0 /\ emitter[e].pos \in Nat \ {0}
  BY DEF SendNone, TypeOK
<1>2. Len(emitter[e].copy) = 0
  BY <1>1 DEF Fan
<1>3. \A s \in Stream : ~Owes(e, s)
  BY <1>1, <1>2 DEF Owes
<1>4. emitter'[e] = Idle /\ \A f \in Emitter : f # e => emitter'[f] = emitter[f]
  BY DEF SendNone, TypeOK
<1>5. emitter'[e].line = 0
  BY <1>4 DEF Idle
<1>6. QED
  BY <1>3, <1>4, <1>5 DEF Fan, Owes

\* Every fan-out stays within its copy, and no two are of one line.
LEMMA FanStep ==
    ASSUME TypeOK, Roster, hub = "deploy", Fans,
           \A x \in Emitter : Fan(x) /\ \A y \in Emitter : TwoLines(x, y)
    PROVE  \A x \in Emitter : Fan(x)' /\ \A y \in Emitter : TwoLines(x, y)'
<1>0. \A x \in Emitter : emitter[x].line \in 0..n /\ n \in Nat
  BY DEF TypeOK
<1>1. ASSUME NEW e \in Emitter, AppendLine(e)
      PROVE  \A x \in Emitter : Fan(x)' /\ \A y \in Emitter : TwoLines(x, y)'
  <2>1. /\ emitter'[e].line = n + 1 /\ Fan(e)'
        /\ \A f \in Emitter : f # e => emitter'[f] = emitter[f]
    BY <1>1, AppendLineShape
  <2>2. \A x \in Emitter : Fan(x)'
    BY <2>1 DEF Fan
  <2>3. \A x \in Emitter : emitter[x].line # n + 1
    BY <1>0
  <2>4. ASSUME NEW x \in Emitter, NEW y \in Emitter PROVE TwoLines(x, y)'
    BY <2>1, <2>3 DEF TwoLines
  <2>5. QED
    BY <2>2, <2>4
<1>2. ASSUME NEW e \in Emitter, Fan(e)', emitter'[e].line \in {0, emitter[e].line},
             \A f \in Emitter : f # e => emitter'[f] = emitter[f]
      PROVE  \A x \in Emitter : Fan(x)' /\ \A y \in Emitter : TwoLines(x, y)'
  <2>1. \A x \in Emitter : Fan(x)'
    BY <1>2 DEF Fan
  <2>2. ASSUME NEW x \in Emitter, NEW y \in Emitter PROVE TwoLines(x, y)'
    <3>1. TwoLines(x, y)
      OBVIOUS
    <3>2. QED
      BY <1>2, <3>1 DEF TwoLines
  <2>3. QED
    BY <2>1, <2>2
<1>3. ASSUME NEW e \in Emitter, SendNone(e)
      PROVE  \A x \in Emitter : Fan(x)' /\ \A y \in Emitter : TwoLines(x, y)'
  BY <1>2, <1>3, NoneShape
<1>4. ASSUME NEW e \in Emitter, emitter[e].line # 0, emitter[e].len > 0, Advance(e)
      PROVE  \A x \in Emitter : Fan(x)' /\ \A y \in Emitter : TwoLines(x, y)'
  BY <1>2, <1>4, AdvanceShape
<1>5. CASE UNCHANGED <<emitter, n>>
  BY <1>5 DEF Fan, TwoLines
<1>6. QED
  BY <1>1, <1>3, <1>4, <1>5, Zenon DEF Fans

-----------------------------------------------------------------------------
(* The variant that copies: what one stream s was sent, is owed and missed. *)

\* What can happen to s.
NewLine(s) ==        \* a line is appended, and owed to s if s is a member
    /\ UNCHANGED <<Sent(s), stream, dropped, closed, panicked>> /\ n' = n + 1
    /\ \E e \in Emitter :
        /\ emitter[e].line = 0 /\ emitter'[e].line = n + 1
        /\ ~Owes(e, s) /\ (Owes(e, s)' <=> s \in Members)
        /\ \A f \in Emitter : f # e => emitter'[f] = emitter[f]

Paid(s) ==           \* the line owed to s is in its channel, or dropped
    /\ UNCHANGED <<n, stream, closed, panicked>>
    /\ \E e \in Emitter :
        /\ Owes(e, s) /\ ~Owes(e, s)'
        /\ \/ Sent(s)' = Append(Sent(s), emitter[e].line) /\ dropped'[s] = dropped[s]
           \/ Sent(s)' = Sent(s) /\ dropped'[s] = dropped[s] \cup {emitter[e].line}
        /\ \A f \in Emitter : f # e => emitter'[f] = emitter[f]

PaidOther(s) ==      \* a fan-out goes on, and s is not concerned
    /\ UNCHANGED <<n, stream, closed, panicked, Sent(s)>> /\ dropped'[s] = dropped[s]
    /\ \E e \in Emitter :
        /\ Owes(e, s)' <=> Owes(e, s)
        /\ Owes(e, s)' => emitter'[e].line = emitter[e].line
        /\ \A f \in Emitter : f # e => emitter'[f] = emitter[f]

Joined(s) ==         \* s subscribes
    /\ UNCHANGED <<n, emitter, dropped, closed, panicked, Sent(s)>>
    /\ stream[s].at = "off" /\ stream'[s].at = "on"
    /\ stream'[s].hist = History /\ stream'[s].from = n

Read(s) ==           \* s receives, or nothing happens to it
    /\ UNCHANGED <<n, emitter, dropped, panicked, Sent(s)>>
    /\ stream'[s].at = stream[s].at /\ closed \subseteq closed'
    /\ stream'[s].hist = stream[s].hist /\ stream'[s].from = stream[s].from

Over(s) ==           \* s ends
    /\ UNCHANGED <<n, emitter, dropped, Sent(s)>>
    /\ stream[s].at = "on" /\ stream'[s].at = "ended"
    /\ stream'[s].hist = stream[s].hist /\ stream'[s].from = stream[s].from

Broken(s) ==         \* a send on a closed channel
    UNCHANGED <<n, emitter, dropped, stream, chan>> /\ panicked'

Happens(s) ==
    \/ NewLine(s) \/ Paid(s) \/ PaidOther(s) \/ Joined(s) \/ Read(s) \/ Over(s) \/ Broken(s)

\* Every step is one of these for s.
LEMMA StepHappens ==
    ASSUME HubInv, hub = "deploy", Next \/ UNCHANGED vars, \A e \in Emitter : Fan(e), NEW s \in Stream
    PROVE  Happens(s)
<1> USE DEF HubInv
<1>1. ASSUME NEW e \in Emitter, AppendLine(e) PROVE NewLine(s)
  <2>1. UNCHANGED <<Sent(s), stream, dropped, closed, panicked>> /\ n' = n + 1
    BY <1>1 DEF AppendLine, Sent
  <2>2. QED
    BY <1>1, <2>1, AppendLineShape DEF NewLine
<1>2. ASSUME NEW e \in Emitter, Send(e) PROVE Paid(s) \/ PaidOther(s)
  <2> DEFINE t == Target(e)
             l == emitter[e].line
  <2>1. /\ UNCHANGED <<n, stream, closed, panicked>>
        /\ emitter[e].line # 0 /\ emitter[e].len > 0 /\ Advance(e)
    BY <1>2 DEF Send
  <2>2. /\ t \in Stream /\ Owes(e, t)
        /\ \A r \in Stream : Owes(e, r)' <=> Owes(e, r) /\ r # t
        /\ \A f \in Emitter : f # e => emitter'[f] = emitter[f]
        /\ emitter'[e].line \in {0, emitter[e].line}
    BY <2>1, AdvanceShape
  <2>3. l \in 1..n /\ n \in Nat
    BY <2>1 DEF TypeOK
  <2>4. stream[s].got \in Seq(1..n) /\ chan[s] \in Seq(1..n)
    BY DEF TypeOK
  <2>5. \/ chan'[s] = (IF s = t THEN Append(chan[s], l) ELSE chan[s]) /\ dropped'[s] = dropped[s]
        \/ dropped'[s] = (IF s = t THEN dropped[s] \cup {l} ELSE dropped[s]) /\ chan'[s] = chan[s]
    BY <1>2 DEF Send, TypeOK
  <2>6. CASE s = t
    <3>1. stream[s].got \o Append(chan[s], l) = Append(stream[s].got \o chan[s], l)
      <4> DEFINE S == 1..n
                 p == stream[s].got
                 q == chan[s]
      <4>1. l \in S /\ p \in Seq(S) /\ q \in Seq(S)
        BY <2>3, <2>4
      <4> HIDE DEF S, l, p, q
      <4>2. p \o Append(q, l) = Append(p \o q, l)
        BY <4>1, AddOne
      <4>3. QED
        BY <4>2 DEF p, q
    <3>2. \/ Sent(s)' = Append(Sent(s), l) /\ dropped'[s] = dropped[s]
          \/ Sent(s)' = Sent(s) /\ dropped'[s] = dropped[s] \cup {l}
      BY <2>1, <2>5, <2>6, <3>1 DEF Sent
    <3>3. QED
      BY <2>1, <2>2, <2>6, <3>2, Zenon DEF Paid
  <2>7. CASE s # t
    <3>1. Sent(s)' = Sent(s) /\ dropped'[s] = dropped[s]
      BY <2>1, <2>5, <2>7 DEF Sent
    <3>2. Owes(e, s)' => emitter'[e].line = emitter[e].line
      BY <2>2 DEF Owes
    <3>3. QED
      BY <2>1, <2>2, <2>7, <3>1, <3>2, Zenon DEF PaidOther
  <2>8. QED
    BY <2>6, <2>7
<1>3. ASSUME NEW e \in Emitter, SendNone(e) PROVE PaidOther(s)
  <2>1. UNCHANGED <<n, stream, closed, panicked, Sent(s)>> /\ dropped'[s] = dropped[s]
    BY <1>3 DEF SendNone, Sent
  <2>2. /\ ~Owes(e, s) /\ ~Owes(e, s)'
        /\ \A f \in Emitter : f # e => emitter'[f] = emitter[f]
    BY <1>3, NoneShape
  <2>3. QED
    BY <2>1, <2>2, Zenon DEF PaidOther
<1>4. ASSUME NEW e \in Emitter, SendClosed(e) PROVE Broken(s)
  BY <1>4 DEF SendClosed, Broken
<1>5. ASSUME NEW r \in Stream, Subscribe(r) PROVE Joined(s) \/ Read(s)
  <2>1. /\ UNCHANGED <<n, emitter, dropped, closed, panicked, chan>>
        /\ stream[r].at = "off" /\ stream'[r].at = "on" /\ stream'[r].got = stream[r].got
        /\ stream'[r].hist = History /\ stream'[r].from = n
        /\ \A x \in Stream : x # r => stream'[x] = stream[x]
    BY <1>5 DEF Subscribe, TypeOK
  <2>2. CASE s = r
    <3>1. UNCHANGED Sent(s)
      BY <2>1, <2>2 DEF Sent
    <3>2. QED
      BY <2>1, <2>2, <3>1, Zenon DEF Joined
  <2>3. CASE s # r
    <3>1. UNCHANGED Sent(s) /\ stream'[s] = stream[s]
      BY <2>1, <2>3 DEF Sent
    <3>2. QED
      BY <2>1, <3>1 DEF Read
  <2>4. QED
    BY <2>2, <2>3
<1>6. ASSUME NEW r \in Stream, Receive(r) PROVE Read(s)
  <2>1. /\ UNCHANGED <<n, emitter, dropped, closed, panicked>> /\ stream[r].at = "on"
        /\ stream'[r].at = stream[r].at
        /\ stream'[r].hist = stream[r].hist /\ stream'[r].from = stream[r].from
        /\ stream'[r].got = Append(stream[r].got, Head(chan[r])) /\ chan'[r] = Tail(chan[r])
        /\ chan[r] # <<>>
        /\ \A x \in Stream : x # r => stream'[x] = stream[x] /\ chan'[x] = chan[x]
    BY <1>6 DEF Receive, TypeOK
  <2>2. CASE s = r
    <3>1. stream[s].got \in Seq(1..n) /\ chan[s] \in Seq(1..n)
      BY DEF TypeOK
    <3>2. Append(stream[s].got, Head(chan[s])) \o Tail(chan[s]) = stream[s].got \o chan[s]
      BY <2>1, <2>2, <3>1, MoveOne
    <3>3. UNCHANGED Sent(s)
      BY <2>1, <2>2, <3>2 DEF Sent
    <3>4. QED
      BY <2>1, <2>2, <3>3 DEF Read
  <2>3. CASE s # r
    BY <2>1, <2>3 DEF Read, Sent
  <2>4. QED
    BY <2>2, <2>3
<1>7. ASSUME NEW r \in Stream, NEW event, End(r, event) PROVE Over(s) \/ Read(s)
  <2>1. /\ UNCHANGED <<n, emitter, chan, dropped, phase, panicked>> /\ stream[r].at = "on"
        /\ stream'[r].at = "ended" /\ stream'[r].got = stream[r].got
        /\ stream'[r].hist = stream[r].hist /\ stream'[r].from = stream[r].from
        /\ \A x \in Stream : x # r => stream'[x] = stream[x]
    BY <1>7 DEF End, TypeOK
  <2>2. closed \subseteq closed'
    BY <1>7, MemberLeaves DEF End
  <2>3. QED
    BY <2>1, <2>2 DEF Over, Read, Sent
<1>8. CASE CloseSubs \/ Conclude \/ CloseDone \/ CancelQueued \/ UNCHANGED vars
  <2>1. UNCHANGED <<n, emitter, stream, chan, dropped, panicked>> /\ closed \subseteq closed'
    BY <1>8 DEF CloseSubs, Conclude, CloseDone, CancelQueued, vars
  <2>2. UNCHANGED Sent(s)
    BY <2>1 DEF Sent
  <2>3. UNCHANGED <<n, emitter, dropped, panicked, Sent(s)>>
    BY <2>1, <2>2
  <2>4. /\ stream'[s].at = stream[s].at /\ closed \subseteq closed'
        /\ stream'[s].hist = stream[s].hist /\ stream'[s].from = stream[s].from
    BY <2>1
  <2>5. QED
    BY <2>3, <2>4, Zenon DEF Read, Happens
<1>9. ASSUME NEW r \in Stream, Serve(r) \/ Hangup(r) PROVE Over(s) \/ Read(s)
  BY <1>6, <1>7, <1>9, Ends
<1>10. QED
  BY <1>1, <1>2, <1>3, <1>4, <1>5, <1>8, <1>9, Zenon DEF Next, Emit, Happens

\* What s was sent stays sound, and what is owed to it stays new to it.
LEMMA SoundStep ==
    ASSUME TypeOK, NEW s \in Stream, Happens(s), Sound(s),
           \A e \in Emitter : Flight(e, s),
           \A e \in Emitter : \A f \in Emitter : TwoLines(e, f),
           s \in Members => stream[s].at # "off"
    PROVE  Sound(s)' /\ \A e \in Emitter : Flight(e, s)'
<1> DEFINE Q == Sent(s)
<1>1. /\ n \in Nat /\ Q \in Seq(1..n) /\ stream[s].from \in 0..n
      /\ \A e \in Emitter : emitter[e].line \in 0..n
  BY DEF TypeOK, Sent
<1>2. \A i \in DOMAIN Q : Q[i] \in 1..n
  BY <1>1
<1>3. CASE NewLine(s)
  <2>1. PICK e \in Emitter :
          /\ emitter[e].line = 0 /\ emitter'[e].line = n + 1
          /\ ~Owes(e, s) /\ (Owes(e, s)' <=> s \in Members)
          /\ \A f \in Emitter : f # e => emitter'[f] = emitter[f]
    BY <1>3 DEF NewLine
  <2>2. UNCHANGED <<Q, stream>>
    BY <1>3 DEF NewLine
  <2>3. Flight(e, s)'
    BY <1>1, <1>2, <2>1, <2>2 DEF Flight
  <2>4. \A f \in Emitter : f # e => Flight(f, s)'
    BY <2>1, <2>2 DEF Flight, Owes
  <2>5. Sound(s)'
    BY <1>1, <1>3, <2>2 DEF Sound
  <2>6. QED
    BY <2>3, <2>4, <2>5, Zenon
<1>4. CASE Paid(s)
  <2>1. PICK e \in Emitter :
          /\ Owes(e, s) /\ ~Owes(e, s)'
          /\ \/ Q' = Append(Q, emitter[e].line)
             \/ Q' = Q
          /\ \A f \in Emitter : f # e => emitter'[f] = emitter[f]
    BY <1>4 DEF Paid
  <2> DEFINE l == emitter[e].line
  <2>2. UNCHANGED stream
    BY <1>4 DEF Paid
  <2>3. /\ stream[s].at # "off" /\ l > stream[s].from /\ l \in 0..n
        /\ \A i \in DOMAIN Q : Q[i] # l
    BY <1>1, <2>1 DEF Flight
  <2>4. \A i \in DOMAIN Q' : Q'[i] = l \/ (i \in DOMAIN Q /\ Q'[i] = Q[i])
    <3>1. CASE Q' = Append(Q, l)
      <4>1. l \in 1..n
        BY <1>1, <2>1 DEF Owes
      <4> HIDE DEF Q, l
      <4>2. /\ DOMAIN Q = 1 .. Len(Q) /\ DOMAIN Append(Q, l) = 1 .. Len(Q) + 1 /\ Len(Q) \in Nat
            /\ Append(Q, l)[Len(Q) + 1] = l
            /\ \A i \in 1 .. Len(Q) : Append(Q, l)[i] = Q[i]
        BY <1>1, <4>1
      <4>3. QED
        BY <3>1, <4>2
    <3>2. QED
      BY <2>1, <3>1
  <2>5. Sound(s)'
    <3>1. \A i \in DOMAIN Q' : Q'[i] > stream[s].from
      BY <2>3, <2>4 DEF Sound
    <3>2. \A i, k \in DOMAIN Q' : i # k => Q'[i] # Q'[k]
      <4>1. CASE Q' = Q
        BY <4>1 DEF Sound
      <4>2. CASE Q' = Append(Q, l)
        <5>1. /\ DOMAIN Q = 1 .. Len(Q) /\ DOMAIN Q' = 1 .. Len(Q) + 1 /\ Len(Q) \in Nat
              /\ Q'[Len(Q) + 1] = l /\ \A i \in 1 .. Len(Q) : Q'[i] = Q[i]
          BY <1>1, <2>3, <4>2
        <5>2. \A i, k \in DOMAIN Q : i # k => Q[i] # Q[k]
          BY DEF Sound
        <5> HIDE DEF Q, l
        <5>3. QED
          BY <2>3, <5>1, <5>2
      <4>3. QED
        BY <2>1, <4>1, <4>2
    <3>3. QED
      BY <2>2, <2>3, <3>1, <3>2 DEF Sound
  <2>6. Flight(e, s)'
    BY <2>1 DEF Flight
  <2>7. ASSUME NEW f \in Emitter, f # e PROVE Flight(f, s)'
    <3>1. (Owes(f, s)' <=> Owes(f, s)) /\ emitter'[f] = emitter[f]
      BY <2>1, <2>7 DEF Owes
    <3>2. ASSUME Owes(f, s) PROVE emitter[f].line # l
      <4>1. TwoLines(e, f) /\ emitter[f].line # 0 /\ l # 0
        BY <2>1, <3>2 DEF Owes
      <4>2. QED
        BY <2>7, <4>1 DEF TwoLines
    <3>3. Flight(f, s)
      OBVIOUS
    <3>4. QED
      BY <2>2, <2>4, <3>1, <3>2, <3>3 DEF Flight
  <2>8. QED
    BY <2>5, <2>6, <2>7, Zenon
<1>5. CASE PaidOther(s)
  <2>1. PICK e \in Emitter :
          /\ Owes(e, s)' <=> Owes(e, s)
          /\ Owes(e, s)' => emitter'[e].line = emitter[e].line
          /\ \A f \in Emitter : f # e => emitter'[f] = emitter[f]
    BY <1>5 DEF PaidOther
  <2>2. UNCHANGED <<Q, stream>>
    BY <1>5 DEF PaidOther
  <2>3. Flight(e, s)'
    BY <2>1, <2>2 DEF Flight
  <2>4. \A f \in Emitter : f # e => Flight(f, s)'
    BY <2>1, <2>2 DEF Flight, Owes
  <2>5. Sound(s)'
    BY <2>2 DEF Sound
  <2>6. QED
    BY <2>3, <2>4, <2>5, Zenon
<1>6. CASE Joined(s)
  <2>1. /\ UNCHANGED <<emitter, Q>> /\ stream[s].at = "off" /\ stream'[s].at = "on"
        /\ stream'[s].hist = History /\ stream'[s].from = n
    BY <1>6 DEF Joined
  <2>2. Q = <<>> /\ \A l \in History : l <= n
    BY <1>1, <2>1 DEF Sound, History
  <2>3. \A e \in Emitter : ~Owes(e, s) /\ (Owes(e, s)' <=> Owes(e, s))
    BY <2>1 DEF Flight, Owes
  <2>4. Sound(s)'
    BY <2>1, <2>2 DEF Sound
  <2>5. \A e \in Emitter : Flight(e, s)'
    BY <2>3 DEF Flight
  <2>6. QED
    BY <2>4, <2>5
<1>7. CASE Read(s) \/ Over(s) \/ Broken(s)
  <2>1. /\ UNCHANGED <<emitter, Q>>
        /\ stream'[s].at = "off" <=> stream[s].at = "off"
        /\ stream'[s].hist = stream[s].hist /\ stream'[s].from = stream[s].from
    BY <1>7 DEF Read, Over, Broken, Sent
  <2>2. Sound(s)'
    BY <2>1 DEF Sound
  <2>3. \A e \in Emitter : Flight(e, s)'
    BY <2>1 DEF Flight, Owes
  <2>4. QED
    BY <2>2, <2>3
<1>8. QED
  BY <1>3, <1>4, <1>5, <1>6, <1>7, Zenon DEF Happens

-----------------------------------------------------------------------------
(* The variant that copies: no line is lost. *)

\* Line l reached s, is owed to it, or came when its channel was full.
Covered(s, l) ==
    \/ l \in stream[s].hist \cup dropped[s]
    \/ \E e \in Emitter : Owes(e, s) /\ emitter[e].line = l
    \/ \E i \in DOMAIN Sent(s) : Sent(s)[i] = l

Whole(s) ==
    ~panicked /\ stream[s].at = "on" /\ s \notin closed =>
        \A l \in stream[s].hist \cup (stream[s].from + 1)..n : Covered(s, l)

\* NoGap in terms of the debts.
LEMMA GapIsWhole == ASSUME NEW s \in Stream PROVE NoGap(s) <=> Whole(s)
<1>1. \A l : l \in Pending(s) <=> \E e \in Emitter : Owes(e, s) /\ emitter[e].line = l
  BY DEF Pending, Owes
<1>2. QED
  BY <1>1, Zenon DEF NoGap, Whole, Covered

\* What is covered stays so.
LEMMA CoveredStays ==
    ASSUME TypeOK, NEW s \in Stream, NEW l, Covered(s, l), Happens(s), ~Joined(s)
    PROVE  Covered(s, l)'
<1> DEFINE Q == Sent(s)
<1>1. Q \in Seq(1..n) /\ \A e \in Emitter : emitter[e].line \in 0..n
  BY DEF TypeOK, Sent
<1>2. CASE NewLine(s)
  <2>1. PICK e \in Emitter : ~Owes(e, s) /\ \A f \in Emitter : f # e => emitter'[f] = emitter[f]
    BY <1>2 DEF NewLine
  <2>2. UNCHANGED <<Q, stream, dropped>>
    BY <1>2 DEF NewLine
  <2>3. ASSUME NEW f \in Emitter, Owes(f, s) PROVE Owes(f, s)' /\ emitter'[f].line = emitter[f].line
    BY <2>1, <2>3 DEF Owes
  <2>4. QED
    BY <2>2, <2>3 DEF Covered
<1>3. CASE Paid(s)
  <2>1. PICK e \in Emitter :
          /\ Owes(e, s)
          /\ \/ Q' = Append(Q, emitter[e].line) /\ dropped'[s] = dropped[s]
             \/ Q' = Q /\ dropped'[s] = dropped[s] \cup {emitter[e].line}
          /\ \A f \in Emitter : f # e => emitter'[f] = emitter[f]
    BY <1>3 DEF Paid
  <2>2. UNCHANGED stream
    BY <1>3 DEF Paid
  <2>3. ASSUME NEW f \in Emitter, Owes(f, s), f # e
        PROVE  Owes(f, s)' /\ emitter'[f].line = emitter[f].line
    BY <2>1, <2>3 DEF Owes
  <2>4. \A i \in DOMAIN Q : i \in DOMAIN Q' /\ Q'[i] = Q[i]
    BY <1>1, <2>1
  <2>5. emitter[e].line \in dropped'[s] \/ \E i \in DOMAIN Q' : Q'[i] = emitter[e].line
    <3>1. CASE Q' = Append(Q, emitter[e].line)
      <4>1. Len(Q) + 1 \in DOMAIN Q' /\ Q'[Len(Q) + 1] = emitter[e].line
        BY <1>1, <3>1
      <4>2. QED
        BY <4>1
    <3>2. QED
      BY <2>1, <3>1
  <2>6. dropped[s] \subseteq dropped'[s]
    BY <2>1
  <2> HIDE DEF Q
  <2>7. CASE l = emitter[e].line
    BY <2>5, <2>7 DEF Covered, Q
  <2>8. CASE l # emitter[e].line
    BY <2>2, <2>3, <2>4, <2>6, <2>8 DEF Covered, Q
  <2>9. QED
    BY <2>7, <2>8
<1>4. CASE PaidOther(s)
  <2>1. PICK e \in Emitter :
          /\ Owes(e, s)' <=> Owes(e, s)
          /\ Owes(e, s)' => emitter'[e].line = emitter[e].line
          /\ \A f \in Emitter : f # e => emitter'[f] = emitter[f]
    BY <1>4 DEF PaidOther
  <2>2. UNCHANGED <<Q, stream>> /\ dropped'[s] = dropped[s]
    BY <1>4 DEF PaidOther
  <2>3. ASSUME NEW f \in Emitter, Owes(f, s) PROVE Owes(f, s)' /\ emitter'[f].line = emitter[f].line
    BY <2>1, <2>3 DEF Owes
  <2>4. QED
    BY <2>2, <2>3 DEF Covered
<1>5. CASE Read(s) \/ Over(s) \/ Broken(s)
  <2>1. UNCHANGED <<emitter, dropped, Q>> /\ stream'[s].hist = stream[s].hist
    BY <1>5 DEF Read, Over, Broken, Sent
  <2>2. QED
    BY <2>1 DEF Covered, Owes
<1>6. QED
  BY <1>2, <1>3, <1>4, <1>5, Zenon DEF Happens

\* No line is lost: a new one is owed to s, an old one stays covered.
LEMMA GapStep ==
    ASSUME TypeOK, NEW s \in Stream, Happens(s), Whole(s), Listed(s)
    PROVE  Whole(s)'
<1>0. n \in Nat /\ stream[s].from \in 0..n
  BY DEF TypeOK
<1>1. CASE NewLine(s)
  <2>1. PICK e \in Emitter : emitter'[e].line = n + 1 /\ (Owes(e, s)' <=> s \in Members)
    BY <1>1 DEF NewLine
  <2>2. UNCHANGED <<stream, closed, panicked>> /\ n' = n + 1
    BY <1>1 DEF NewLine
  <2>3. SUFFICES ASSUME ~panicked, stream[s].at = "on", s \notin closed,
                        NEW l \in stream[s].hist \cup (stream[s].from + 1)..(n + 1)
                 PROVE  Covered(s, l)'
    BY <2>2 DEF Whole
  <2>4. CASE l = n + 1
    <3>1. s \in Members
      BY <2>3 DEF Listed
    <3>2. QED
      BY <2>1, <2>4, <3>1 DEF Covered
  <2>5. CASE l # n + 1
    <3>1. l \in stream[s].hist \cup (stream[s].from + 1)..n
      BY <1>0, <2>3, <2>5
    <3>2. Covered(s, l)
      BY <2>3, <3>1 DEF Whole
    <3>3. ~Joined(s)
      BY <2>3 DEF Joined
    <3>4. QED
      BY <3>2, <3>3, CoveredStays
  <2>6. QED
    BY <2>4, <2>5
<1>2. CASE Joined(s)
  <2>1. n' = n /\ stream'[s].hist = History /\ stream'[s].from = n
    BY <1>2 DEF Joined
  <2>2. (stream'[s].from + 1)..n' = {}
    BY <1>0, <2>1
  <2>3. QED
    BY <2>2 DEF Whole, Covered
<1>3. CASE ~NewLine(s) /\ ~Joined(s)
  <2>1. /\ n' = n /\ stream'[s].hist = stream[s].hist /\ stream'[s].from = stream[s].from
        /\ ~panicked' /\ stream'[s].at = "on" /\ s \notin closed'
              => ~panicked /\ stream[s].at = "on" /\ s \notin closed
    BY <1>3 DEF Happens, Paid, PaidOther, Read, Over, Broken
  <2>2. \A l : Covered(s, l) => Covered(s, l)'
    BY <1>3, CoveredStays
  <2>3. QED
    BY <2>1, <2>2 DEF Whole
<1>4. QED
  BY <1>1, <1>2, <1>3

-----------------------------------------------------------------------------
(* The theorems. *)

\* The invariant.
LogHubInv == HubInv /\ CopyInv

\* It holds at the start ...
LEMMA InitInv == Init => LogHubInv
<1> SUFFICES ASSUME Init PROVE LogHubInv
  OBVIOUS
<1> USE LogHubAssumption DEF Init
<1>1. TypeOK
  <2>1. emitter \in [Emitter -> [line : 0..n, arr : 0..Len(arrays), len : Nat,
                                 pos : Nat \ {0}, copy : Seq(Stream)]]
    BY DEF Idle
  <2>2. stream \in [Stream -> [at : {"off", "on", "ended"}, hist : SUBSET (1..n),
                               from : 0..n, got : Seq(1..n), last : {"none", "active", "final"}]]
    OBVIOUS
  <2>3. /\ hub \in {"job", "deploy"} /\ n \in Nat /\ closed \subseteq Stream
        /\ phase \in {"active", "final", "subsClosed", "done"} /\ panicked \in BOOLEAN
    OBVIOUS
  <2>4. /\ arrays \in Seq(Array) /\ subs \in [arr : 0..Len(arrays), len : Nat] /\ ~(subs.len > 0)
    OBVIOUS
  <2>5. /\ chan \in [Stream -> Seq(1..n)] /\ \A s \in Stream : Len(chan[s]) <= ChanCap
        /\ dropped \in [Stream -> SUBSET (1..n)]
    OBVIOUS
  <2> HIDE DEF Init
  <2>6. QED
    BY <2>1, <2>2, <2>3, <2>4, <2>5 DEF TypeOK
<1>2. Roster /\ Members = {}
  BY DEF Roster, Slice, Members
<1>3. \A s \in Stream : Listed(s)
  BY <1>2 DEF Listed
<1>4. \A e \in Emitter : emitter[e].line = 0
  BY DEF Idle
<1>5. \A e \in Emitter : Fan(e) /\ \A f \in Emitter : TwoLines(e, f)
  BY <1>4 DEF Fan, TwoLines
<1>6. ASSUME NEW s \in Stream PROVE Sound(s) /\ NoGap(s) /\ \A e \in Emitter : Flight(e, s)
  <2>1. Sent(s) = <<>>
    BY DEF Sent
  <2>2. Sound(s)
    BY <2>1 DEF Sound
  <2>3. NoGap(s)
    BY DEF NoGap
  <2>4. \A e \in Emitter : Flight(e, s)
    BY <1>4 DEF Flight, Owes
  <2>5. QED
    BY <2>2, <2>3, <2>4
<1>7. QED
  BY <1>1, <1>2, <1>3, <1>5, <1>6 DEF LogHubInv, HubInv, CopyInv

\* ... and is kept by every step.
LEMMA StepInv == LogHubInv /\ [Next]_vars => LogHubInv'
<1> SUFFICES ASSUME LogHubInv, [Next]_vars PROVE LogHubInv'
  OBVIOUS
<1>1. HubInv'
  <2>1. CASE Next
    BY <2>1, HubStep DEF LogHubInv
  <2>2. CASE UNCHANGED vars
    <3>1. Roster' /\ Members' = Members
      BY <2>2, SliceStays DEF LogHubInv, HubInv, vars
    <3>2. TypeOK'
      BY <2>2, Zenon DEF LogHubInv, HubInv, vars, TypeOK
    <3>3. QED
      BY <2>2, <3>1, <3>2 DEF LogHubInv, HubInv, vars, Listed
  <2>3. QED
    BY <2>1, <2>2
<1>2. ASSUME hub' = "deploy"
      PROVE  /\ \A e \in Emitter : Fan(e)' /\ \A f \in Emitter : TwoLines(e, f)'
             /\ \A s \in Stream : Sound(s)' /\ NoGap(s)' /\ \A e \in Emitter : Flight(e, s)'
  <2>1. Fans /\ hub = "deploy" /\ HubInv
    BY <1>2, StepIsFans DEF LogHubInv
  <2>2. /\ \A e \in Emitter : Fan(e) /\ \A f \in Emitter : TwoLines(e, f)
        /\ \A s \in Stream : Sound(s) /\ NoGap(s) /\ \A e \in Emitter : Flight(e, s)
    BY <2>1 DEF LogHubInv, CopyInv
  <2>3. \A e \in Emitter : Fan(e)' /\ \A f \in Emitter : TwoLines(e, f)'
    BY <2>1, <2>2, FanStep DEF HubInv
  <2>4. ASSUME NEW s \in Stream
        PROVE  Sound(s)' /\ NoGap(s)' /\ \A e \in Emitter : Flight(e, s)'
    <3>1. Happens(s)
      BY <2>1, <2>2, StepHappens
    <3>2. TypeOK /\ Listed(s)
      BY <2>1 DEF HubInv
    <3>3. Sound(s)' /\ \A e \in Emitter : Flight(e, s)'
      BY <2>2, <3>1, <3>2, SoundStep DEF Listed
    <3>4. Whole(s)'
      BY <2>2, <3>1, <3>2, GapStep, GapIsWhole
    <3>5. NoGap(s)'
      BY <3>4, GapIsWhole, PTL
    <3>6. QED
      BY <3>3, <3>5
  <2>5. QED
    BY <2>3, <2>4
<1>3. QED
  BY <1>1, <1>2 DEF LogHubInv, CopyInv

\* The hub is always well typed: a slice never reaches beyond its backing array, no channel
\* holds more than its capacity, and no line has a number that was not given out.
THEOREM TypeCorrect == Spec => []TypeOK
<1>1. LogHubInv => TypeOK
  BY DEF LogHubInv, HubInv
<1>2. QED
  BY InitInv, StepInv, <1>1, PTL DEF Spec

\* A viewer of a deployment log never sees a line twice and misses none but those dropped
\* while its channel was full, whoever subscribes, cancels and logs at the same time.
THEOREM ViewersSeeEveryLine == Spec => []EveryLineOnce
<1>1. LogHubInv => EveryLineOnce
  <2> SUFFICES ASSUME LogHubInv, hub = "deploy", NEW s \in Stream PROVE NeverTwice(s) /\ NoGap(s)
    BY DEF EveryLineOnce
  <2>1. Sound(s) /\ NoGap(s) /\ TypeOK
    BY DEF LogHubInv, CopyInv, HubInv
  <2>2. Sent(s) \in Seq(1..n) /\ stream[s].hist \subseteq 1..n /\ stream[s].from \in 0..n /\ n \in Nat
    BY <2>1 DEF TypeOK, Sent
  <2>3. \A i \in DOMAIN Sent(s) : Sent(s)[i] \in 1..n
    BY <2>2
  <2>4. NeverTwice(s)
    BY <2>1, <2>2, <2>3 DEF NeverTwice, Sound
  <2>5. QED
    BY <2>1, <2>4
<1>2. QED
  BY InitInv, StepInv, <1>1, PTL DEF Spec

\* The state event a stream ends with is a final one, in a job and in a deployment alike:
\* the state is set before the channels and Done() are closed.
THEOREM StreamsEndWithTheOutcome == Spec => []LastEventIsFinal
<1>1. LogHubInv => LastEventIsFinal
  BY DEF LogHubInv, HubInv, Listed, LastEventIsFinal
<1>2. QED
  BY InitInv, StepInv, <1>1, PTL DEF Spec
=============================================================================
