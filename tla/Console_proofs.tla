---------------------------- MODULE Console_proofs ----------------------------
(***************************************************************************)
(* Proofs about the console sessions and the bearer tokens, for any number *)
(* of goroutines, clients, tokens and lost answers.                        *)
(***************************************************************************)
EXTENDS Console, TLAPS

-----------------------------------------------------------------------------
(* The inductive invariant, by concern. *)

Pcs   == {"idle", "login", "install", "send", "sent", "renew", "renewing", "asking"}
Calls == [pc : Pcs, op : {"none", "open", "request", "logout"}, cl : Nat, tok : Nat,
          again : BOOLEAN]

\* The types of all variables.
TypeOK ==
    /\ session \in Nat /\ stale \in BOOLEAN /\ clients \in Nat /\ clients <= MaxClients
    /\ session <= clients
    /\ token \in [Clients -> Nat] /\ lock \in [Clients -> Procs \cup {0}]
    /\ issued \in Nat /\ faults \in Nat
    /\ alive \subseteq Nat \ {0} /\ \A t \in alive : t <= issued
    /\ call \in [Procs -> Calls]

\* A goroutine opens a session, or uses a client that is made, or does nothing.
Doing(p) ==
    /\ call[p].op = "open" <=> At(p, "login") \/ At(p, "install")
    /\ call[p].op = "none" <=> At(p, "idle")
    /\ call[p].cl = 0 <=> At(p, "idle")
    /\ call[p].cl <= clients

\* A token is known once VBR has handed it out ...
Issued(c) == token[c] <= issued /\ (c > clients => token[c] = 0)

\* ... and is never accepted again once it was refused.
Refused(p) ==
    /\ call[p].tok <= issued
    /\ call[p].pc \in {"renew", "renewing", "asking"} => call[p].tok \notin alive

\* One goroutine at a time compares the tokens of a client and asks for another, and the token
\* it has found unchanged stays so until the answer.
Renewing(p) ==
    /\ At(p, "renewing") \/ At(p, "asking") => lock[call[p].cl] = p
    /\ At(p, "asking") => token[call[p].cl] = call[p].tok

\* A client belongs to the goroutine that makes it until it is the session's.
OpenerAlone(p) ==
    call[p].op = "open" =>
        /\ call[p].cl # session
        /\ At(p, "login") => token[call[p].cl] = 0
        /\ \A q \in Procs : call[q].cl = call[p].cl => q = p

\* The session's client is logged out by nobody.
SessionInUse(p) == session # 0 /\ call[p].cl = session => call[p].op = "request"

\* A client that is neither the session's nor late has one goroutine at most, which knows
\* its token, or none, and then VBR accepts no token of it.
Logout(c) ==
    c <= clients /\ c # session /\ c \notin late =>
        /\ \A p \in Procs : call[p].cl = c =>
              /\ call[p].op # "request"
              /\ call[p].pc \in {"sent", "renew", "renewing", "asking"} => call[p].tok = token[c]
              /\ \A q \in Procs : call[q].cl = c => q = p
        /\ (\A p \in Procs : call[p].cl # c) => token[c] \notin alive

Busy == \A p \in Procs : Doing(p) /\ Refused(p) /\ Renewing(p) /\ OpenerAlone(p) /\ SessionInUse(p)

ConsoleInv == TypeOK /\ Busy /\ \A c \in Clients : Issued(c) /\ Logout(c)

-----------------------------------------------------------------------------
(* How the record of a goroutine changes. *)

\* The clients are numbered from one, and no goroutine is 0.
LEMMA Numbers ==
    /\ 0 \notin Procs
    /\ MaxClients \in Nat /\ MaxTokens \in Nat /\ MaxFaults \in Nat
    /\ \A c : c \in Clients <=> c \in Nat /\ c # 0 /\ c <= MaxClients
BY ConsoleAssumption DEF Clients

\* The call of p becomes this one, and nobody else's changes.
Becomes(p, pc, op, cl, tok) ==
    /\ call' \in [Procs -> Calls]
    /\ \A q \in Procs : q # p => call'[q] = call[q]
    /\ call'[p].pc = pc /\ call'[p].op = op /\ call'[p].cl = cl /\ call'[p].tok = tok

\* A goroutine goes on with its call.
LEMMA ToShape ==
    ASSUME call \in [Procs -> Calls], NEW p \in Procs, NEW pc \in Pcs, To(p, pc)
    PROVE  Becomes(p, pc, call[p].op, call[p].cl, call[p].tok)
BY DEF To, Becomes, Calls

\* It has ended it.
LEMMA EndShape ==
    ASSUME call \in [Procs -> Calls], NEW p \in Procs, End(p)
    PROVE  Becomes(p, "idle", "none", 0, 0)
BY DEF End, Becomes, Calls, NoCall, Pcs

\* It begins one.
LEMMA StartShape ==
    ASSUME call \in [Procs -> Calls], NEW p \in Procs, NEW c \in Nat,
           NEW what \in {"request", "logout"}, Start(p, what, c)
    PROVE  Becomes(p, "send", what, c, 0)
BY DEF Start, Becomes, Calls, NoCall, Pcs

\* It sends it again.
LEMMA AgainShape ==
    ASSUME call \in [Procs -> Calls], NEW p \in Procs, Again(p)
    PROVE  Becomes(p, "send", call[p].op, call[p].cl, call[p].tok)
BY DEF Again, Becomes, Calls, Pcs

\* It opens a session with a new client.
LEMMA OpenShape ==
    ASSUME TypeOK, NEW p \in Procs, Open(p)
    PROVE  /\ Becomes(p, "login", "open", clients + 1, 0)
           /\ call[p].pc = "idle" /\ clients < MaxClients /\ clients' = clients + 1
           /\ UNCHANGED <<session, stale, token, lock, vbr, late>>
<1>1. clients + 1 \in Nat
  BY DEF TypeOK
<1>2. QED
  BY <1>1 DEF Open, At, Becomes, Calls, NoCall, Pcs, TypeOK

\* Whoever is not idle has a client that is made.
LEMMA ClientOf ==
    ASSUME TypeOK, NEW p \in Procs, Doing(p)
    PROVE  /\ call[p].pc \in Pcs /\ call[p].cl \in Nat /\ call[p].tok \in Nat
           /\ call[p].op \in {"none", "open", "request", "logout"}
           /\ ~At(p, "idle") => call[p].cl \in Clients /\ token[call[p].cl] \in Nat
BY Numbers DEF TypeOK, Doing, Calls

\* It sends the token that the client has at that time.
LEMMA SendShape ==
    ASSUME TypeOK, NEW p \in Procs, Doing(p), Send(p)
    PROVE  /\ Becomes(p, "sent", call[p].op, call[p].cl, token[call[p].cl])
           /\ call[p].pc = "send" /\ UNCHANGED <<manager, token, lock, vbr, late>>
<1>1. token[call[p].cl] \in Nat
  BY ClientOf DEF Send, At
<1> DEFINE u == [call[p] EXCEPT !.pc = "sent", !.tok = token[call[p].cl]]
<1>2. call \in [Procs -> Calls] /\ call[p] \in Calls
  BY DEF TypeOK
<1>3. call' = [call EXCEPT ![p] = u] /\ At(p, "send") /\ UNCHANGED <<manager, token, lock, vbr, late>>
  BY <1>2 DEF Send
<1>4. u \in Calls /\ u.pc = "sent" /\ u.op = call[p].op /\ u.cl = call[p].cl /\ u.tok = token[call[p].cl]
  BY <1>1, <1>2 DEF Calls, Pcs
<1> HIDE DEF u
<1>5. QED
  BY <1>2, <1>3, <1>4 DEF Becomes, At

\* VBR hands out a token, of the client alone, or none; what the client has is kept then.
LEMMA AuthenticateShape ==
    ASSUME TypeOK, NEW p \in Procs, Doing(p), ~At(p, "idle"), Authenticate(p) \/ AuthenticateFails(p)
    PROVE  /\ token' \in [Clients -> Nat]
           /\ issued' \in Nat /\ faults' \in Nat
           /\ alive' \subseteq Nat \ {0} /\ \A t \in alive' : t <= issued'
<1>1. call[p].cl \in Clients
  BY ClientOf
<1>2. CASE Authenticate(p)
  BY <1>1, <1>2, Numbers DEF Authenticate, TypeOK
<1>3. CASE AuthenticateFails(p)
  <2>1. \/ UNCHANGED <<issued, alive>>
        \/ issued' = issued + 1 /\ alive' = alive \cup {issued + 1}
    BY <1>3 DEF AuthenticateFails, vbr
  <2>2. faults' \in {faults, faults + 1}
    BY <1>3 DEF AuthenticateFails, vbr
  <2>3. token' \in [Clients -> Nat]
    BY <1>3 DEF AuthenticateFails, TypeOK
  <2>4. issued' \in Nat /\ faults' \in Nat
    BY <2>1, <2>2 DEF TypeOK
  <2>5. alive' \subseteq Nat \ {0} /\ \A t \in alive' : t <= issued'
    <3>1. CASE UNCHANGED <<issued, alive>>
      BY <3>1 DEF TypeOK
    <3>2. CASE issued' = issued + 1 /\ alive' = alive \cup {issued + 1}
      BY <3>2 DEF TypeOK
    <3>3. QED
      BY <2>1, <3>1, <3>2
  <2>6. QED
    BY <2>3, <2>4, <2>5
<1>4. QED
  BY <1>2, <1>3

\* A client that is dropped and not late is used by no request.
LEMMA DroppedUnused ==
    ASSUME NEW c \in Nat, Dropped(c)
    PROVE  /\ late \subseteq late'
           /\ c # 0 /\ c \notin late' => \A q \in Procs : call[q].cl = c => call[q].op # "request"
BY DEF Dropped, Users, Holders

-----------------------------------------------------------------------------
(* Every step keeps the invariant, one lemma per concern and one step per action. *)

\* The types.
LEMMA TypedStep ==
    ASSUME TypeOK, \A p \in Procs : Doing(p), [Next]_vars
    PROVE  TypeOK'
<1> USE Numbers DEF TypeOK, Doing, At, Becomes, Pcs, manager, vbr
<1>1. ASSUME NEW p \in Procs, Request(p) PROVE TypeOK'
  BY <1>1, ClientOf, StartShape DEF Request
<1>2. ASSUME NEW p \in Procs, Open(p) PROVE TypeOK'
  <2>1. clients' \in Nat /\ clients' <= MaxClients /\ session <= clients'
    BY <1>2, OpenShape
  <2>2. QED
    BY <1>2, <2>1, OpenShape
<1>3. ASSUME NEW p \in Procs, Replace(p) PROVE TypeOK'
  <2>1. call' \in [Procs -> Calls]
    BY <1>3, StartShape, EndShape DEF Replace
  <2>2. call[p].cl \in Nat /\ call[p].cl <= clients
    BY ClientOf
  <2>3. QED
    BY <1>3, <2>1, <2>2 DEF Replace
<1>4. ASSUME NEW p \in Procs, Close(p) PROVE TypeOK'
  <2>1. call' \in [Procs -> Calls]
    BY <1>4, StartShape DEF Close
  <2>2. QED
    BY <1>4, <2>1 DEF Close
<1>5. ASSUME NEW p \in Procs, Sweep(p) PROVE TypeOK'
  BY <1>4, <1>5 DEF Sweep
<1>6. ASSUME NEW p \in Procs, Login(p) PROVE TypeOK'
  BY <1>6, ClientOf, ToShape, EndShape, AuthenticateShape DEF Login
<1>7. ASSUME NEW p \in Procs, Send(p) PROVE TypeOK'
  BY <1>7, ClientOf, SendShape
<1>8. ASSUME NEW p \in Procs, Accepted(p) PROVE TypeOK'
  BY <1>8, ClientOf, EndShape DEF Accepted
<1>9. ASSUME NEW p \in Procs, Unsent(p) PROVE TypeOK'
  BY <1>9, ClientOf, EndShape DEF Unsent
<1>10. ASSUME NEW p \in Procs, Unauthorized(p) PROVE TypeOK'
  BY <1>10, ClientOf, ToShape, EndShape DEF Unauthorized
<1>11. ASSUME NEW p \in Procs, Lock(p) PROVE TypeOK'
  BY <1>11, ClientOf, ToShape DEF Lock
<1>12. ASSUME NEW p \in Procs, Renewed(p) PROVE TypeOK'
  BY <1>12, ClientOf, AgainShape DEF Renewed, Unlock
<1>13. ASSUME NEW p \in Procs, Renew(p) PROVE TypeOK'
  BY <1>13, ClientOf, ToShape DEF Renew
<1>14. ASSUME NEW p \in Procs, Answered(p) PROVE TypeOK'
  BY <1>14, ClientOf, AgainShape, EndShape, AuthenticateShape DEF Answered, Unlock
<1>15. CASE Idle
  BY <1>15 DEF Idle
<1>16. ASSUME NEW t \in 1 .. MaxTokens, Expire(t) PROVE TypeOK'
  BY <1>16 DEF Expire
<1>17. CASE UNCHANGED vars
  BY <1>17 DEF vars
<1>18. QED
  BY <1>1, <1>2, <1>3, <1>4, <1>5, <1>6, <1>7, <1>8, <1>9, <1>10, <1>11, <1>12, <1>13, <1>14, <1>15, <1>16, <1>17 DEF Next, Step

\* What a goroutine is doing.
LEMMA DoingStep ==
    ASSUME TypeOK, \A p \in Procs : Doing(p), [Next]_vars, NEW q \in Procs
    PROVE  Doing(q)'
<1> USE Numbers DEF TypeOK, Doing, At, Becomes, Pcs, manager, vbr
<1>1. ASSUME NEW p \in Procs, Request(p) PROVE Doing(q)'
  BY <1>1, ClientOf, StartShape DEF Request
<1>2. ASSUME NEW p \in Procs, Open(p) PROVE Doing(q)'
  BY <1>2, ClientOf, OpenShape
<1>3. ASSUME NEW p \in Procs, Replace(p) PROVE Doing(q)'
  BY <1>3, ClientOf, StartShape, EndShape, DroppedUnused DEF Replace
<1>4. ASSUME NEW p \in Procs, Close(p) PROVE Doing(q)'
  BY <1>4, ClientOf, StartShape, DroppedUnused DEF Close
<1>5. ASSUME NEW p \in Procs, Sweep(p) PROVE Doing(q)'
  BY <1>4, <1>5 DEF Sweep
<1>6. ASSUME NEW p \in Procs, Login(p) PROVE Doing(q)'
  BY <1>6, ClientOf, ToShape, EndShape DEF Login, Authenticate, AuthenticateFails
<1>7. ASSUME NEW p \in Procs, Send(p) PROVE Doing(q)'
  BY <1>7, ClientOf, SendShape
<1>8. ASSUME NEW p \in Procs, Accepted(p) PROVE Doing(q)'
  BY <1>8, ClientOf, EndShape DEF Accepted
<1>9. ASSUME NEW p \in Procs, Unsent(p) PROVE Doing(q)'
  BY <1>9, ClientOf, EndShape DEF Unsent
<1>10. ASSUME NEW p \in Procs, Unauthorized(p) PROVE Doing(q)'
  BY <1>10, ClientOf, ToShape, EndShape DEF Unauthorized
<1>11. ASSUME NEW p \in Procs, Lock(p) PROVE Doing(q)'
  BY <1>11, ClientOf, ToShape DEF Lock
<1>12. ASSUME NEW p \in Procs, Renewed(p) PROVE Doing(q)'
  BY <1>12, ClientOf, AgainShape DEF Renewed, Unlock
<1>13. ASSUME NEW p \in Procs, Renew(p) PROVE Doing(q)'
  BY <1>13, ClientOf, ToShape DEF Renew
<1>14. ASSUME NEW p \in Procs, Answered(p) PROVE Doing(q)'
  BY <1>14, ClientOf, AgainShape, EndShape DEF Answered, Unlock, Authenticate, AuthenticateFails
<1>15. CASE Idle
  BY <1>15 DEF Idle
<1>16. ASSUME NEW t \in 1 .. MaxTokens, Expire(t) PROVE Doing(q)'
  BY <1>16 DEF Expire
<1>17. CASE UNCHANGED vars
  BY <1>17 DEF vars
<1>18. QED
  BY <1>1, <1>2, <1>3, <1>4, <1>5, <1>6, <1>7, <1>8, <1>9, <1>10, <1>11, <1>12, <1>13, <1>14, <1>15, <1>16, <1>17 DEF Next, Step

\* The tokens of client c.
LEMMA IssuedStep ==
    ASSUME TypeOK, \A p \in Procs : Doing(p), [Next]_vars, NEW c \in Clients, Issued(c)
    PROVE  Issued(c)'
<1> USE Numbers DEF TypeOK, Doing, Issued, At, Becomes, Pcs, manager, vbr
<1>1. ASSUME NEW p \in Procs, Request(p) PROVE Issued(c)'
  BY <1>1, ClientOf, StartShape DEF Request
<1>2. ASSUME NEW p \in Procs, Open(p) PROVE Issued(c)'
  BY <1>2, ClientOf, OpenShape
<1>3. ASSUME NEW p \in Procs, Replace(p) PROVE Issued(c)'
  BY <1>3, ClientOf, StartShape, EndShape, DroppedUnused DEF Replace
<1>4. ASSUME NEW p \in Procs, Close(p) PROVE Issued(c)'
  BY <1>4, ClientOf, StartShape, DroppedUnused DEF Close
<1>5. ASSUME NEW p \in Procs, Sweep(p) PROVE Issued(c)'
  BY <1>4, <1>5 DEF Sweep
<1>6. ASSUME NEW p \in Procs, Login(p) PROVE Issued(c)'
  BY <1>6, ClientOf, ToShape, EndShape DEF Login, Authenticate, AuthenticateFails
<1>7. ASSUME NEW p \in Procs, Send(p) PROVE Issued(c)'
  BY <1>7, ClientOf, SendShape
<1>8. ASSUME NEW p \in Procs, Accepted(p) PROVE Issued(c)'
  BY <1>8, ClientOf, EndShape DEF Accepted
<1>9. ASSUME NEW p \in Procs, Unsent(p) PROVE Issued(c)'
  BY <1>9, ClientOf, EndShape DEF Unsent
<1>10. ASSUME NEW p \in Procs, Unauthorized(p) PROVE Issued(c)'
  BY <1>10, ClientOf, ToShape, EndShape DEF Unauthorized
<1>11. ASSUME NEW p \in Procs, Lock(p) PROVE Issued(c)'
  BY <1>11, ClientOf, ToShape DEF Lock
<1>12. ASSUME NEW p \in Procs, Renewed(p) PROVE Issued(c)'
  BY <1>12, ClientOf, AgainShape DEF Renewed, Unlock
<1>13. ASSUME NEW p \in Procs, Renew(p) PROVE Issued(c)'
  BY <1>13, ClientOf, ToShape DEF Renew
<1>14. ASSUME NEW p \in Procs, Answered(p) PROVE Issued(c)'
  BY <1>14, ClientOf, AgainShape, EndShape DEF Answered, Unlock, Authenticate, AuthenticateFails
<1>15. CASE Idle
  BY <1>15 DEF Idle
<1>16. ASSUME NEW t \in 1 .. MaxTokens, Expire(t) PROVE Issued(c)'
  BY <1>16 DEF Expire
<1>17. CASE UNCHANGED vars
  BY <1>17 DEF vars
<1>18. QED
  BY <1>1, <1>2, <1>3, <1>4, <1>5, <1>6, <1>7, <1>8, <1>9, <1>10, <1>11, <1>12, <1>13, <1>14, <1>15, <1>16, <1>17 DEF Next, Step

\* The token that goroutine q was refused with.
LEMMA RefusedStep ==
    ASSUME TypeOK, \A p \in Procs : Doing(p), [Next]_vars, NEW q \in Procs, Refused(q),
           \A c \in Clients : Issued(c)
    PROVE  Refused(q)'
<1> USE Numbers DEF TypeOK, Doing, Issued, Refused, At, Becomes, Pcs, manager, vbr
<1>1. ASSUME NEW p \in Procs, Request(p) PROVE Refused(q)'
  BY <1>1, ClientOf, StartShape DEF Request
<1>2. ASSUME NEW p \in Procs, Open(p) PROVE Refused(q)'
  BY <1>2, ClientOf, OpenShape
<1>3. ASSUME NEW p \in Procs, Replace(p) PROVE Refused(q)'
  BY <1>3, ClientOf, StartShape, EndShape, DroppedUnused DEF Replace
<1>4. ASSUME NEW p \in Procs, Close(p) PROVE Refused(q)'
  BY <1>4, ClientOf, StartShape, DroppedUnused DEF Close
<1>5. ASSUME NEW p \in Procs, Sweep(p) PROVE Refused(q)'
  BY <1>4, <1>5 DEF Sweep
<1>6. ASSUME NEW p \in Procs, Login(p) PROVE Refused(q)'
  BY <1>6, ClientOf, ToShape, EndShape DEF Login, Authenticate, AuthenticateFails
<1>7. ASSUME NEW p \in Procs, Send(p) PROVE Refused(q)'
  BY <1>7, ClientOf, SendShape
<1>8. ASSUME NEW p \in Procs, Accepted(p) PROVE Refused(q)'
  BY <1>8, ClientOf, EndShape DEF Accepted
<1>9. ASSUME NEW p \in Procs, Unsent(p) PROVE Refused(q)'
  BY <1>9, ClientOf, EndShape DEF Unsent
<1>10. ASSUME NEW p \in Procs, Unauthorized(p) PROVE Refused(q)'
  BY <1>10, ClientOf, ToShape, EndShape DEF Unauthorized
<1>11. ASSUME NEW p \in Procs, Lock(p) PROVE Refused(q)'
  BY <1>11, ClientOf, ToShape DEF Lock
<1>12. ASSUME NEW p \in Procs, Renewed(p) PROVE Refused(q)'
  BY <1>12, ClientOf, AgainShape DEF Renewed, Unlock
<1>13. ASSUME NEW p \in Procs, Renew(p) PROVE Refused(q)'
  BY <1>13, ClientOf, ToShape DEF Renew
<1>14. ASSUME NEW p \in Procs, Answered(p) PROVE Refused(q)'
  BY <1>14, ClientOf, AgainShape, EndShape DEF Answered, Unlock, Authenticate, AuthenticateFails
<1>15. CASE Idle
  BY <1>15 DEF Idle
<1>16. ASSUME NEW t \in 1 .. MaxTokens, Expire(t) PROVE Refused(q)'
  BY <1>16 DEF Expire
<1>17. CASE UNCHANGED vars
  BY <1>17 DEF vars
<1>18. QED
  BY <1>1, <1>2, <1>3, <1>4, <1>5, <1>6, <1>7, <1>8, <1>9, <1>10, <1>11, <1>12, <1>13, <1>14, <1>15, <1>16, <1>17 DEF Next, Step

\* The lock that goroutine q renews a token under, and that token.
LEMMA RenewingStep ==
    ASSUME TypeOK, \A p \in Procs : Doing(p), [Next]_vars, NEW q \in Procs, Renewing(q),
           \A p \in Procs : Renewing(p) /\ OpenerAlone(p)
    PROVE  Renewing(q)'
<1> USE Numbers DEF TypeOK, Doing, OpenerAlone, Renewing, At, Becomes, Pcs, manager, vbr
<1>1. ASSUME NEW p \in Procs, Request(p) PROVE Renewing(q)'
  BY <1>1, ClientOf, StartShape DEF Request
<1>2. ASSUME NEW p \in Procs, Open(p) PROVE Renewing(q)'
  BY <1>2, ClientOf, OpenShape
<1>3. ASSUME NEW p \in Procs, Replace(p) PROVE Renewing(q)'
  BY <1>3, ClientOf, StartShape, EndShape, DroppedUnused DEF Replace
<1>4. ASSUME NEW p \in Procs, Close(p) PROVE Renewing(q)'
  BY <1>4, ClientOf, StartShape, DroppedUnused DEF Close
<1>5. ASSUME NEW p \in Procs, Sweep(p) PROVE Renewing(q)'
  BY <1>4, <1>5 DEF Sweep
<1>6. ASSUME NEW p \in Procs, Login(p) PROVE Renewing(q)'
  BY <1>6, ClientOf, ToShape, EndShape DEF Login, Authenticate, AuthenticateFails
<1>7. ASSUME NEW p \in Procs, Send(p) PROVE Renewing(q)'
  BY <1>7, ClientOf, SendShape
<1>8. ASSUME NEW p \in Procs, Accepted(p) PROVE Renewing(q)'
  BY <1>8, ClientOf, EndShape DEF Accepted
<1>9. ASSUME NEW p \in Procs, Unsent(p) PROVE Renewing(q)'
  BY <1>9, ClientOf, EndShape DEF Unsent
<1>10. ASSUME NEW p \in Procs, Unauthorized(p) PROVE Renewing(q)'
  BY <1>10, ClientOf, ToShape, EndShape DEF Unauthorized
<1>11. ASSUME NEW p \in Procs, Lock(p) PROVE Renewing(q)'
  BY <1>11, ClientOf, ToShape DEF Lock
<1>12. ASSUME NEW p \in Procs, Renewed(p) PROVE Renewing(q)'
  BY <1>12, ClientOf, AgainShape DEF Renewed, Unlock
<1>13. ASSUME NEW p \in Procs, Renew(p) PROVE Renewing(q)'
  BY <1>13, ClientOf, ToShape DEF Renew
<1>14. ASSUME NEW p \in Procs, Answered(p) PROVE Renewing(q)'
  BY <1>14, ClientOf, AgainShape, EndShape DEF Answered, Unlock, Authenticate, AuthenticateFails
<1>15. CASE Idle
  BY <1>15 DEF Idle
<1>16. ASSUME NEW t \in 1 .. MaxTokens, Expire(t) PROVE Renewing(q)'
  BY <1>16 DEF Expire
<1>17. CASE UNCHANGED vars
  BY <1>17 DEF vars
<1>18. QED
  BY <1>1, <1>2, <1>3, <1>4, <1>5, <1>6, <1>7, <1>8, <1>9, <1>10, <1>11, <1>12, <1>13, <1>14, <1>15, <1>16, <1>17 DEF Next, Step

\* The client that is being opened by q.
LEMMA OpenerStep ==
    ASSUME TypeOK, \A p \in Procs : Doing(p), [Next]_vars, NEW q \in Procs, OpenerAlone(q),
           \A c \in Clients : Issued(c)
    PROVE  OpenerAlone(q)'
<1> USE Numbers DEF TypeOK, Doing, OpenerAlone, Issued, At, Becomes, Pcs, manager, vbr
<1>1. ASSUME NEW p \in Procs, Request(p) PROVE OpenerAlone(q)'
  BY <1>1, ClientOf, StartShape DEF Request
<1>2. ASSUME NEW p \in Procs, Open(p) PROVE OpenerAlone(q)'
  BY <1>2, ClientOf, OpenShape
<1>3. ASSUME NEW p \in Procs, Replace(p) PROVE OpenerAlone(q)'
  BY <1>3, ClientOf, StartShape, EndShape, DroppedUnused DEF Replace
<1>4. ASSUME NEW p \in Procs, Close(p) PROVE OpenerAlone(q)'
  BY <1>4, ClientOf, StartShape, DroppedUnused DEF Close
<1>5. ASSUME NEW p \in Procs, Sweep(p) PROVE OpenerAlone(q)'
  BY <1>4, <1>5 DEF Sweep
<1>6. ASSUME NEW p \in Procs, Login(p) PROVE OpenerAlone(q)'
  BY <1>6, ClientOf, ToShape, EndShape DEF Login, Authenticate, AuthenticateFails
<1>7. ASSUME NEW p \in Procs, Send(p) PROVE OpenerAlone(q)'
  BY <1>7, ClientOf, SendShape
<1>8. ASSUME NEW p \in Procs, Accepted(p) PROVE OpenerAlone(q)'
  BY <1>8, ClientOf, EndShape DEF Accepted
<1>9. ASSUME NEW p \in Procs, Unsent(p) PROVE OpenerAlone(q)'
  BY <1>9, ClientOf, EndShape DEF Unsent
<1>10. ASSUME NEW p \in Procs, Unauthorized(p) PROVE OpenerAlone(q)'
  BY <1>10, ClientOf, ToShape, EndShape DEF Unauthorized
<1>11. ASSUME NEW p \in Procs, Lock(p) PROVE OpenerAlone(q)'
  BY <1>11, ClientOf, ToShape DEF Lock
<1>12. ASSUME NEW p \in Procs, Renewed(p) PROVE OpenerAlone(q)'
  BY <1>12, ClientOf, AgainShape DEF Renewed, Unlock
<1>13. ASSUME NEW p \in Procs, Renew(p) PROVE OpenerAlone(q)'
  BY <1>13, ClientOf, ToShape DEF Renew
<1>14. ASSUME NEW p \in Procs, Answered(p) PROVE OpenerAlone(q)'
  BY <1>14, ClientOf, AgainShape, EndShape DEF Answered, Unlock, Authenticate, AuthenticateFails
<1>15. CASE Idle
  BY <1>15 DEF Idle
<1>16. ASSUME NEW t \in 1 .. MaxTokens, Expire(t) PROVE OpenerAlone(q)'
  BY <1>16 DEF Expire
<1>17. CASE UNCHANGED vars
  BY <1>17 DEF vars
<1>18. QED
  BY <1>1, <1>2, <1>3, <1>4, <1>5, <1>6, <1>7, <1>8, <1>9, <1>10, <1>11, <1>12, <1>13, <1>14, <1>15, <1>16, <1>17 DEF Next, Step

\* The session's client, if q has it.
LEMMA SessionStep ==
    ASSUME TypeOK, \A p \in Procs : Doing(p), [Next]_vars, NEW q \in Procs, SessionInUse(q),
           \A p \in Procs : OpenerAlone(p)
    PROVE  SessionInUse(q)'
<1> USE Numbers DEF TypeOK, Doing, OpenerAlone, SessionInUse, At, Becomes, Pcs, manager, vbr
<1>1. ASSUME NEW p \in Procs, Request(p) PROVE SessionInUse(q)'
  BY <1>1, ClientOf, StartShape DEF Request
<1>2. ASSUME NEW p \in Procs, Open(p) PROVE SessionInUse(q)'
  BY <1>2, ClientOf, OpenShape
<1>3. ASSUME NEW p \in Procs, Replace(p) PROVE SessionInUse(q)'
  BY <1>3, ClientOf, StartShape, EndShape, DroppedUnused DEF Replace
<1>4. ASSUME NEW p \in Procs, Close(p) PROVE SessionInUse(q)'
  BY <1>4, ClientOf, StartShape, DroppedUnused DEF Close
<1>5. ASSUME NEW p \in Procs, Sweep(p) PROVE SessionInUse(q)'
  BY <1>4, <1>5 DEF Sweep
<1>6. ASSUME NEW p \in Procs, Login(p) PROVE SessionInUse(q)'
  BY <1>6, ClientOf, ToShape, EndShape DEF Login, Authenticate, AuthenticateFails
<1>7. ASSUME NEW p \in Procs, Send(p) PROVE SessionInUse(q)'
  BY <1>7, ClientOf, SendShape
<1>8. ASSUME NEW p \in Procs, Accepted(p) PROVE SessionInUse(q)'
  BY <1>8, ClientOf, EndShape DEF Accepted
<1>9. ASSUME NEW p \in Procs, Unsent(p) PROVE SessionInUse(q)'
  BY <1>9, ClientOf, EndShape DEF Unsent
<1>10. ASSUME NEW p \in Procs, Unauthorized(p) PROVE SessionInUse(q)'
  BY <1>10, ClientOf, ToShape, EndShape DEF Unauthorized
<1>11. ASSUME NEW p \in Procs, Lock(p) PROVE SessionInUse(q)'
  BY <1>11, ClientOf, ToShape DEF Lock
<1>12. ASSUME NEW p \in Procs, Renewed(p) PROVE SessionInUse(q)'
  BY <1>12, ClientOf, AgainShape DEF Renewed, Unlock
<1>13. ASSUME NEW p \in Procs, Renew(p) PROVE SessionInUse(q)'
  BY <1>13, ClientOf, ToShape DEF Renew
<1>14. ASSUME NEW p \in Procs, Answered(p) PROVE SessionInUse(q)'
  BY <1>14, ClientOf, AgainShape, EndShape DEF Answered, Unlock, Authenticate, AuthenticateFails
<1>15. CASE Idle
  BY <1>15 DEF Idle
<1>16. ASSUME NEW t \in 1 .. MaxTokens, Expire(t) PROVE SessionInUse(q)'
  BY <1>16 DEF Expire
<1>17. CASE UNCHANGED vars
  BY <1>17 DEF vars
<1>18. QED
  BY <1>1, <1>2, <1>3, <1>4, <1>5, <1>6, <1>7, <1>8, <1>9, <1>10, <1>11, <1>12, <1>13, <1>14, <1>15, <1>16, <1>17 DEF Next, Step

\* A client that is neither the session's nor late.
LEMMA LogoutStep ==
    ASSUME TypeOK, \A p \in Procs : Doing(p), [Next]_vars, NEW c \in Clients, ConsoleInv
    PROVE  Logout(c)'
<1> USE Numbers DEF TypeOK, ConsoleInv, Busy, Doing, Issued, Refused, OpenerAlone, SessionInUse, Logout, At, Becomes, Pcs, manager, vbr
<1>1. ASSUME NEW p \in Procs, Request(p) PROVE Logout(c)'
  BY <1>1, ClientOf, StartShape DEF Request
<1>2. ASSUME NEW p \in Procs, Open(p) PROVE Logout(c)'
  BY <1>2, ClientOf, OpenShape
<1>3. ASSUME NEW p \in Procs, Replace(p) PROVE Logout(c)'
  BY <1>3, ClientOf, StartShape, EndShape, DroppedUnused DEF Replace
<1>4. ASSUME NEW p \in Procs, Close(p) PROVE Logout(c)'
  BY <1>4, ClientOf, StartShape, DroppedUnused DEF Close
<1>5. ASSUME NEW p \in Procs, Sweep(p) PROVE Logout(c)'
  BY <1>4, <1>5 DEF Sweep
<1>6. ASSUME NEW p \in Procs, Login(p) PROVE Logout(c)'
  BY <1>6, ClientOf, ToShape, EndShape DEF Login, Authenticate, AuthenticateFails
<1>7. ASSUME NEW p \in Procs, Send(p) PROVE Logout(c)'
  BY <1>7, ClientOf, SendShape
<1>8. ASSUME NEW p \in Procs, Accepted(p) PROVE Logout(c)'
  <2>1. CASE call[p].cl = c
    BY <1>8, <2>1, ClientOf, EndShape DEF Accepted
  <2>2. CASE call[p].cl # c
    BY <1>8, <2>2, ClientOf, EndShape DEF Accepted
  <2>3. QED
    BY <2>1, <2>2
<1>9. ASSUME NEW p \in Procs, Unsent(p) PROVE Logout(c)'
  <2>1. CASE call[p].cl = c
    BY <1>9, <2>1, ClientOf, EndShape DEF Unsent
  <2>2. CASE call[p].cl # c
    BY <1>9, <2>2, ClientOf, EndShape DEF Unsent
  <2>3. QED
    BY <2>1, <2>2
<1>10. ASSUME NEW p \in Procs, Unauthorized(p) PROVE Logout(c)'
  BY <1>10, ClientOf, ToShape, EndShape DEF Unauthorized
<1>11. ASSUME NEW p \in Procs, Lock(p) PROVE Logout(c)'
  BY <1>11, ClientOf, ToShape DEF Lock
<1>12. ASSUME NEW p \in Procs, Renewed(p) PROVE Logout(c)'
  BY <1>12, ClientOf, AgainShape DEF Renewed, Unlock
<1>13. ASSUME NEW p \in Procs, Renew(p) PROVE Logout(c)'
  BY <1>13, ClientOf, ToShape DEF Renew
<1>14. ASSUME NEW p \in Procs, Answered(p) PROVE Logout(c)'
  BY <1>14, ClientOf, AgainShape, EndShape DEF Answered, Unlock, Authenticate, AuthenticateFails
<1>15. CASE Idle
  BY <1>15 DEF Idle
<1>16. ASSUME NEW t \in 1 .. MaxTokens, Expire(t) PROVE Logout(c)'
  BY <1>16 DEF Expire
<1>17. CASE UNCHANGED vars
  BY <1>17 DEF vars
<1>18. QED
  BY <1>1, <1>2, <1>3, <1>4, <1>5, <1>6, <1>7, <1>8, <1>9, <1>10, <1>11, <1>12, <1>13, <1>14, <1>15, <1>16, <1>17 DEF Next, Step

-----------------------------------------------------------------------------
(* The theorems. *)

\* Before anybody has a client.
LEMMA InvInit == Init => ConsoleInv
<1> SUFFICES ASSUME Init PROVE ConsoleInv
  OBVIOUS
<1>1. TypeOK
  <2>1. NoCall \in Calls
    BY DEF NoCall, Calls, Pcs
  <2>2. call \in [Procs -> Calls] /\ token \in [Clients -> Nat] /\ lock \in [Clients -> Procs \cup {0}]
    BY <2>1 DEF Init
  <2>3. session \in Nat /\ clients \in Nat /\ clients <= MaxClients /\ session <= clients
    BY Numbers DEF Init
  <2>4. issued \in Nat /\ faults \in Nat /\ stale \in BOOLEAN /\ alive = {}
    BY DEF Init
  <2>5. QED
    BY <2>2, <2>3, <2>4 DEF TypeOK
<1>2. Busy
  BY Numbers DEF Init, Busy, Doing, Refused, Renewing, OpenerAlone, SessionInUse, NoCall, At
<1>3. \A c \in Clients : Issued(c) /\ Logout(c)
  BY Numbers DEF Init, Issued, Logout, NoCall
<1>4. QED
  BY <1>1, <1>2, <1>3 DEF ConsoleInv

\* Every step keeps the invariant.
LEMMA InvStep == ConsoleInv /\ [Next]_vars => ConsoleInv'
<1> SUFFICES ASSUME ConsoleInv, [Next]_vars PROVE ConsoleInv'
  OBVIOUS
<1>0. TypeOK /\ \A p \in Procs : Doing(p) /\ Refused(p) /\ Renewing(p) /\ OpenerAlone(p) /\ SessionInUse(p)
  BY DEF ConsoleInv, Busy
<1>1. \A c \in Clients : Issued(c)
  BY DEF ConsoleInv
<1>2. TypeOK'
  BY <1>0, TypedStep
<1>3. Busy'
  BY <1>0, <1>1, DoingStep, RefusedStep, RenewingStep, OpenerStep, SessionStep DEF Busy
<1>4. \A c \in Clients : Issued(c)'
  BY <1>0, <1>1, IssuedStep
<1>5. \A c \in Clients : Logout(c)'
  BY <1>0, LogoutStep
<1>6. QED
  BY <1>2, <1>3, <1>4, <1>5 DEF ConsoleInv

\* So it holds for ever.
LEMMA InvAlways == Spec => []ConsoleInv
BY InvInit, InvStep, PTL DEF Spec

\* The types of the console's state, whatever the goroutines do (consoleManager, veeam.Client).
THEOREM TypeCorrect == Spec => []TypeOK
<1>1. ConsoleInv => TypeOK
  BY DEF ConsoleInv
<1>2. QED
  BY <1>1, InvAlways, PTL

\* Once nobody works with a client that was dropped, VBR accepts no token of it, unless a
\* request was in flight at that time or an answer was lost (open, replace, close, sweep).
THEOREM DroppedClientsAreLoggedOut == Spec => []DroppedIsLoggedOut
<1>1. ConsoleInv => DroppedIsLoggedOut
  <2> SUFFICES ASSUME ConsoleInv, NEW c \in 1 .. clients, c # session, c \notin late, Holders(c) = {}
               PROVE  token[c] \notin alive
    BY DEF DroppedIsLoggedOut
  <2>1. c \in Clients /\ c <= clients
    BY Numbers DEF ConsoleInv, TypeOK
  <2>2. \A p \in Procs : call[p].cl # c
    BY DEF Holders
  <2>3. QED
    BY <2>1, <2>2 DEF ConsoleInv, Logout
<1>2. QED
  BY <1>1, InvAlways, PTL

\* The only steps that change a token are those that authenticate, and what they replace is
\* no token or a refused one.
LEMMA TokenReplaced ==
    ASSUME ConsoleInv, Next, NEW c \in Clients, token'[c] # token[c]
    PROVE  token[c] \notin alive
<1> USE DEF At
<1>0. \A p \in Procs : Doing(p) /\ Refused(p) /\ Renewing(p) /\ OpenerAlone(p)
  BY DEF ConsoleInv, Busy
<1>1. PICK p \in Procs : Login(p) \/ Answered(p)
  BY DEF Next, Step, Request, Open, Replace, Close, Sweep, Send, Accepted, Unsent, Unauthorized, Lock,
         Renewed, Renew, Idle, Expire
<1>2. CASE Login(p)
  <2>1. call[p].cl = c /\ call[p].pc = "login"
    BY <1>2 DEF Login, Authenticate, AuthenticateFails, ConsoleInv, TypeOK
  <2>2. token[c] = 0
    BY <1>0, <2>1 DEF Doing, OpenerAlone
  <2>3. QED
    BY <2>2 DEF ConsoleInv, TypeOK
<1>3. CASE Answered(p)
  <2>1. call[p].cl = c /\ call[p].pc = "asking"
    BY <1>3 DEF Answered, Authenticate, AuthenticateFails, ConsoleInv, TypeOK
  <2>2. QED
    BY <1>0, <2>1 DEF Refused, Renewing
<1>4. QED
  BY <1>1, <1>2, <1>3

\* A client never gives up a token that VBR still accepts, however many requests get a 401
\* at once and whenever their answers come (reauthenticate).
THEOREM NoTokenIsLost == Spec => NoTokenLost
<1>1. ConsoleInv /\ [Next]_vars =>
        [\A c \in Clients : token'[c] # token[c] => token[c] \notin alive]_vars
  BY TokenReplaced
<1>2. QED
  BY <1>1, InvAlways, PTL DEF Spec, NoTokenLost
=============================================================================
