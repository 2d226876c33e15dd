------------------------------ MODULE Console ------------------------------
(***************************************************************************)
(* The console session of a deployment (internal/server/                   *)
(* console_handlers.go) and the bearer token of its REST client            *)
(* (internal/veeam/veeam.go): handlers and the idle sweeper open, use,     *)
(* replace and drop a client while its token expires, and each request     *)
(* renews the token for itself on a 401.                                   *)
(***************************************************************************)
EXTENDS Naturals, FiniteSets

CONSTANTS
    Procs,     \* goroutines: HTTP handlers and the sweeper
    MaxClients, \* bound: veeam.New calls
    MaxTokens, \* bound: tokens that VBR hands out
    MaxFaults  \* bound: answers that are lost

\* 0 is the free mutex.
ASSUME ConsoleAssumption == {MaxClients, MaxTokens, MaxFaults} \subseteq Nat /\ 0 \notin Procs

VARIABLES
    session, \* consoleManager.sessions[id]: the client, 0 for none
    stale,   \* its lastUsed is more than consoleIdleTimeout ago
    clients, \* clients made so far
    token,   \* Client.token of each client, 0 for none
    lock,    \* Client.reauthMu: the goroutine that holds it, 0 for none
    issued,  \* tokens handed out so far
    alive,   \* those that VBR accepts
    faults,
    call,    \* what each goroutine is doing
    late     \* clients dropped while a request was using them, or by a lost answer

manager == <<session, stale, clients>>
vbr     == <<issued, alive, faults>>
vars    == <<manager, token, lock, vbr, call, late>>

Clients == 1 .. MaxClients

\* op: request, logout or open, of client cl; tok: the token of the last attempt; again:
\* allowReauth is false.
NoCall == [pc |-> "idle", op |-> "none", cl |-> 0, tok |-> 0, again |-> FALSE]

Init ==
    /\ session = 0 /\ stale = FALSE /\ clients = 0
    /\ token = [c \in Clients |-> 0] /\ lock = [c \in Clients |-> 0]
    /\ issued = 0 /\ alive = {} /\ faults = 0
    /\ call = [p \in Procs |-> NoCall] /\ late = {}

At(p, pc) == call[p].pc = pc
To(p, pc) == call' = [call EXCEPT ![p].pc = pc]
End(p)    == call' = [call EXCEPT ![p] = NoCall]

\* A goroutine starts a call of client c.
Start(p, what, c) ==
    call' = [call EXCEPT ![p] = [NoCall EXCEPT !.pc = "send", !.op = what, !.cl = c]]

\* The goroutines and the requests that are using client c.
Holders(c) == {p \in Procs : call[p].cl = c}
Users(c)   == {p \in Holders(c) : call[p].op = "request"}

-----------------------------------------------------------------------------
(* consoleManager: the lock is held for the map alone, so a client that a *)
(* request has got may be dropped before the request is sent.             *)

\* handleConsoleRequest: get refreshes lastUsed.
Request(p) ==
    /\ At(p, "idle") /\ session # 0
    /\ Start(p, "request", session) /\ stale' = FALSE
    /\ UNCHANGED <<session, clients, token, lock, vbr, late>>

\* handleConsoleOpen: Authenticate comes before the session is installed.
Open(p) ==
    /\ At(p, "idle") /\ clients < MaxClients
    /\ clients' = clients + 1
    /\ call' = [call EXCEPT ![p] = [NoCall EXCEPT !.pc = "login", !.op = "open", !.cl = clients + 1]]
    /\ UNCHANGED <<session, stale, token, lock, vbr, late>>

Dropped(c) == late' = IF c # 0 /\ Users(c) # {} THEN late \cup {c} ELSE late

\* Mutant: the displaced client is forgotten, as open does.
ReplaceForgetting(p) ==
    /\ At(p, "install") /\ End(p)
    /\ session' = call[p].cl /\ stale' = FALSE /\ Dropped(session)
    /\ UNCHANGED <<clients, token, lock, vbr>>

\* replace; the displaced client is logged out by a goroutine of its own.
Replace(p) ==
    /\ At(p, "install") /\ IF session # 0 THEN Start(p, "logout", session) ELSE End(p)
    /\ session' = call[p].cl /\ stale' = FALSE /\ Dropped(session)
    /\ UNCHANGED <<clients, token, lock, vbr>>

\* close, by handleConsoleClose or when the deployment is removed.
Close(p) ==
    /\ At(p, "idle") /\ session # 0
    /\ Start(p, "logout", session)
    /\ session' = 0 /\ stale' = FALSE /\ Dropped(session)
    /\ UNCHANGED <<clients, token, lock, vbr>>

\* Half an hour without a request: one takes a minute at most.
Idle ==
    /\ session # 0 /\ ~stale /\ Users(session) = {} /\ stale' = TRUE
    /\ UNCHANGED <<session, clients, token, lock, vbr, call, late>>

\* sweep, on the ticker.
Sweep(p) == stale /\ Close(p)

-----------------------------------------------------------------------------
(* veeam.Client *)

\* VBR hands out a token.
Authenticate(p) ==
    /\ issued < MaxTokens
    /\ issued' = issued + 1 /\ alive' = alive \cup {issued + 1}
    /\ token' = [token EXCEPT ![call[p].cl] = issued + 1]
    /\ UNCHANGED <<faults, late>>

\* It does not, or its answer is lost and nobody has the token.
AuthenticateFails(p) ==
    /\ UNCHANGED token
    /\ \/ issued = MaxTokens /\ UNCHANGED <<vbr, late>>
       \/ /\ issued < MaxTokens /\ faults < MaxFaults
          /\ faults' = faults + 1
          /\ \/ UNCHANGED <<issued, alive>>
             \/ issued' = issued + 1 /\ alive' = alive \cup {issued + 1}
          /\ late' = late \cup {call[p].cl}

\* The Authenticate of handleConsoleOpen.
Login(p) ==
    /\ At(p, "login")
    /\ \/ Authenticate(p) /\ To(p, "install")
       \/ AuthenticateFails(p) /\ End(p)
    /\ UNCHANGED <<manager, lock>>

\* doOnce and rawOnce read the token and send.
Send(p) ==
    /\ At(p, "send")
    /\ call' = [call EXCEPT ![p].pc = "sent", ![p].tok = token[call[p].cl]]
    /\ UNCHANGED <<manager, token, lock, vbr, late>>

\* The token is accepted; a logout revokes it.
Accepted(p) ==
    /\ At(p, "sent") /\ call[p].tok \in alive /\ End(p)
    /\ alive' = IF call[p].op = "logout" THEN alive \ {call[p].tok} ELSE alive
    /\ UNCHANGED <<manager, token, lock, issued, faults, late>>

\* The connection fails before VBR has seen the call.
Unsent(p) ==
    /\ At(p, "sent") /\ faults < MaxFaults /\ End(p)
    /\ faults' = faults + 1
    /\ late' = IF call[p].op = "logout" THEN late \cup {call[p].cl} ELSE late
    /\ UNCHANGED <<manager, token, lock, issued, alive>>

\* A 401: renew the token and try once more.
Unauthorized(p) ==
    /\ At(p, "sent") /\ call[p].tok \notin alive
    /\ IF call[p].again THEN End(p) ELSE To(p, "renew")
    /\ UNCHANGED <<manager, token, lock, vbr, late>>

\* Mutant: the mutex is not taken.
LockNot(p) ==
    /\ At(p, "renew") /\ To(p, "renewing")
    /\ UNCHANGED <<manager, token, lock, vbr, late>>

\* reauthenticate: one goroutine at a time.
Lock(p) ==
    /\ At(p, "renew") /\ lock[call[p].cl] = 0 /\ To(p, "renewing")
    /\ lock' = [lock EXCEPT ![call[p].cl] = p]
    /\ UNCHANGED <<manager, token, vbr, late>>

Unlock(p) == lock' = [lock EXCEPT ![call[p].cl] = 0]
Again(p)  == call' = [call EXCEPT ![p].pc = "send", ![p].again = TRUE]

\* Mutant: the lock stays with the goroutine that found the token renewed.
RenewedKeepingLock(p) ==
    /\ At(p, "renewing") /\ token[call[p].cl] # call[p].tok /\ Again(p)
    /\ UNCHANGED <<manager, token, lock, vbr, late>>

\* Another goroutine has renewed the token meanwhile.
Renewed(p) ==
    /\ At(p, "renewing") /\ token[call[p].cl] # call[p].tok
    /\ Unlock(p) /\ Again(p)
    /\ UNCHANGED <<manager, token, vbr, late>>

\* It is still the one that was refused: ask for another, under the lock.
Renew(p) ==
    /\ At(p, "renewing") /\ token[call[p].cl] = call[p].tok /\ To(p, "asking")
    /\ UNCHANGED <<manager, token, lock, vbr, late>>

\* The answer.
Answered(p) ==
    /\ At(p, "asking") /\ Unlock(p)
    /\ \/ Authenticate(p) /\ Again(p)
       \/ AuthenticateFails(p) /\ End(p)
    /\ UNCHANGED manager

\* About fifteen minutes after it was handed out.
Expire(t) ==
    /\ t \in alive /\ alive' = alive \ {t}
    /\ UNCHANGED <<manager, token, lock, issued, faults, call, late>>

Step(p) ==
    \/ Login(p) \/ Replace(p) \/ Send(p) \/ Accepted(p) \/ Unsent(p) \/ Unauthorized(p)
    \/ Lock(p) \/ Renewed(p) \/ Renew(p) \/ Answered(p)

Next ==
    \/ \E p \in Procs : Request(p) \/ Open(p) \/ Close(p) \/ Sweep(p) \/ Step(p)
    \/ Idle
    \/ \E t \in 1 .. MaxTokens : Expire(t)

\* Calls have timeouts, and a Go mutex starves nobody for ever.
Fairness == \A p \in Procs : WF_vars(Step(p)) /\ SF_vars(Lock(p))

Spec == Init /\ [][Next]_vars /\ Fairness

-----------------------------------------------------------------------------
(* reauthenticate: however many requests get a 401 at once, and whenever their answers    *)
(* come, a client never gives up a token that VBR still accepts: it could not be revoked. *)
NoTokenLost ==
    [][\A c \in Clients : token'[c] # token[c] => token[c] \notin alive]_vars

(* open, replace, close and sweep: once nobody works with a client that is not the        *)
(* session's, VBR accepts no token of it, unless a request was in flight when the client  *)
(* was dropped, or an answer was lost.                                                    *)
DroppedIsLoggedOut ==
    \A c \in 1 .. clients :
        c # session /\ c \notin late /\ Holders(c) = {} =>
            token[c] \notin alive

(* do: every call ends, since it renews the token once and leaves the lock behind.        *)
CallsEnd == \A p \in Procs : ~At(p, "idle") ~> At(p, "idle")
=============================================================================
