------------------------------- MODULE LogHub -------------------------------
(***************************************************************************)
(* The log fan-out of one job or deployment: AppendLine, Subscribe, its    *)
(* cancel function and closeSubs, with the SSE handlers that read the      *)
(* channels.  internal/job/job.go and internal/deploy/deploy.go carry the  *)
(* same hub with one difference: AppendLine of a Job ranges over an alias  *)
(* of the subscriber slice after unlocking, a Deployment over a copy.  The *)
(* variable hub says which of the two is running.                          *)
(*                                                                         *)
(* A log line is its number in the order of appending, so the ring buffer  *)
(* is known from the count n alone: it holds the last MaxLines numbers.    *)
(***************************************************************************)
EXTENDS Integers, Sequences, FiniteSets

CONSTANTS
    Emitter,   \* goroutines that log: pipe readers, runner, upload and wiring helpers
    Stream,    \* SSE connections; each subscribes once
    Stuck,     \* connections whose client may stop reading without hanging up
    NoStream,  \* an unused element of a slice's backing array
    ChanCap,   \* capacity of a subscriber channel (256 in both handlers)
    MaxLines,  \* maxBufferedLines
    MaxEmits   \* bound on the lines logged, for model checking only

ASSUME LogHubAssumption ==
    /\ Stuck \subseteq Stream
    /\ NoStream \notin Stream
    /\ ChanCap \in Nat \ {0}
    /\ MaxLines \in Nat \ {0}
    /\ MaxEmits \in Nat

VARIABLES
    hub,       \* "job" or "deploy"
    n,         \* lines appended so far
    arrays,    \* backing arrays of the subs slice, oldest first
    subs,      \* the slice: current array (0 = nil) and length
    emitter,   \* per emitter: the fan-out in progress (line 0 = none)
    stream,    \* per stream: where it is and what it has seen
    chan,      \* per stream: lines in its channel
    closed,    \* streams whose channel is closed
    dropped,   \* history: per stream, lines not sent because the channel was full
    phase,     \* the worker's epilogue: active, final, subsClosed, done
    panicked   \* a send on a closed channel has taken the process down

vars == <<hub, n, arrays, subs, emitter, stream, chan, closed, dropped, phase, panicked>>

Idle == [line |-> 0, arr |-> 0, len |-> 0, pos |-> 1, copy |-> <<>>]

\* The lines a new subscriber gets as history: what the ring still holds.
History == (IF n > MaxLines THEN n - MaxLines + 1 ELSE 1)..n

Init ==
    /\ hub \in {"job", "deploy"}
    /\ n = 0
    /\ arrays = <<>>
    /\ subs = [arr |-> 0, len |-> 0]
    /\ emitter = [e \in Emitter |-> Idle]
    /\ stream = [s \in Stream |-> [at |-> "off", hist |-> {}, from |-> 0, got |-> <<>>, last |-> "none"]]
    /\ chan = [s \in Stream |-> <<>>]
    /\ closed = {}
    /\ dropped = [s \in Stream |-> {}]
    /\ phase = "active"
    /\ panicked = FALSE

-----------------------------------------------------------------------------
(* The slice j.subs / d.subs.  A slice is a window on a backing array, and    *)
(* both append and the removal below write that array in place.               *)

Subscribers == [i \in 1..subs.len |-> arrays[subs.arr][i]]

\* append(subs, s): in place while the capacity lasts, else into a new array of
\* twice the capacity; a slice taken earlier keeps the old array.
AppendSub(s) ==
    LET full == subs.arr = 0 \/ subs.len = Len(arrays[subs.arr])
        cap  == IF subs.len = 0 THEN 1 ELSE 2 * subs.len
    IN  IF full
        THEN /\ arrays' = Append(arrays, [i \in 1..cap |->
                                IF i <= subs.len THEN arrays[subs.arr][i]
                                ELSE IF i = subs.len + 1 THEN s ELSE NoStream])
             /\ subs' = [arr |-> Len(arrays) + 1, len |-> subs.len + 1]
        ELSE /\ arrays' = [arrays EXCEPT ![subs.arr][subs.len + 1] = s]
             /\ subs' = [subs EXCEPT !.len = @ + 1]

\* append(subs[:i], subs[i+1:]...): the tail moves down one place, the last
\* element stays behind the new length.
RemoveSub(i) ==
    /\ arrays' = [arrays EXCEPT ![subs.arr] =
                    [k \in DOMAIN @ |-> IF k \in i..(subs.len - 1) THEN @[k + 1] ELSE @[k]]]
    /\ subs' = [subs EXCEPT !.len = @ - 1]

-----------------------------------------------------------------------------
(* AppendLine. *)

\* Under the mutex: buffer the line, take the subscribers.
AppendLine(e) ==
    /\ ~panicked
    /\ emitter[e].line = 0
    /\ n < MaxEmits
    /\ n' = n + 1
    /\ emitter' = [emitter EXCEPT ![e] =
                    [line |-> n + 1, arr |-> subs.arr, len |-> subs.len, pos |-> 1,
                     copy |-> IF hub = "deploy" THEN Subscribers ELSE <<>>]]
    /\ UNCHANGED <<hub, arrays, subs, stream, chan, closed, dropped, phase, panicked>>

\* Mutant of Target: the deployment hub ranges over the alias too.
TargetAliased(e) == arrays[emitter[e].arr][emitter[e].pos]

\* The channel at the position the range loop has reached: read from the copy, or
\* from the array the alias points to, as it is now.
Target(e) ==
    IF hub = "deploy" THEN emitter[e].copy[emitter[e].pos]
                      ELSE arrays[emitter[e].arr][emitter[e].pos]

Advance(e) == emitter' = [emitter EXCEPT ![e] =
                            IF @.pos = @.len THEN Idle ELSE [@ EXCEPT !.pos = emitter[e].pos + 1]]

\* Mutant: the default clause is missing.
SendBlocking(e) ==
    /\ ~panicked
    /\ emitter[e].line # 0 /\ emitter[e].len > 0
    /\ Target(e) \notin closed /\ Len(chan[Target(e)]) < ChanCap
    /\ chan' = [chan EXCEPT ![Target(e)] = Append(@, emitter[e].line)]
    /\ Advance(e)
    /\ UNCHANGED <<hub, n, arrays, subs, stream, closed, dropped, phase, panicked>>

\* One iteration: a non-blocking send, dropped when the channel is full.
Send(e) ==
    /\ ~panicked
    /\ emitter[e].line # 0 /\ emitter[e].len > 0
    /\ LET s == Target(e) IN
        /\ s \notin closed
        /\ \/ /\ Len(chan[s]) < ChanCap
              /\ chan' = [chan EXCEPT ![s] = Append(@, emitter[e].line)]
              /\ UNCHANGED dropped
           \/ /\ Len(chan[s]) = ChanCap
              /\ dropped' = [dropped EXCEPT ![s] = @ \cup {emitter[e].line}]
              /\ UNCHANGED chan
    /\ Advance(e)
    /\ UNCHANGED <<hub, n, arrays, subs, stream, closed, phase, panicked>>

\* Nobody was subscribed.
SendNone(e) ==
    /\ ~panicked
    /\ emitter[e].line # 0 /\ emitter[e].len = 0
    /\ emitter' = [emitter EXCEPT ![e] = Idle]
    /\ UNCHANGED <<hub, n, arrays, subs, stream, chan, closed, dropped, phase, panicked>>

\* A send on a closed channel panics, default clause or not, and an unrecovered
\* panic ends the process.
SendClosed(e) ==
    /\ ~panicked
    /\ emitter[e].line # 0 /\ emitter[e].len > 0
    /\ Target(e) \in closed
    /\ panicked' = TRUE
    /\ UNCHANGED <<hub, n, arrays, subs, emitter, stream, chan, closed, dropped, phase>>

-----------------------------------------------------------------------------
(* The SSE handlers. *)

\* Subscribe: register and copy the history under one mutex; then replay it.
Subscribe(s) ==
    /\ ~panicked
    /\ stream[s].at = "off"
    /\ stream' = [stream EXCEPT ![s].at = "on", ![s].hist = History,
                                        ![s].from = n]
    /\ AppendSub(s)
    /\ UNCHANGED <<hub, n, emitter, chan, closed, dropped, phase, panicked>>

Receive(s) ==
    /\ ~panicked
    /\ stream[s].at = "on"
    /\ chan[s] # <<>>
    /\ stream' = [stream EXCEPT ![s].got = Append(@, Head(chan[s]))]
    /\ chan' = [chan EXCEPT ![s] = Tail(@)]
    /\ UNCHANGED <<hub, n, arrays, subs, emitter, closed, dropped, phase, panicked>>

\* The deferred cancel: leave the slice and close the channel, if still listed.
CancelSub(s) ==
    IF \E i \in DOMAIN Subscribers : Subscribers[i] = s
    THEN /\ \E i \in DOMAIN Subscribers : Subscribers[i] = s /\ RemoveSub(i)
         /\ closed' = closed \cup {s}
    ELSE UNCHANGED <<arrays, subs, closed>>

\* The state event a stream ends with, and the return that runs cancel.
LastEvent == IF phase = "active" THEN "active" ELSE "final"
End(s, event) ==
    /\ ~panicked
    /\ stream[s].at = "on"
    /\ stream' = [stream EXCEPT ![s].at = "ended", ![s].last = event]
    /\ CancelSub(s)
    /\ UNCHANGED <<hub, n, emitter, chan, dropped, phase, panicked>>

\* The select of the handler: a closed and drained channel, Done(), or the client
\* hanging up, whichever is ready (at random when several are).
EndClosed(s) == s \in closed /\ chan[s] = <<>> /\ End(s, LastEvent)
EndDoneNever(s) == FALSE /\ End(s, LastEvent)   \* mutant: no case <-Done()
EndDone(s)   == phase = "done" /\ End(s, LastEvent)
Hangup(s)    == End(s, "none")

-----------------------------------------------------------------------------
(* The epilogue of the worker. *)

\* markResult / setState.
Conclude ==
    /\ ~panicked
    /\ phase = "active"
    /\ phase' = "final"
    /\ UNCHANGED <<hub, n, arrays, subs, emitter, stream, chan, closed, dropped, panicked>>

\* Mutant of CloseSubs: it may also run before the state is set.
CloseSubsEarly ==
    /\ ~panicked
    /\ phase \in {"active", "final"}
    /\ phase' = IF phase = "final" THEN "subsClosed" ELSE phase
    /\ closed' = closed \cup {Subscribers[i] : i \in 1..subs.len}
    /\ subs' = [arr |-> 0, len |-> 0]
    /\ UNCHANGED <<hub, n, arrays, emitter, stream, chan, dropped, panicked>>

CloseSubs ==
    /\ ~panicked
    /\ phase = "final"
    /\ phase' = "subsClosed"
    /\ closed' = closed \cup {Subscribers[i] : i \in 1..subs.len}
    /\ subs' = [arr |-> 0, len |-> 0]
    /\ UNCHANGED <<hub, n, arrays, emitter, stream, chan, dropped, panicked>>

CloseDone ==
    /\ ~panicked
    /\ phase = "subsClosed"
    /\ phase' = "done"
    /\ UNCHANGED <<hub, n, arrays, subs, emitter, stream, chan, closed, dropped, panicked>>

\* A job stopped in the queue: markCanceled and close(done), without closeSubs.
CancelQueued ==
    /\ ~panicked
    /\ hub = "job" /\ phase = "active" /\ n = 0
    /\ phase' = "done"
    /\ UNCHANGED <<hub, n, arrays, subs, emitter, stream, chan, closed, dropped, panicked>>

-----------------------------------------------------------------------------

Emit(e)  == Send(e) \/ SendNone(e) \/ SendClosed(e)
Serve(s) == Receive(s) \/ EndClosed(s) \/ EndDone(s)

Next ==
    \/ \E e \in Emitter : AppendLine(e) \/ Emit(e)
    \/ \E s \in Stream : Subscribe(s) \/ Serve(s) \/ Hangup(s)
    \/ Conclude \/ CloseSubs \/ CloseDone \/ CancelQueued

\* Goroutines that can run do run, except that the handler of a stuck client may
\* block in a write forever (the server sets no write timeout).  Lines, subscriptions, hangups and the end of
\* the work itself are not assumed to happen.
Spec ==
    /\ Init /\ [][Next]_vars
    /\ \A e \in Emitter : WF_vars(Emit(e))
    /\ \A s \in Stream \ Stuck : WF_vars(Serve(s))
    /\ WF_vars(CloseSubs) /\ WF_vars(CloseDone)

(* Properties. *)

Array == Seq(Stream \cup {NoStream})

TypeOK ==
    /\ hub \in {"job", "deploy"}
    /\ n \in Nat
    /\ arrays \in Seq(Array)
    /\ subs \in [arr : 0..Len(arrays), len : Nat]
    /\ subs.len > 0 => subs.arr # 0 /\ subs.len <= Len(arrays[subs.arr])
    /\ emitter \in [Emitter -> [line : 0..n, arr : 0..Len(arrays), len : Nat,
                                pos : Nat \ {0}, copy : Seq(Stream)]]
    /\ stream \in [Stream -> [at : {"off", "on", "ended"}, hist : SUBSET (1..n),
                              from : 0..n, got : Seq(1..n),
                              last : {"none", "active", "final"}]]
    /\ chan \in [Stream -> Seq(1..n)]
    /\ \A s \in Stream : Len(chan[s]) <= ChanCap
    /\ closed \subseteq Stream
    /\ dropped \in [Stream -> SUBSET (1..n)]
    /\ phase \in {"active", "final", "subsClosed", "done"}
    /\ panicked \in BOOLEAN

\* What stream s has been sent, in order, after its history.
Sent(s) == stream[s].got \o chan[s]

\* Lines some fan-out still has to offer to s.
Pending(s) == {emitter[e].line : e \in {x \in Emitter : emitter[x].line # 0 /\
                \E k \in emitter[x].pos..Len(emitter[x].copy) : emitter[x].copy[k] = s}}

NeverTwice(s) ==
    /\ \A i, k \in DOMAIN Sent(s) : i # k => Sent(s)[i] # Sent(s)[k]
    /\ \A i \in DOMAIN Sent(s) : Sent(s)[i] \notin stream[s].hist

NoGap(s) ==
    ~panicked /\ stream[s].at = "on" /\ s \notin closed =>
        \A l \in stream[s].hist \cup (stream[s].from + 1)..n :
            \/ l \in stream[s].hist \cup dropped[s] \cup Pending(s)
            \/ \E i \in DOMAIN Sent(s) : Sent(s)[i] = l

\* A viewer of a deployment log never sees a line twice, not in the channel, not in the
\* history and again live; and for as long as it is subscribed it got, will get, or was too
\* slow for every line the ring held when it subscribed and every line appended since.
\* (A Job's alias breaks this: a removal that shifts the array under a running fan-out
\* repeats one subscriber and skips another.)
EveryLineOnce == hub = "deploy" => \A s \in Stream : NeverTwice(s) /\ NoGap(s)

\* The state event that ends a stream carries a final state: the channel and Done()
\* are closed after the state was set, whichever of the two the handler saw.
LastEventIsFinal == \A s \in Stream : stream[s].last # "active"

\* A full or abandoned channel never stalls the code that logs: a fan-out in
\* progress ends also when a subscribed client stopped reading.
LoggingNeverStalls == \A e \in Emitter : emitter[e].line # 0 ~> emitter[e].line = 0 \/ panicked

\* Every stream that is being read ends once the work is over, also one that
\* subscribed after closeSubs, whose channel nobody will ever close.
StreamsEnd == \A s \in Stream \ Stuck : stream[s].at = "on" /\ phase = "done"
                                 ~> stream[s].at = "ended" \/ panicked

\* Logging never takes the process down: "Non-blocking send - drop on slow
\* subscribers rather than stalling the runner".
NoPanic == ~panicked
=============================================================================
