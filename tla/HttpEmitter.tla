----------------------------- MODULE HttpEmitter -----------------------------
(***************************************************************************)
(* The SDK's fire-and-forget emitter: emit() appends to a bounded deque,   *)
(* one background task (_run) pops the head and posts it, aclose() waits a *)
(* bounded time for the backlog.  Everything here runs on one thread, so a *)
(* step is the code between two awaits; the network, the server and the    *)
(* host's event loop are the environment.                                  *)
(*                                                                         *)
(* Events are numbered in the order emit() is called.                      *)
(***************************************************************************)
EXTENDS Naturals, Sequences

CONSTANTS MaxEvents,    \* how many events the host emits
          QueueMax      \* queue_max

ASSUME EmitterAssumption ==
    /\ MaxEvents \in Nat
    /\ QueueMax \in Nat \ {0}

VARIABLES
    loop,       \* an event loop is running
    emitted,    \* number of emit() calls so far
    q,          \* _q, oldest first
    wake,       \* _wake
    drain,      \* _drain: "none", or the point where the task is suspended
    inflight,   \* the event the drain is posting, 0 if none
    reply,      \* the server's answer to that POST, "none" until it is there
    closed,     \* _closed
    http,       \* the HTTP client is open
    closing,    \* aclose(): "no", "waiting" for the drain, "closed"
    closedAt,   \* history: emit() calls made before aclose()
    wire,       \* requests sent and not yet processed by the server
    stored,     \* what the server stored, in its order
    refused,    \* history: events the server answered with 4xx or 5xx
    givenUp,    \* history: events whose POST raised or was cancelled
    warned      \* history: events whose failure reached _warn

hostVars == <<loop, emitted>>
queueVars == <<q, wake>>
taskVars == <<drain, inflight, reply>>
closeVars == <<closed, http, closing, closedAt>>
serverVars == <<stored, refused>>
failureVars == <<givenUp, warned>>
vars == <<hostVars, queueVars, taskVars, closeVars, wire, serverVars,
          failureVars>>

Emissions == 1 .. MaxEvents
Elements(s) == {s[i] : i \in DOMAIN s}

\* The points at which the task is alive: about to evaluate its loop
\* condition, asleep on _wake, awaiting the answer of a POST.
Alive == {"ready", "asleep", "posting"}

Init ==
    /\ loop = FALSE /\ emitted = 0
    /\ q = << >> /\ wake = FALSE
    /\ drain = "none" /\ inflight = 0 /\ reply = "none"
    /\ closed = FALSE /\ http = TRUE /\ closing = "no" /\ closedAt = 0
    /\ wire = {} /\ stored = << >> /\ refused = {}
    /\ givenUp = {} /\ warned = {}

-----------------------------------------------------------------------------
(* The host process. *)

\* asyncio.run starts; events may have been emitted before.
LoopStarts ==
    /\ ~loop
    /\ loop' = TRUE
    /\ UNCHANGED <<emitted, queueVars, taskVars, closeVars, wire, serverVars,
                   failureVars>>

\* The drain task ends by cancellation, at whatever await it stands.
CancelDrain ==
    /\ drain' = IF drain \in Alive THEN "cancelled" ELSE drain
    /\ givenUp' = givenUp \union ({inflight} \ {0})
    /\ inflight' = 0
    /\ reply' = "none"

\* asyncio.run returns: it cancels the tasks that are left, and aclose() is
\* not one of them.
LoopStops ==
    /\ loop
    /\ closing # "waiting"
    /\ loop' = FALSE
    /\ CancelDrain
    /\ UNCHANGED <<emitted, queueVars, closeVars, wire, serverVars, warned>>

\* Wrong variants of Pushed: no bound; the newest event is the one dropped.
PushedUnbounded(s, e) == Append(s, e)
PushedDropsNewest(s, e) == IF Len(s) = QueueMax THEN s ELSE Append(s, e)

\* deque(maxlen=queue_max).append: the oldest entry goes when it is full.
Pushed(s, e) == Append(IF Len(s) = QueueMax THEN Tail(s) ELSE s, e)

\* A wrong variant of Woken: only the creation of the task wakes it.
WokenByCreation == wake

\* emit() ends every sleep of the drain.
Woken == TRUE

\* _ensure_drain: the task is created once, when there is a loop to run it.
Ensured == IF drain = "none" /\ loop THEN "ready" ELSE drain

Emit ==
    /\ emitted < MaxEvents
    /\ emitted' = emitted + 1
    /\ q' = Pushed(q, emitted + 1)
    /\ wake' = Woken
    /\ drain' = Ensured
    /\ UNCHANGED <<loop, inflight, reply, closeVars, wire, serverVars,
                   failureVars>>

-----------------------------------------------------------------------------
(* The drain task, _run. *)

\* A wrong variant of Popped: the newest event first.
PoppedNewest(s) == [event |-> s[Len(s)], rest |-> SubSeq(s, 1, Len(s) - 1)]

\* popleft.
Popped(s) == [event |-> Head(s), rest |-> Tail(s)]

\* Wrong variants of Continues: closed ends the loop with events queued;
\* closed does not end it.
ContinuesWhileOpen == ~closed
ContinuesForever == TRUE

\* The loop condition, `not self._closed or self._q`.
Continues == ~closed \/ q # << >>

\* One turn of the loop, from its condition to the next await: pop and start
\* the POST (a closed client raises before it sends), or clear _wake and wait
\* for it, or return.
LoopTurn ==
    \/ /\ Continues /\ q # << >>
       /\ drain' = "posting"
       /\ inflight' = Popped(q).event
       /\ q' = Popped(q).rest
       /\ wire' = IF http THEN wire \union {inflight'} ELSE wire
       /\ UNCHANGED wake
    \/ /\ Continues /\ q = << >>
       /\ drain' = "asleep"
       /\ inflight' = 0
       /\ wake' = FALSE
       /\ UNCHANGED <<q, wire>>
    \/ /\ ~Continues
       /\ drain' = "finished"
       /\ inflight' = 0
       /\ UNCHANGED <<queueVars, wire>>

\* The task runs for the first time, or its wait ends because _wake is set or
\* a second has passed; with the queue still empty both lead back to the loop
\* condition.
DrainRuns ==
    /\ drain \in {"ready", "asleep"}
    /\ LoopTurn
    /\ UNCHANGED <<hostVars, reply, closeVars, serverVars, failureVars>>

\* http.post returns a response, whatever its status: no exception.
PostReturns ==
    /\ drain = "posting"
    /\ reply # "none"
    /\ reply' = "none"
    /\ LoopTurn
    /\ UNCHANGED <<hostVars, closeVars, serverVars, failureVars>>

\* Wrong variants of PostRaises: the event goes back to the queue; the
\* exception ends the task.
PostRaisesRequeues ==
    /\ drain = "posting"
    /\ q' = <<inflight>> \o q
    /\ drain' = "ready" /\ inflight' = 0 /\ reply' = "none"
    /\ UNCHANGED <<hostVars, wake, closeVars, wire, serverVars, failureVars>>

PostRaisesEscapes ==
    /\ drain = "posting"
    /\ drain' = "finished" /\ inflight' = 0 /\ reply' = "none"
    /\ givenUp' = givenUp \union {inflight}
    /\ UNCHANGED <<hostVars, queueVars, closeVars, wire, serverVars, warned>>

\* http.post raises (no connection, no answer within the timeout, response
\* lost, client closed): _warn.  The request may still be on its way.
PostRaises ==
    /\ drain = "posting"
    /\ reply' = "none"
    /\ givenUp' = givenUp \union {inflight}
    /\ warned' = warned \union {inflight}
    /\ LoopTurn
    /\ UNCHANGED <<hostVars, closeVars, serverVars>>

-----------------------------------------------------------------------------
(* The network and the server. *)

ReplyTo(e, answer) == IF e = inflight THEN answer ELSE reply

ServerStores(e) ==
    /\ e \in wire
    /\ wire' = wire \ {e}
    /\ stored' = Append(stored, e)
    /\ reply' = ReplyTo(e, "stored")
    /\ UNCHANGED <<hostVars, queueVars, drain, inflight, closeVars, refused,
                   failureVars>>

\* 401, 422, 500: an answer like any other to the client.
ServerRefuses(e) ==
    /\ e \in wire
    /\ wire' = wire \ {e}
    /\ refused' = refused \union {e}
    /\ reply' = ReplyTo(e, "refused")
    /\ UNCHANGED <<hostVars, queueVars, drain, inflight, closeVars, stored,
                   failureVars>>

RequestLost(e) ==
    /\ e \in wire
    /\ wire' = wire \ {e}
    /\ UNCHANGED <<hostVars, queueVars, taskVars, closeVars, serverVars,
                   failureVars>>

-----------------------------------------------------------------------------
(* aclose. *)

\* Up to the wait for the drain or, when there is no drain, up to the end.
Aclose ==
    /\ loop
    /\ closing = "no"
    /\ closed' = TRUE
    /\ wake' = TRUE
    /\ closedAt' = emitted
    /\ closing' = IF drain = "none" THEN "closed" ELSE "waiting"
    /\ http' = (drain # "none")
    /\ UNCHANGED <<hostVars, q, taskVars, wire, serverVars, failureVars>>

\* wait_for(self._drain) returns, or re-raises the drain's cancellation,
\* which is caught; then the client is closed.
AcloseJoins ==
    /\ closing = "waiting"
    /\ drain \notin Alive
    /\ closing' = "closed"
    /\ http' = FALSE
    /\ UNCHANGED <<hostVars, queueVars, taskVars, closed, closedAt, wire,
                   serverVars, failureVars>>

\* timeout + 1 seconds are over, or aclose() itself is cancelled: the drain
\* is cancelled with what it has left.
AcloseTimesOut ==
    /\ closing = "waiting"
    /\ drain \in Alive
    /\ closing' = "closed"
    /\ http' = FALSE
    /\ CancelDrain
    /\ UNCHANGED <<hostVars, queueVars, closed, closedAt, wire, serverVars,
                   warned>>

-----------------------------------------------------------------------------
DrainStep == DrainRuns \/ PostReturns \/ PostRaises

\* What happens in the host's process.
ClientStep ==
    \/ LoopStarts \/ LoopStops
    \/ Emit
    \/ DrainStep
    \/ Aclose \/ AcloseJoins \/ AcloseTimesOut

Network(e) == ServerStores(e) \/ ServerRefuses(e) \/ RequestLost(e)

Next == ClientStep \/ \E e \in wire : Network(e)

\* The loop runs a task that is ready, the sleep ends after a second and the
\* POST after its timeout.  Nothing is assumed of the network, the server or
\* the host: they may stop for ever.
Spec == Init /\ [][Next]_vars /\ WF_vars(DrainStep)

-----------------------------------------------------------------------------
TypeOK ==
    /\ {loop, wake, closed, http} \subseteq BOOLEAN
    /\ emitted \in 0 .. MaxEvents
    /\ closedAt \in 0 .. emitted
    /\ q \in Seq(Emissions) /\ Len(q) <= QueueMax
    /\ drain \in Alive \union {"none", "finished", "cancelled"}
    /\ inflight \in 0 .. MaxEvents
    /\ drain = "posting" <=> inflight # 0
    /\ reply \in {"none", "stored", "refused"}
    /\ stored \in Seq(Emissions)
    /\ closing \in {"no", "waiting", "closed"}
    /\ wire \union givenUp \union refused \union warned \subseteq Emissions

\* The backlog is always the newest events, in order and without a hole:
\* overflow drops the oldest, the drain takes the oldest, and a failed POST is
\* not put back.
QueueIsNewest == q = [i \in 1 .. Len(q) |-> emitted - Len(q) + i]

\* The server stores events in the order they were emitted, except an event
\* whose POST was given up while the request was still on its way.
OrderUnlessGivenUp ==
    \A i, j \in DOMAIN stored :
        i < j /\ stored[i] > stored[j] => stored[j] \in givenUp

\* The drain never sleeps through work: with an event queued or the emitter
\* closed, the sleeping task has been woken, and the one-second poll is never
\* what delivers an event.
NoLostWakeup == drain = "asleep" /\ (q # << >> \/ closed) => wake

\* A drain that returned by itself left nothing that was emitted before
\* aclose(); only emit() calls made after it can be stranded.
CleanCloseFlushes ==
    drain = "finished" => \A e \in Elements(q) : e > closedAt

\* A queued event is posted or dropped sooner or later, whatever the server
\* answers or fails to answer, unless the drain is cancelled from outside: no
\* failure of a POST ends the task.
QueueMoves ==
    \A e \in Emissions :
        drain \in Alive /\ e \in Elements(q)
            ~> e \notin Elements(q) \/ drain = "cancelled"

\* After aclose() the drain comes to its end without aclose()'s timeout.
ClosedDrainEnds == closed /\ drain \in Alive ~> drain \notin Alive

\* What any Emitter promises: see BestEffortChannel.
Channel == INSTANCE BestEffortChannel
           WITH accepted <- emitted, pending <- Elements(q) \union wire,
                delivered <- stored
ImplementsChannel == Channel!Spec

-----------------------------------------------------------------------------
\* "no loop yet; drain starts on a later emit/aclose": an aclose() that finds
\* events queued has a drain to flush them.  The code has none if no emit()
\* ran inside a loop.
AcloseStartsDrain ==
    [][closing = "no" /\ closing' # "no" /\ q # << >> => drain' # "none"]_vars

\* "network/4xx-raise/5xx/timeout": an event the server refuses reaches
\* _warn.  The code never looks at the status.
RefusalsAreWarned ==
    \A e \in refused : e = inflight \/ e \in warned \union givenUp
=============================================================================
