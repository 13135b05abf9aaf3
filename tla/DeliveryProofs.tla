--------------------------- MODULE DeliveryProofs ---------------------------
(***************************************************************************)
(* The emitter by itself and in front of the write path.                   *)
(*                                                                         *)
(* I.  HttpEmitter: its safety for any number of events and any queue_max. *)
(* II. Delivery, from emit() to a readable row, for any number of events,  *)
(*     any queue_max and any size of the id sequence: the invariants of    *)
(*     the emitter and of the write path hold side by side, and a third    *)
(*     one links them.                                                     *)
(***************************************************************************)
EXTENDS Delivery, EventStoreProofs, SequenceTheorems

-----------------------------------------------------------------------------
(* I. The emitter. *)

-----------------------------------------------------------------------------
(* The queue. *)

\* The newest events, of which n is the last, in order and without a hole.
Newest(s, n) == \A i \in 1 .. Len(s) : s[i] = n - Len(s) + i

LEMMA NewestIsQueue ==
    ASSUME TypeOK PROVE Newest(q, emitted) <=> QueueIsNewest
<1>1. q \in [1 .. Len(q) -> Emissions]
  BY LenProperties DEF TypeOK
<1> QED
  BY <1>1 DEF Newest, QueueIsNewest

LEMMA NewestElements ==
    ASSUME NEW s \in Seq(Emissions), NEW n \in Nat, Newest(s, n)
    PROVE  Elements(s) = (n - Len(s) + 1) .. n
<1>1. Len(s) \in Nat /\ DOMAIN s = 1 .. Len(s)
  BY LenProperties
<1>2. \A i \in 1 .. Len(s) : s[i] = n - Len(s) + i
  BY DEF Newest
<1>3. Elements(s) \subseteq (n - Len(s) + 1) .. n
  BY <1>1, <1>2 DEF Elements
<1>4. ASSUME NEW e \in (n - Len(s) + 1) .. n PROVE e \in Elements(s)
  <2>1. e - n + Len(s) \in 1 .. Len(s)
    BY <1>1
  <2>2. s[e - n + Len(s)] = e
    BY <1>1, <1>2, <2>1
  <2> QED
    BY <1>1, <2>1, <2>2 DEF Elements
<1> QED
  BY <1>3, <1>4

\* popleft takes the oldest of them.
LEMMA TailIsNewest ==
    ASSUME NEW s \in Seq(Emissions), NEW n \in Nat, Newest(s, n), s # << >>
    PROVE  /\ Head(s) = n - Len(s) + 1
           /\ Head(s) \in Emissions
           /\ Tail(s) \in Seq(Emissions)
           /\ Len(s) \in 1 .. n
           /\ Len(Tail(s)) = Len(s) - 1
           /\ Newest(Tail(s), n)
<1>1. Len(s) \in Nat \ {0} /\ Head(s) = s[1] /\ s[1] \in Emissions
  <2>1. Len(s) \in Nat \ {0}
    BY EmptySeq
  <2>2. s[1] \in Emissions
    BY <2>1, ElementOfSeq
  <2> QED
    BY <2>1, <2>2
<1>2. /\ Tail(s) \in Seq(Emissions) /\ Len(Tail(s)) = Len(s) - 1
      /\ \A i \in 1 .. Len(Tail(s)) : Tail(s)[i] = s[i + 1]
  BY HeadTailProperties
<1>3. \A i \in 1 .. Len(s) : s[i] = n - Len(s) + i
  BY DEF Newest
<1>4. Head(s) = n - Len(s) + 1
  BY <1>1, <1>3
<1>5. Newest(Tail(s), n)
  BY <1>1, <1>2, <1>3 DEF Newest
<1>6. Len(s) <= n
  BY <1>1, <1>4, EmitterAssumption DEF Emissions
<1> QED
  BY <1>1, <1>2, <1>4, <1>5, <1>6

\* append adds what it appends.
LEMMA AppendElements ==
    ASSUME NEW S, NEW s \in Seq(S), NEW e \in S
    PROVE  Elements(Append(s, e)) = Elements(s) \union {e}
<1> DEFINE t == Append(s, e)
<1>1. /\ DOMAIN s = 1 .. Len(s) /\ Len(s) \in Nat
      /\ DOMAIN t = 1 .. (Len(s) + 1)
      /\ \A i \in 1 .. Len(s) : t[i] = s[i]
      /\ t[Len(s) + 1] = e
  BY AppendProperties, LenProperties
<1> HIDE DEF t
<1>2. Elements(t) \subseteq Elements(s) \union {e}
  BY <1>1 DEF Elements
<1>3. Elements(s) \subseteq Elements(t)
  BY <1>1 DEF Elements
<1>4. e \in Elements(t)
  BY <1>1 DEF Elements
<1> QED
  BY <1>2, <1>3, <1>4 DEF t

\* append on the bounded deque keeps the newest events.
LEMMA PushedIsNewest ==
    ASSUME NEW s \in Seq(Emissions), NEW n \in Nat, Newest(s, n),
           n + 1 \in Emissions, Len(s) <= QueueMax
    PROVE  /\ Pushed(s, n + 1) \in Seq(Emissions)
           /\ Len(Pushed(s, n + 1)) \in 1 .. QueueMax
           /\ Len(Pushed(s, n + 1)) <= Len(s) + 1
           /\ Newest(Pushed(s, n + 1), n + 1)
<1> DEFINE kept == IF Len(s) = QueueMax THEN Tail(s) ELSE s
<1> USE EmitterAssumption
<1>1. /\ kept \in Seq(Emissions) /\ Newest(kept, n)
      /\ Len(kept) < QueueMax /\ Len(kept) <= Len(s)
  <2>1. Len(s) \in Nat
    BY LenProperties
  <2>2. CASE Len(s) = QueueMax
    <3>1. s # << >>
      BY <2>2, EmptySeq
    <3> QED
      BY <2>1, <2>2, <3>1, TailIsNewest
  <2>3. CASE Len(s) # QueueMax
    BY <2>1, <2>3
  <2> QED
    BY <2>2, <2>3
<1>2. Pushed(s, n + 1) = Append(kept, n + 1)
  BY DEF Pushed
<1> HIDE DEF kept
<1>3. /\ Append(kept, n + 1) \in Seq(Emissions)
      /\ Len(Append(kept, n + 1)) = Len(kept) + 1
      /\ \A i \in 1 .. Len(kept) : Append(kept, n + 1)[i] = kept[i]
      /\ Append(kept, n + 1)[Len(kept) + 1] = n + 1
  BY <1>1, AppendProperties
<1>4. Len(kept) \in Nat /\ Len(s) \in Nat
  BY <1>1, LenProperties
<1>5. Newest(Append(kept, n + 1), n + 1)
  <2> DEFINE p == Append(kept, n + 1)
  <2>1. SUFFICES ASSUME NEW i \in 1 .. Len(p)
                 PROVE  p[i] = (n + 1) - Len(p) + i
    BY DEF Newest
  <2>2. CASE i \in 1 .. Len(kept)
    <3>1. p[i] = kept[i] /\ kept[i] = n - Len(kept) + i
      BY <1>1, <1>3, <2>2 DEF Newest
    <3> QED
      BY <1>3, <1>4, <3>1
  <2>3. CASE i = Len(kept) + 1
    BY <1>3, <1>4, <2>3
  <2> QED
    BY <1>3, <1>4, <2>2, <2>3
<1>6. /\ Len(Append(kept, n + 1)) \in 1 .. QueueMax
      /\ Len(Append(kept, n + 1)) <= Len(s) + 1
  BY <1>1, <1>3, <1>4
<1> QED
  BY <1>2, <1>3, <1>5, <1>6

-----------------------------------------------------------------------------
(* The inductive invariant. *)

\* An answer is one to the event in flight, which has left the wire.
ReplyAwaited == reply # "none" => inflight # 0 /\ inflight \notin wire

\* Whoever set _closed is in aclose() or past it, and the drain returns for no
\* other reason.
ClosedByAclose ==
    /\ closed <=> closing # "no"
    /\ drain = "finished" => closed

\* What was sent was popped, the event in flight last of all.
SentInOrder ==
    /\ inflight <= emitted - Len(q)
    /\ \A e \in wire \union Elements(stored) :
          /\ e <= emitted - Len(q)
          /\ inflight # 0 => e <= inflight

\* A request outlives its POST only if the POST was given up.
WireOrGivenUp == \A e \in wire : e = inflight \/ e \in givenUp

QueueParts == Newest(q, emitted) /\ NoLostWakeup /\ CleanCloseFlushes

WireParts == ReplyAwaited /\ SentInOrder /\ WireOrGivenUp /\ OrderUnlessGivenUp

EmitterInv == TypeOK /\ QueueParts /\ ClosedByAclose /\ WireParts

LEMMA EmitterInvInit == Init => EmitterInv
<1> SUFFICES ASSUME Init PROVE EmitterInv
  OBVIOUS
<1> USE EmitterAssumption DEF Init
<1>1. << >> \in Seq(Emissions) /\ Len(<< >>) = 0 /\ Elements(<< >>) = {}
  BY EmptySeq DEF Elements
<1>2. TypeOK
  <2>1. q \in Seq(Emissions) /\ Len(q) <= QueueMax /\ stored \in Seq(Emissions)
    BY <1>1
  <2>2. {loop, wake, closed, http} \subseteq BOOLEAN
    OBVIOUS
  <2>3. wire \union givenUp \union refused \union warned = {}
    OBVIOUS
  <2>4. emitted \in 0 .. MaxEvents /\ closedAt \in 0 .. emitted
    OBVIOUS
  <2> QED
    BY <2>1, <2>2, <2>3, <2>4 DEF TypeOK
<1>3. QueueParts /\ ClosedByAclose
  BY <1>1 DEF QueueParts, Newest, NoLostWakeup, CleanCloseFlushes,
              ClosedByAclose
<1>4. WireParts
  BY <1>1 DEF WireParts, ReplyAwaited, SentInOrder, WireOrGivenUp,
              OrderUnlessGivenUp
<1> QED
  BY <1>2, <1>3, <1>4 DEF EmitterInv

\* What is known of the queue in every state.
LEMMA QueueFacts ==
    ASSUME TypeOK, Newest(q, emitted)
    PROVE  /\ q \in Seq(Emissions) /\ emitted \in Nat
           /\ Len(q) \in 0 .. QueueMax
           /\ Len(q) <= emitted
           /\ Elements(q) = (emitted - Len(q) + 1) .. emitted
<1>1. q \in Seq(Emissions) /\ emitted \in Nat
  BY EmitterAssumption DEF TypeOK
<1>2. Len(q) \in 0 .. QueueMax
  BY <1>1, LenProperties, EmitterAssumption DEF TypeOK
<1>3. Len(q) <= emitted
  BY <1>1, <1>2, TailIsNewest
<1> QED
  BY <1>1, <1>2, <1>3, NewestElements

\* One turn of _run's loop, however the wait before it has ended.
LEMMA LoopTurnInv ==
    ASSUME EmitterInv, LoopTurn, UNCHANGED <<hostVars, closeVars, serverVars>>,
           drain \in Alive, reply' = "none",
           givenUp \subseteq givenUp', inflight \in wire => inflight \in givenUp',
           givenUp' \union warned' \subseteq Emissions
    PROVE  EmitterInv'
<1> USE DEF hostVars, closeVars, serverVars
<1>1. TypeOK /\ Newest(q, emitted)
  BY DEF EmitterInv, QueueParts
<1>2. /\ q \in Seq(Emissions) /\ emitted \in Nat /\ Len(q) \in 0 .. QueueMax
      /\ Len(q) <= emitted
      /\ Elements(q) = (emitted - Len(q) + 1) .. emitted
  BY <1>1, QueueFacts
<1>3. CASE q # << >>
  <2>1. /\ Continues /\ drain' = "posting"
        /\ inflight' = Head(q) /\ q' = Tail(q) /\ wake' = wake
        /\ wire' \subseteq wire \union {Head(q)}
    BY <1>3 DEF LoopTurn, Continues, Popped
  <2>2. /\ Head(q) = emitted - Len(q) + 1
        /\ Head(q) \in Emissions
        /\ Tail(q) \in Seq(Emissions)
        /\ Len(q) \in 1 .. emitted
        /\ Len(Tail(q)) = Len(q) - 1
        /\ Newest(Tail(q), emitted)
    BY <1>1, <1>2, <1>3, TailIsNewest
  <2>3. TypeOK'
    <3>1. q' \in Seq(Emissions) /\ Len(q') <= QueueMax
      BY <1>2, <2>1, <2>2, EmitterAssumption
    <3>2. inflight' \in 1 .. MaxEvents /\ wire' \subseteq Emissions
      BY <1>1, <2>1, <2>2 DEF TypeOK, Emissions
    <3> QED
      BY <1>1, <2>1, <3>1, <3>2, EmitterAssumption DEF TypeOK, Alive
  <2>4. QueueParts'
    BY <2>1, <2>2 DEF QueueParts, NoLostWakeup, CleanCloseFlushes
  <2>5. ClosedByAclose'
    BY <2>1 DEF EmitterInv, ClosedByAclose
  <2>6. inflight' = emitted' - Len(q')
    BY <1>2, <2>1, <2>2
  <2>7. \A e \in wire \union Elements(stored) : e <= emitted - Len(q)
    BY DEF EmitterInv, WireParts, SentInOrder
  <2>8. \A e \in wire \union Elements(stored) : e \in Emissions
    BY <1>1, LenProperties DEF TypeOK, Elements
  <2>9. SentInOrder'
    BY <1>2, <2>1, <2>2, <2>6, <2>7, <2>8 DEF SentInOrder, Emissions
  <2>10. WireParts'
    BY <2>1, <2>9 DEF EmitterInv, WireParts, ReplyAwaited, WireOrGivenUp,
       OrderUnlessGivenUp
  <2> QED
    BY <2>3, <2>4, <2>5, <2>10 DEF EmitterInv
<1>4. CASE q = << >>
  <2>1. /\ q' = q /\ inflight' = 0 /\ wire' = wire
        /\ \/ drain' = "asleep" /\ ~closed
           \/ drain' = "finished" /\ closed
    BY <1>4 DEF LoopTurn, Continues, queueVars
  <2>2. wake' \in BOOLEAN
    BY <1>1, <1>4 DEF LoopTurn, TypeOK, queueVars
  <2>3. TypeOK'
    BY <1>1, <2>1, <2>2, EmitterAssumption DEF TypeOK, Alive
  <2>4. QueueParts'
    BY <1>1, <1>2, <1>4, <2>1 DEF QueueParts, NoLostWakeup, CleanCloseFlushes,
       Newest, Elements
  <2>5. ClosedByAclose'
    BY <2>1 DEF EmitterInv, ClosedByAclose
  <2>6. WireParts'
    BY <1>2, <2>1 DEF EmitterInv, WireParts, ReplyAwaited, SentInOrder,
       WireOrGivenUp, OrderUnlessGivenUp, Elements
  <2> QED
    BY <2>3, <2>4, <2>5, <2>6 DEF EmitterInv
<1> QED
  BY <1>3, <1>4

\* The end of the drain by cancellation.
LEMMA CancelInv ==
    ASSUME EmitterInv, CancelDrain,
           UNCHANGED <<emitted, queueVars, closed, closedAt, wire, serverVars,
                       warned>>,
           {loop', http'} \subseteq BOOLEAN,
           closing' \in {"no", "waiting", "closed"},
           closed' <=> closing' # "no"
    PROVE  EmitterInv'
<1> USE DEF queueVars, serverVars, CancelDrain
<1>1. TypeOK /\ emitted \in Nat /\ Len(q) \in Nat /\ Len(q) <= emitted
  BY QueueFacts DEF EmitterInv, QueueParts
<1>2. TypeOK'
  BY <1>1, EmitterAssumption DEF TypeOK, Alive, Emissions
<1>3. QueueParts'
  BY DEF EmitterInv, QueueParts, Newest, NoLostWakeup, CleanCloseFlushes, Alive
<1>4. ClosedByAclose'
  BY DEF EmitterInv, ClosedByAclose, Alive
<1>5. WireParts'
  <2>1. \A e \in wire : e # 0
    BY <1>1 DEF TypeOK, Emissions
  <2> QED
    BY <1>1, <2>1 DEF EmitterInv, WireParts, ReplyAwaited, SentInOrder,
       WireOrGivenUp, OrderUnlessGivenUp, Elements
<1> QED
  BY <1>2, <1>3, <1>4, <1>5 DEF EmitterInv

-----------------------------------------------------------------------------
(* The network and the server, whatever they answer and when. *)

\* What a step of theirs leaves alone in the client.
ClientKept ==
    UNCHANGED <<hostVars, queueVars, drain, inflight, closeVars, failureVars>>

ReplyOK == reply \in {"none", "stored", "refused"} /\ ReplyAwaited

\* An event is stored.
LEMMA StoredInv ==
    ASSUME EmitterInv, NEW e \in wire, wire' = wire \ {e},
           stored' = Append(stored, e), refused' = refused, ClientKept, ReplyOK'
    PROVE  EmitterInv'
<1> USE DEF ClientKept, hostVars, queueVars, closeVars, failureVars
<1>1. TypeOK /\ emitted \in Nat /\ Len(q) \in Nat
  BY QueueFacts DEF EmitterInv, QueueParts
<1>2. e \in Emissions /\ stored \in Seq(Emissions) /\ Len(stored) \in Nat
  BY <1>1, LenProperties DEF TypeOK
<1>3. /\ stored' \in Seq(Emissions)
      /\ DOMAIN stored' = 1 .. (Len(stored) + 1)
      /\ \A i \in 1 .. Len(stored) : stored'[i] = stored[i]
      /\ stored'[Len(stored) + 1] = e
      /\ DOMAIN stored = 1 .. Len(stored)
  BY <1>2, AppendProperties, LenProperties
<1>4. TypeOK'
  BY <1>1, <1>3 DEF TypeOK, ReplyOK
<1>5. QueueParts' /\ ClosedByAclose'
  BY DEF EmitterInv, QueueParts, Newest, NoLostWakeup, CleanCloseFlushes,
         ClosedByAclose
<1>6. Elements(stored') \subseteq Elements(stored) \union {e}
  BY <1>2, <1>3 DEF Elements
<1>7. SentInOrder' /\ WireOrGivenUp'
  BY <1>6 DEF EmitterInv, WireParts, SentInOrder, WireOrGivenUp
<1>8. OrderUnlessGivenUp'
  <2> SUFFICES ASSUME NEW i \in DOMAIN stored', NEW j \in DOMAIN stored',
                      i < j, stored'[i] > stored'[j]
               PROVE  stored'[j] \in givenUp'
    BY DEF OrderUnlessGivenUp
  <2>1. i \in DOMAIN stored /\ stored'[i] = stored[i]
    BY <1>2, <1>3
  <2>2. CASE j \in DOMAIN stored
    BY <1>3, <2>1, <2>2 DEF EmitterInv, WireParts, OrderUnlessGivenUp
  <2>3. CASE j = Len(stored) + 1
    <3>1. stored[i] \in Elements(stored) /\ stored[i] \in Emissions
      BY <1>2, <1>3, <2>1 DEF Elements
    <3>2. inflight # e
      BY <1>2, <1>3, <2>1, <2>3, <3>1, EmitterAssumption
         DEF EmitterInv, WireParts, SentInOrder, Emissions
    <3> QED
      BY <1>3, <2>3, <3>2 DEF EmitterInv, WireParts, WireOrGivenUp
  <2> QED
    BY <1>2, <1>3, <2>2, <2>3
<1> QED
  BY <1>4, <1>5, <1>7, <1>8 DEF EmitterInv, WireParts, ReplyOK

\* A request leaves the wire otherwise, or an answer arrives.
LEMMA NotStoredInv ==
    ASSUME EmitterInv, wire' \subseteq wire, stored' = stored,
           refused' \subseteq Emissions, ClientKept, ReplyOK'
    PROVE  EmitterInv'
<1> USE DEF ClientKept, hostVars, queueVars, closeVars, failureVars
<1>1. TypeOK'
  BY DEF EmitterInv, TypeOK, ReplyOK
<1>2. QueueParts' /\ ClosedByAclose'
  BY DEF EmitterInv, QueueParts, Newest, NoLostWakeup, CleanCloseFlushes,
         ClosedByAclose
<1>3. WireParts'
  BY DEF EmitterInv, WireParts, SentInOrder, WireOrGivenUp,
         OrderUnlessGivenUp, ReplyOK
<1> QED
  BY <1>1, <1>2, <1>3 DEF EmitterInv

\* The answer to a request that has just left the wire.
LEMMA ReplyToOK ==
    ASSUME EmitterInv, NEW e \in Emissions, NEW answer \in {"stored", "refused"},
           inflight' = inflight, wire' \subseteq wire, e \notin wire',
           reply' = ReplyTo(e, answer)
    PROVE  ReplyOK'
BY EmitterAssumption
   DEF EmitterInv, TypeOK, WireParts, ReplyAwaited, ReplyOK, ReplyTo, Emissions

LEMMA NetworkInv ==
    ASSUME EmitterInv, NEW e \in wire, Network(e) PROVE EmitterInv'
<1> USE DEF ClientKept, hostVars, queueVars, taskVars, closeVars, serverVars,
            failureVars
<1>1. e \in Emissions /\ refused \subseteq Emissions
  BY DEF EmitterInv, TypeOK
<1>2. CASE ServerStores(e)
  <2>1. ReplyOK'
    BY <1>1, <1>2, ReplyToOK DEF ServerStores
  <2> QED
    BY <1>2, <2>1, StoredInv DEF ServerStores
<1>3. CASE ServerRefuses(e)
  <2>1. ReplyOK'
    BY <1>1, <1>3, ReplyToOK DEF ServerRefuses
  <2> QED
    BY <1>1, <1>3, <2>1, NotStoredInv DEF ServerRefuses
<1>4. CASE RequestLost(e)
  <2>1. ReplyOK'
    BY <1>4 DEF RequestLost, EmitterInv, TypeOK, WireParts, ReplyOK,
       ReplyAwaited
  <2> QED
    BY <1>1, <1>4, <2>1, NotStoredInv DEF RequestLost
<1> QED
  BY <1>2, <1>3, <1>4 DEF Network

-----------------------------------------------------------------------------
(* The client. *)

LEMMA ClientStepInv ==
    ASSUME EmitterInv, ClientStep PROVE EmitterInv'
<1> USE DEF hostVars, queueVars, taskVars, closeVars, serverVars, failureVars
<1>1. TypeOK /\ Newest(q, emitted) /\ QueueParts
  BY DEF EmitterInv, QueueParts
<1>2. /\ q \in Seq(Emissions) /\ emitted \in Nat /\ Len(q) \in 0 .. QueueMax
      /\ Len(q) <= emitted
      /\ Elements(q) = (emitted - Len(q) + 1) .. emitted
  BY <1>1, QueueFacts
<1>3. CASE LoopStarts
  BY <1>3 DEF LoopStarts, EmitterInv, TypeOK, QueueParts, Newest,
     NoLostWakeup, CleanCloseFlushes, ClosedByAclose, WireParts,
     ReplyAwaited, SentInOrder, WireOrGivenUp, OrderUnlessGivenUp
<1>4. CASE LoopStops
  BY <1>4, <1>1, CancelInv DEF LoopStops, TypeOK, EmitterInv, ClosedByAclose
<1>5. CASE Emit
  <2>1. /\ emitted + 1 \in Emissions /\ emitted' = emitted + 1
        /\ q' = Pushed(q, emitted + 1) /\ wake'
        /\ drain' \in {drain, "ready"} /\ (drain' # drain => drain = "none")
    BY <1>2, <1>5, EmitterAssumption DEF Emit, Woken, Ensured, Emissions
  <2>2. /\ q' \in Seq(Emissions) /\ Len(q') \in 1 .. QueueMax
        /\ Len(q') <= Len(q) + 1 /\ Newest(q', emitted')
    BY <1>1, <1>2, <2>1, PushedIsNewest
  <2>3. Elements(q') = (emitted' - Len(q') + 1) .. emitted'
    BY <1>2, <2>1, <2>2, NewestElements
  <2>4. TypeOK'
    BY <1>1, <1>2, <1>5, <2>1, <2>2, EmitterAssumption
       DEF Emit, TypeOK, Alive, Emissions
  <2>5. QueueParts'
    <3>1. CleanCloseFlushes'
      BY <1>1, <1>2, <1>5, <2>1, <2>2, <2>3
         DEF Emit, EmitterInv, QueueParts, CleanCloseFlushes, TypeOK
    <3> QED
      BY <2>1, <2>2, <3>1 DEF QueueParts, NoLostWakeup
  <2>6. ClosedByAclose'
    BY <1>5, <2>1 DEF Emit, EmitterInv, ClosedByAclose
  <2>7. emitted - Len(q) <= emitted' - Len(q')
    BY <1>2, <2>1, <2>2
  <2>8. \A e \in wire \union Elements(stored) : e \in Emissions
    BY <1>1, LenProperties DEF TypeOK, Elements
  <2>9. WireParts'
    BY <1>1, <1>2, <1>5, <2>1, <2>2, <2>7, <2>8
       DEF Emit, EmitterInv, TypeOK, WireParts, ReplyAwaited, SentInOrder,
           WireOrGivenUp, OrderUnlessGivenUp, Emissions
  <2> QED
    BY <2>4, <2>5, <2>6, <2>9 DEF EmitterInv
<1>6. CASE DrainRuns
  <2>1. inflight = 0 /\ reply = "none" /\ 0 \notin wire
    BY <1>1, <1>6 DEF DrainRuns, TypeOK, EmitterInv, WireParts, ReplyAwaited,
       Emissions
  <2> QED
    BY <1>1, <1>6, <2>1, LoopTurnInv DEF DrainRuns, Alive, TypeOK
<1>7. CASE PostReturns
  BY <1>1, <1>7, LoopTurnInv
     DEF PostReturns, Alive, TypeOK, EmitterInv, WireParts, ReplyAwaited
<1>8. CASE PostRaises
  <2>1. inflight \in Emissions
    BY <1>1, <1>8, EmitterAssumption DEF PostRaises, TypeOK, Emissions
  <2> QED
    BY <1>1, <1>8, <2>1, LoopTurnInv DEF PostRaises, Alive, TypeOK
<1>9. CASE Aclose
  <2>1. TypeOK'
    BY <1>1, <1>2, <1>9 DEF Aclose, TypeOK
  <2>2. drain # "finished"
    BY <1>9 DEF Aclose, EmitterInv, ClosedByAclose
  <2>3. QueueParts' /\ ClosedByAclose'
    BY <1>9, <2>2 DEF Aclose, EmitterInv, QueueParts, Newest, NoLostWakeup,
       CleanCloseFlushes, ClosedByAclose
  <2>4. WireParts'
    BY <1>9 DEF Aclose, EmitterInv, WireParts, ReplyAwaited, SentInOrder,
       WireOrGivenUp, OrderUnlessGivenUp
  <2> QED
    BY <2>1, <2>3, <2>4 DEF EmitterInv
<1>10. CASE AcloseJoins
  <2>1. TypeOK'
    BY <1>1, <1>10 DEF AcloseJoins, TypeOK
  <2>2. QueueParts' /\ ClosedByAclose'
    BY <1>10 DEF AcloseJoins, EmitterInv, QueueParts, Newest, NoLostWakeup,
       CleanCloseFlushes, ClosedByAclose
  <2>3. WireParts'
    BY <1>10 DEF AcloseJoins, EmitterInv, WireParts, ReplyAwaited,
       SentInOrder, WireOrGivenUp, OrderUnlessGivenUp
  <2> QED
    BY <2>1, <2>2, <2>3 DEF EmitterInv
<1>11. CASE AcloseTimesOut
  BY <1>1, <1>11, CancelInv
     DEF AcloseTimesOut, TypeOK, EmitterInv, ClosedByAclose
<1> QED
  BY <1>3, <1>4, <1>5, <1>6, <1>7, <1>8, <1>9, <1>10, <1>11
     DEF ClientStep, DrainStep

LEMMA StutterInv == ASSUME EmitterInv, UNCHANGED vars PROVE EmitterInv'
BY DEF vars, hostVars, queueVars, taskVars, closeVars, serverVars,
       failureVars, EmitterInv, TypeOK, QueueParts, Newest, NoLostWakeup,
       CleanCloseFlushes, ClosedByAclose, WireParts, ReplyAwaited,
       SentInOrder, WireOrGivenUp, OrderUnlessGivenUp

LEMMA EmitterInvStep == ASSUME EmitterInv, [Next]_vars PROVE EmitterInv'
BY ClientStepInv, NetworkInv, StutterInv DEF Next

THEOREM EmitterInvariance == Spec => []EmitterInv
BY EmitterInvInit, EmitterInvStep, PTL DEF Spec

-----------------------------------------------------------------------------
(* What the invariant says of the code. *)

\* Type correctness of HttpEmitter; the queue never exceeds queue_max.
THEOREM EmitterTyping == Spec => []TypeOK
<1>1. EmitterInv => TypeOK
  BY DEF EmitterInv
<1> QED
  BY <1>1, EmitterInvariance, PTL

\* The deque of emit() and _run holds the newest events, in order and without
\* a hole, whatever was dropped, posted or given up.
THEOREM BacklogIsNewest == Spec => []QueueIsNewest
<1>1. EmitterInv => QueueIsNewest
  BY NewestIsQueue DEF EmitterInv, QueueParts
<1> QED
  BY <1>1, EmitterInvariance, PTL

\* _run posts one event at a time: only an event whose POST was given up can
\* be stored behind a later one.
THEOREM EmissionOrder == Spec => []OrderUnlessGivenUp
<1>1. EmitterInv => OrderUnlessGivenUp
  BY DEF EmitterInv, WireParts
<1> QED
  BY <1>1, EmitterInvariance, PTL

\* emit() and aclose() set _wake after what they change, _run clears it before
\* it looks: no wake-up is lost.
THEOREM WakeupIsKept == Spec => []NoLostWakeup
<1>1. EmitterInv => NoLostWakeup
  BY DEF EmitterInv, QueueParts
<1> QED
  BY <1>1, EmitterInvariance, PTL

\* _run returns only with everything emitted before aclose() off the queue.
THEOREM CloseFlushes == Spec => []CleanCloseFlushes
<1>1. EmitterInv => CleanCloseFlushes
  BY DEF EmitterInv, QueueParts
<1> QED
  BY <1>1, EmitterInvariance, PTL

-----------------------------------------------------------------------------
(* HttpEmitter is a best-effort channel. *)

Pending == Elements(q) \union wire

LEMMA ChannelStep ==
    ASSUME EmitterInv, EmitterInv', [Next]_vars
    PROVE  [Channel!Next]_<<emitted, Pending, stored>>
<1> USE DEF hostVars, queueVars, taskVars, closeVars, serverVars, failureVars
<1>1. /\ q \in Seq(Emissions) /\ emitted \in Nat /\ Len(q) \in Nat
      /\ Elements(q) = (emitted - Len(q) + 1) .. emitted
      /\ Newest(q, emitted) /\ wire \subseteq Emissions
  BY QueueFacts DEF EmitterInv, QueueParts, TypeOK
<1>2. /\ Elements(q') = (emitted' - Len(q') + 1) .. emitted'
      /\ emitted' \in Nat /\ Len(q') \in Nat
  <2>1. /\ q' \in Seq(Emissions) /\ emitted' \in Nat
        /\ Newest(q', emitted')
    BY EmitterAssumption DEF EmitterInv, QueueParts, TypeOK
  <2> QED
    BY <2>1, NewestElements, LenProperties
<1>3. ASSUME emitted' = emitted, stored' = stored, Pending' \subseteq Pending
      PROVE  Channel!Lose
  BY <1>3 DEF Channel!Lose, Pending
<1>4. CASE UNCHANGED vars
  BY <1>4 DEF vars, Pending
<1>5. CASE Emit
  <2>1. emitted < MaxEvents /\ emitted' = emitted + 1 /\ q' = Pushed(q, emitted + 1)
        /\ wire' = wire /\ stored' = stored
    BY <1>5 DEF Emit
  <2>2. emitted + 1 \in Emissions /\ Len(q) <= QueueMax
    BY <1>1, <2>1, EmitterAssumption DEF Emissions, EmitterInv, TypeOK
  <2>3. Len(q') <= Len(q) + 1
    BY <1>1, <2>1, <2>2, PushedIsNewest
  <2>4. Elements(q') \subseteq Elements(q) \union {emitted + 1}
    BY <1>1, <1>2, <2>1, <2>3
  <2> QED
    BY <2>1, <2>4 DEF Channel!Next, Channel!Accept, Pending
<1>6. CASE DrainStep
  <2>1. LoopTurn /\ emitted' = emitted /\ stored' = stored
    BY <1>6 DEF DrainStep, DrainRuns, PostReturns, PostRaises
  <2>2. CASE q # << >>
    <3>1. q' = Tail(q) /\ wire' \subseteq wire \union {Head(q)}
      BY <2>1, <2>2 DEF LoopTurn, Continues, Popped
    <3>2. /\ Head(q) = emitted - Len(q) + 1
          /\ Len(q) \in 1 .. emitted /\ Len(q') = Len(q) - 1
      BY <1>1, <2>2, <3>1, TailIsNewest
    <3>3. Head(q) \in Elements(q) /\ Elements(q') \subseteq Elements(q)
      BY <1>1, <1>2, <2>1, <3>2
    <3> QED
      BY <1>3, <2>1, <3>1, <3>3 DEF Channel!Next, Pending
  <2>3. CASE q = << >>
    BY <1>3, <2>1, <2>3 DEF LoopTurn, Channel!Next, Pending
  <2> QED
    BY <2>2, <2>3
<1>7. ASSUME NEW e \in wire, Network(e) PROVE Channel!Next
  <2>1. e \in Pending /\ e \notin Elements(q)
    BY <1>1, <1>7 DEF Pending, EmitterInv, WireParts, SentInOrder, Emissions
  <2>2. CASE ServerStores(e)
    <3>1. Pending' = Pending \ {e}
      BY <2>1, <2>2 DEF ServerStores, Pending
    <3>2. Channel!Deliver(e)
      BY <2>1, <2>2, <3>1 DEF ServerStores, Channel!Deliver, Pending
    <3> QED
      BY <2>1, <3>2 DEF Channel!Next, Pending
  <2>3. CASE ServerRefuses(e) \/ RequestLost(e)
    BY <1>3, <2>3 DEF ServerRefuses, RequestLost, Channel!Next, Pending
  <2> QED
    BY <1>7, <2>2, <2>3 DEF Network
<1>8. CASE LoopStarts \/ LoopStops \/ Aclose \/ AcloseJoins \/ AcloseTimesOut
  BY <1>3, <1>8 DEF LoopStarts, LoopStops, Aclose, AcloseJoins,
     AcloseTimesOut, Channel!Next, Pending
<1> QED
  BY <1>4, <1>5, <1>6, <1>7, <1>8 DEF Next, ClientStep

\* HttpEmitter keeps the promise of Emitter: emit() never refuses an event,
\* events may be lost or late, none is stored that was not emitted or that
\* was stored or dropped before.
THEOREM EmitterImplementsChannel == Spec => ImplementsChannel
<1>1. Init => Channel!Init
  BY EmptySeq DEF Init, Channel!Init, Elements
<1>2. EmitterInv /\ EmitterInv' /\ [Next]_vars =>
          [Channel!Next]_<<emitted, Pending, stored>>
  BY ChannelStep
<1> QED
  BY <1>1, <1>2, EmitterInvariance, PTL
     DEF Spec, ImplementsChannel, Channel!Spec, Channel!channelVars, Pending

-----------------------------------------------------------------------------
(* II. Emitter, network and write path. *)

\* The transaction of a request ends when the request leaves the wire.
WireMatchesPc ==
    /\ \A e \in wire : pc[e] \in {"idle", "begun", "inserted"}
    /\ \A e \in Requests : pc[e] \in {"begun", "inserted"} => e \in wire

\* What the emitter's model calls stored are the committed rows.
StoredMatchesRows ==
    /\ \A e \in Requests :
          pc[e] \in {"committed", "acked"} => e \in Elements(stored)
    /\ \A e \in Elements(stored) :
          pc[e] \in {"committed", "acked", "failed"} /\ Visible(e)
    /\ \A x \in rows : \E e \in Elements(stored) : rowid[e] = x.id

\* Only requests of events that were popped have come to the server.
ServedWasSent ==
    \A e \in Requests :
        pc[e] # "idle" =>
            /\ e <= emitted - Len(q)
            /\ inflight # 0 => e <= inflight

\* Ids follow the emission order, up to events that were given up.
IdsFollowEmission ==
    \A d, e \in Requests :
        d < e /\ rowid[d] # 0 /\ rowid[e] # 0 /\ d \notin givenUp =>
            rowid[d] < rowid[e]

LinkInv ==
    /\ WireMatchesPc
    /\ StoredMatchesRows
    /\ ServedWasSent
    /\ IdsFollowEmission
    /\ AnsweredIsReadable

DeliveryInv == EmitterInv /\ StoreInv /\ LinkInv

LEMMA DeliveryInvInit == DeliveryInit => DeliveryInv
<1> SUFFICES ASSUME DeliveryInit PROVE DeliveryInv
  OBVIOUS
<1>1. EmitterInv /\ StoreInv
  BY EmitterInvInit, StoreInvInit DEF DeliveryInit
<1>2. Elements(<< >>) = {}
  BY EmptySeq DEF Elements
<1>3. LinkInv
  BY <1>2 DEF DeliveryInit, Init, StoreInit, LinkInv, WireMatchesPc,
     StoredMatchesRows, ServedWasSent, IdsFollowEmission, AnsweredIsReadable
<1> QED
  BY <1>1, <1>3 DEF DeliveryInv

\* Facts about the two models' states used throughout.
LEMMA Facts ==
    ASSUME DeliveryInv
    PROVE  /\ Requests = 1 .. MaxEvents /\ MaxEvents \in Nat
           /\ q \in Seq(Emissions) /\ emitted \in Nat /\ Len(q) \in Nat
           /\ Elements(q) = (emitted - Len(q) + 1) .. emitted
           /\ inflight \in 0 .. MaxEvents
           /\ wire \subseteq Requests
           /\ stored \in Seq(Requests)
           /\ Elements(stored) \subseteq Requests
           /\ pc \in [Requests -> PCs]
           /\ rowid \in [Requests -> 0 .. MaxId]
           /\ seq \in 0 .. MaxId /\ MaxId \in Nat
<1>1. Requests = 1 .. MaxEvents /\ MaxEvents \in Nat /\ MaxId \in Nat
  BY DeliveryAssumption, EmitterAssumption, StoreAssumption DEF Emissions
<1>2. /\ q \in Seq(Emissions) /\ emitted \in Nat /\ Len(q) \in Nat
      /\ Elements(q) = (emitted - Len(q) + 1) .. emitted
  BY QueueFacts DEF DeliveryInv, EmitterInv, QueueParts
<1>3. inflight \in 0 .. MaxEvents /\ wire \subseteq Requests
      /\ stored \in Seq(Requests)
  BY DeliveryAssumption DEF DeliveryInv, EmitterInv, TypeOK
<1>4. Elements(stored) \subseteq Requests
  BY <1>3, LenProperties DEF Elements
<1> QED
  BY <1>1, <1>2, <1>3, <1>4 DEF DeliveryInv, StoreInv, StoreTypeOK

-----------------------------------------------------------------------------
(* Steps of the client. *)

\* What a step of the client does to the state the server shares with it.
LEMMA ClientFrame ==
    ASSUME EmitterInv, ClientStep
    PROVE  /\ stored' = stored /\ givenUp \subseteq givenUp'
           /\ wire \subseteq wire'
           /\ \A e \in wire' \ wire : e > emitted - Len(q)
           /\ emitted - Len(q) <= emitted' - Len(q')
           /\ inflight' \in {0, inflight} \/ inflight' > emitted - Len(q)
           /\ reply' = "stored" => reply = "stored" /\ inflight' = inflight
<1> USE DEF hostVars, queueVars, taskVars, closeVars, serverVars, failureVars
<1>1. /\ TypeOK /\ Newest(q, emitted)
      /\ q \in Seq(Emissions) /\ emitted \in Nat /\ Len(q) \in 0 .. QueueMax
      /\ Len(q) <= emitted
  BY QueueFacts DEF EmitterInv, QueueParts
<1>2. CASE Emit
  <2>1. emitted + 1 \in Emissions /\ q' = Pushed(q, emitted + 1)
        /\ emitted' = emitted + 1
    BY <1>1, <1>2, EmitterAssumption DEF Emit, Emissions
  <2>2. Len(q') <= Len(q) + 1 /\ Len(q') \in Nat
    BY <1>1, <2>1, PushedIsNewest
  <2> QED
    BY <1>1, <1>2, <2>1, <2>2 DEF Emit
<1>3. CASE DrainStep
  <2>1. /\ LoopTurn /\ reply' # "stored" /\ stored' = stored
        /\ emitted' = emitted /\ givenUp \subseteq givenUp'
    BY <1>3 DEF DrainStep, DrainRuns, PostReturns, PostRaises, EmitterInv,
       WireParts, ReplyAwaited, TypeOK
  <2>2. CASE q # << >>
    <3>1. /\ q' = Tail(q) /\ inflight' = Head(q)
          /\ wire \subseteq wire' /\ wire' \subseteq wire \union {Head(q)}
      BY <2>1, <2>2 DEF LoopTurn, Continues, Popped
    <3>2. /\ Head(q) = emitted - Len(q) + 1
          /\ Len(q) \in 1 .. emitted /\ Len(q') = Len(q) - 1
      BY <1>1, <2>2, <3>1, TailIsNewest
    <3> QED
      BY <1>1, <2>1, <3>1, <3>2
  <2>3. CASE q = << >>
    BY <1>1, <2>1, <2>3 DEF LoopTurn
  <2> QED
    BY <2>2, <2>3
<1>4. CASE LoopStarts \/ LoopStops \/ Aclose \/ AcloseJoins \/ AcloseTimesOut
  BY <1>1, <1>4 DEF LoopStarts, LoopStops, Aclose, AcloseJoins,
     AcloseTimesOut, CancelDrain
<1> QED
  BY <1>2, <1>3, <1>4 DEF ClientStep

LEMMA ClientLink ==
    ASSUME DeliveryInv, ClientStep, UNCHANGED storeVars
    PROVE  DeliveryInv'
<1> USE DEF storeVars
<1>1. EmitterInv' /\ StoreInv'
  BY ClientStepInv, StoreInvStep DEF DeliveryInv
<1>2. /\ stored' = stored /\ givenUp \subseteq givenUp'
      /\ wire \subseteq wire'
      /\ \A e \in wire' \ wire : e > emitted - Len(q)
      /\ emitted - Len(q) <= emitted' - Len(q')
      /\ inflight' \in {0, inflight} \/ inflight' > emitted - Len(q)
      /\ reply' = "stored" => reply = "stored" /\ inflight' = inflight
  BY ClientFrame DEF DeliveryInv
<1>3. /\ emitted' \in Nat /\ Len(q') \in Nat /\ wire' \subseteq Requests
      /\ inflight' \in 0 .. MaxEvents
  BY <1>1, LenProperties, EmitterAssumption, DeliveryAssumption
     DEF EmitterInv, TypeOK
<1>4. ServedWasSent'
  BY <1>2, <1>3, Facts DEF DeliveryInv, LinkInv, ServedWasSent
<1>5. WireMatchesPc'
  BY <1>2, <1>3, Facts DEF DeliveryInv, LinkInv, WireMatchesPc, ServedWasSent
<1>6. StoredMatchesRows' /\ IdsFollowEmission'
  BY <1>2 DEF DeliveryInv, LinkInv, StoredMatchesRows, IdsFollowEmission,
     Visible
<1>7. AnsweredIsReadable'
  BY <1>2 DEF DeliveryInv, LinkInv, AnsweredIsReadable, Visible
<1> QED
  BY <1>1, <1>4, <1>5, <1>6, <1>7 DEF DeliveryInv, LinkInv

-----------------------------------------------------------------------------
(* Steps of the network and the server. *)

\* The invariants of the two models.
LEMMA ServesKeepsParts ==
    ASSUME DeliveryInv, NEW e \in Requests, Serves(e)
    PROVE  EmitterInv' /\ StoreInv'
<1> USE DEF ClientKept, clientVars, hostVars, queueVars, taskVars, closeVars,
            serverVars, failureVars
<1>1. EmitterInv /\ StoreInv /\ e \in Emissions
  BY DeliveryAssumption DEF DeliveryInv
<1>2. StoreInv'
  BY <1>1, StoreInvStep
     DEF Serves, Works, Rejects, Fails, Dies, Commits, Answers, AnswerLost,
         StoreNext, Serve
<1>3. CASE Works(e)
  BY <1>1, <1>2, <1>3, StutterInv DEF Works, vars
<1>4. CASE Rejects(e) \/ Fails(e) \/ Dies(e)
  <2>1. e \in wire /\ Network(e)
    BY <1>4 DEF Rejects, Fails, Dies, Network, ServerRefuses, RequestLost
  <2> QED
    BY <1>1, <1>2, <2>1, NetworkInv
<1>5. CASE Commits(e)
  <2>1. e \in wire
    BY <1>5 DEF Commits, Commit, DeliveryInv, LinkInv, WireMatchesPc
  <2>2. ReplyOK'
    BY <1>1, <1>5 DEF Commits, EmitterInv, TypeOK, WireParts, ReplyOK,
       ReplyAwaited
  <2> QED
    BY <1>1, <1>2, <1>5, <2>1, <2>2, StoredInv DEF Commits
<1>6. CASE Answers(e) \/ AnswerLost(e)
  <2>1. e \notin wire
    BY <1>6 DEF Answers, AnswerLost, Respond, LoseResponse, DeliveryInv,
       LinkInv, WireMatchesPc
  <2>2. refused \subseteq Emissions
    BY <1>1 DEF EmitterInv, TypeOK
  <2>3. ReplyOK'
    <3>1. CASE reply' = reply /\ inflight' = inflight /\ wire' = wire
      BY <1>1, <3>1 DEF EmitterInv, TypeOK, WireParts, ReplyOK, ReplyAwaited
    <3>2. CASE \E answer \in {"stored", "refused"} : reply' = ReplyTo(e, answer)
      BY <1>1, <1>6, <2>1, <3>2, ReplyToOK DEF Answers, AnswerLost
    <3> QED
      BY <1>6, <3>1, <3>2 DEF Answers, AnswerLost
  <2> QED
    BY <1>1, <1>2, <1>6, <2>2, <2>3, NotStoredInv DEF Answers, AnswerLost
<1> QED
  BY <1>2, <1>3, <1>4, <1>5, <1>6 DEF Serves

\* A row that is there stays readable under its event's id.
LEMMA VisibleStays ==
    ASSUME DeliveryInv, NEW e \in Requests, Serves(e),
           NEW d \in Requests, Visible(d)
    PROVE  Visible(d)'
<1>1. \A r \in Requests : Insert(r) => r # d
  BY DEF Insert, DeliveryInv, StoreInv, HoldersDrew, Visible
<1> QED
  BY <1>1, StoreAssumption
     DEF Serves, Works, Rejects, Fails, Dies, Commits, Answers, AnswerLost,
         Post, Insert, NextIds, InsertUnroutable, InsertExhausted, Commit,
         Respond, Abort, LoseResponse, storeVars, Visible, DeliveryInv,
         StoreInv, StoreTypeOK

LEMMA ServesLink ==
    ASSUME DeliveryInv, NEW e \in Requests, Serves(e)
    PROVE  LinkInv'
<1> USE DEF clientVars, hostVars, queueVars, taskVars, closeVars, serverVars,
            failureVars
<1> LinkInv /\ EmitterInv /\ StoreInv
  BY DEF DeliveryInv
<1>1. /\ Requests = 1 .. MaxEvents /\ MaxEvents \in Nat
      /\ inflight \in 0 .. MaxEvents /\ wire \subseteq Requests
      /\ stored \in Seq(Requests) /\ Elements(stored) \subseteq Requests
      /\ pc \in [Requests -> PCs] /\ rowid \in [Requests -> 0 .. MaxId]
      /\ seq \in 0 .. MaxId /\ MaxId \in Nat
  BY Facts
<1>2. UNCHANGED <<emitted, q, inflight, givenUp>>
  BY DEF Serves, Works, Rejects, Fails, Dies, Commits, Answers, AnswerLost,
         ServerRefuses, RequestLost, vars
<1>3. \A d \in Requests : Visible(d) => Visible(d)'
  BY VisibleStays
<1>4. CASE Works(e)
  <2>1. e \in wire /\ UNCHANGED <<wire, stored, reply>> /\ rows' = rows
        /\ pc' = [pc EXCEPT ![e] = pc'[e]]
        /\ \/ pc[e] = "idle" /\ pc'[e] = "begun" /\ rowid' = rowid
           \/ /\ pc[e] = "begun" /\ pc'[e] = "inserted"
              /\ rowid' = [rowid EXCEPT ![e] = seq + 1]
    BY <1>1, <1>4 DEF Works, Post, Insert, NextIds, vars
  <2>2. WireMatchesPc'
    BY <1>1, <2>1 DEF LinkInv, WireMatchesPc
  <2>3. e \notin Elements(stored)
    BY <2>1 DEF LinkInv, StoredMatchesRows
  <2>4. StoredMatchesRows'
    BY <1>1, <1>3, <2>1, <2>3 DEF LinkInv, StoredMatchesRows
  <2>5. ServedWasSent'
    BY <1>1, <1>2, <2>1 DEF LinkInv, ServedWasSent, WireParts, EmitterInv,
       SentInOrder
  <2>6. IdsFollowEmission'
    <3>1. SUFFICES ASSUME NEW c \in Requests, NEW d \in Requests, c < d,
                          rowid'[c] # 0, rowid'[d] # 0, c \notin givenUp
                   PROVE  rowid'[c] < rowid'[d]
      BY <1>2 DEF IdsFollowEmission
    <3>2. CASE rowid'[c] = rowid[c] /\ rowid'[d] = rowid[d]
      BY <3>1, <3>2 DEF LinkInv, IdsFollowEmission
    <3>3. CASE d = e /\ rowid'[d] = seq + 1
      <4>1. rowid'[c] = rowid[c] /\ rowid[c] <= seq
        BY <1>1, <2>1, <3>1, <3>3 DEF StoreInv, DrawnBelowSeq
      <4> QED
        BY <1>1, <3>3, <4>1
    <3>4. CASE c = e /\ rowid'[d] = rowid[d]
      <4>1. inflight = e
        BY <2>1, <3>1, <3>4 DEF EmitterInv, WireParts, WireOrGivenUp
      <4>2. pc[d] # "idle"
        BY <3>1, <3>4 DEF StoreInv, HoldersDrew
      <4> QED
        BY <1>1, <3>1, <3>4, <4>1, <4>2 DEF LinkInv, ServedWasSent
    <3> QED
      BY <1>1, <2>1, <3>1, <3>2, <3>3, <3>4
  <2>7. AnsweredIsReadable'
    BY <1>1, <1>2, <1>3, <2>1
       DEF LinkInv, AnsweredIsReadable, EmitterInv, WireParts, ReplyAwaited
  <2> QED
    BY <2>2, <2>4, <2>5, <2>6, <2>7 DEF LinkInv
<1>5. CASE Rejects(e) \/ Fails(e) \/ Dies(e)
  <2>1. /\ e \in wire /\ wire' = wire \ {e} /\ stored' = stored /\ rows' = rows
        /\ rowid' = rowid
        /\ \/ pc[e] = "idle" /\ pc' = pc
           \/ /\ pc[e] \in {"begun", "inserted"}
              /\ pc' = [pc EXCEPT ![e] = "failed"]
        /\ reply' = reply \/ reply' = ReplyTo(e, "refused")
    BY <1>5 DEF Rejects, Fails, Dies, InsertUnroutable, InsertExhausted,
       Abort, ServerRefuses, RequestLost, storeVars
  <2>2. WireMatchesPc' /\ StoredMatchesRows'
    BY <1>1, <1>3, <2>1 DEF LinkInv, WireMatchesPc, StoredMatchesRows
  <2>3. ServedWasSent' /\ IdsFollowEmission'
    BY <1>1, <1>2, <2>1 DEF LinkInv, ServedWasSent, IdsFollowEmission
  <2>4. AnsweredIsReadable'
    BY <1>1, <1>2, <1>3, <2>1 DEF LinkInv, AnsweredIsReadable, ReplyTo,
       EmitterInv, WireParts, ReplyAwaited
  <2> QED
    BY <2>2, <2>3, <2>4 DEF LinkInv
<1>6. CASE Commits(e)
  <2>1. /\ pc[e] = "inserted" /\ pc' = [pc EXCEPT ![e] = "committed"]
        /\ wire' = wire \ {e} /\ stored' = Append(stored, e)
        /\ rows' = rows \union {[id |-> rowid[e], event |-> body[e]]}
        /\ UNCHANGED <<reply, rowid, body>>
    BY <1>6 DEF Commits, Commit
  <2>2. Elements(stored') = Elements(stored) \union {e}
    <3>1. stored \in Seq(Requests) /\ e \in Requests
      BY <1>1
    <3>2. Elements(Append(stored, e)) = Elements(stored) \union {e}
      BY ONLY <3>1, AppendElements
    <3> QED
      BY <2>1, <3>2
  <2>3. Visible(e)'
    BY <1>1, <2>1 DEF Visible, StoreInv, HoldersDrew, Holding
  <2>4. WireMatchesPc'
    BY <1>1, <2>1 DEF LinkInv, WireMatchesPc
  <2>5. StoredMatchesRows'
    BY <1>1, <1>3, <2>1, <2>2, <2>3 DEF LinkInv, StoredMatchesRows
  <2>6. ServedWasSent' /\ IdsFollowEmission'
    BY <1>1, <1>2, <2>1 DEF LinkInv, ServedWasSent, IdsFollowEmission
  <2>7. AnsweredIsReadable'
    BY <1>1, <1>2, <1>3, <2>1 DEF LinkInv, AnsweredIsReadable, EmitterInv,
       WireParts, ReplyAwaited
  <2> QED
    BY <2>4, <2>5, <2>6, <2>7 DEF LinkInv
<1>7. CASE Answers(e) \/ AnswerLost(e)
  <2>1. /\ pc[e] = "committed"
        /\ pc' \in {[pc EXCEPT ![e] = "acked"], [pc EXCEPT ![e] = "failed"]}
        /\ UNCHANGED <<wire, stored, rows, rowid>>
        /\ reply' \in {reply, ReplyTo(e, "stored"), ReplyTo(e, "refused")}
    BY <1>7 DEF Answers, AnswerLost, Respond, LoseResponse
  <2>2. Visible(e)
    BY <2>1 DEF LinkInv, StoredMatchesRows
  <2>3. WireMatchesPc' /\ StoredMatchesRows'
    BY <1>1, <1>3, <2>1 DEF LinkInv, WireMatchesPc, StoredMatchesRows
  <2>4. ServedWasSent' /\ IdsFollowEmission'
    BY <1>1, <1>2, <2>1 DEF LinkInv, ServedWasSent, IdsFollowEmission
  <2>5. AnsweredIsReadable'
    BY <1>1, <1>2, <1>3, <2>1, <2>2 DEF LinkInv, AnsweredIsReadable, ReplyTo,
       EmitterInv, WireParts, ReplyAwaited
  <2> QED
    BY <2>3, <2>4, <2>5 DEF LinkInv
<1> QED
  BY <1>4, <1>5, <1>6, <1>7 DEF Serves

LEMMA DeliveryInvStep ==
    ASSUME DeliveryInv, [DeliveryNext]_systemVars PROVE DeliveryInv'
<1>1. CASE ClientStep /\ UNCHANGED storeVars
  BY <1>1, ClientLink
<1>2. ASSUME NEW e \in Requests, Serves(e) PROVE DeliveryInv'
  BY <1>2, ServesKeepsParts, ServesLink DEF DeliveryInv
<1>3. CASE UNCHANGED systemVars
  <2>1. EmitterInv' /\ StoreInv'
    BY <1>3, StutterInv, StoreInvStep DEF DeliveryInv, systemVars
  <2>2. LinkInv'
    BY <1>3 DEF systemVars, vars, storeVars, hostVars, queueVars, taskVars,
       closeVars, serverVars, failureVars, DeliveryInv, LinkInv,
       WireMatchesPc, StoredMatchesRows, ServedWasSent, IdsFollowEmission,
       AnsweredIsReadable, Visible
  <2> QED
    BY <2>1, <2>2 DEF DeliveryInv
<1> QED
  BY <1>1, <1>2, <1>3 DEF DeliveryNext

THEOREM DeliveryInvariance == DeliverySpec => []DeliveryInv
BY DeliveryInvInit, DeliveryInvStep, PTL DEF DeliverySpec

-----------------------------------------------------------------------------
(* What the invariant says of the code. *)

\* http.post returns a 201 only for an event that GET can already show.
THEOREM AnswerHonesty == DeliverySpec => []AnsweredIsReadable
<1>1. DeliveryInv => AnsweredIsReadable
  BY DEF DeliveryInv, LinkInv
<1> QED
  BY <1>1, DeliveryInvariance, PTL

\* Only a committed event can be seen.
LEMMA VisibleIsStored ==
    ASSUME DeliveryInv, NEW e \in Requests, Visible(e)
    PROVE  e \in Elements(stored)
<1>1. PICK d \in Elements(stored) : rowid[d] = rowid[e]
  BY DEF DeliveryInv, LinkInv, StoredMatchesRows, Visible
<1>2. d = e
  BY <1>1, Facts DEF DeliveryInv, StoreInv, DrawnOnce, Visible
<1> QED
  BY <1>1, <1>2

LEMMA InvGivesPrefix == ASSUME DeliveryInv PROVE PrefixReadable
<1> SUFFICES ASSUME NEW d \in Emissions, NEW e \in Emissions,
                    d < e, Visible(e), d \notin givenUp,
                    d \in Elements(q) \union wire \union Elements(stored)
             PROVE  Visible(d) /\ rowid[d] < rowid[e]
  BY DEF PrefixReadable
<1>1. /\ d \in Requests /\ e \in Requests /\ Requests = 1 .. MaxEvents
      /\ emitted \in Nat /\ Len(q) \in Nat
      /\ Elements(q) = (emitted - Len(q) + 1) .. emitted
      /\ MaxEvents \in Nat
  BY Facts, DeliveryAssumption
<1>2. e \in Elements(stored)
  BY <1>1, VisibleIsStored
<1>3. e <= emitted - Len(q) /\ (inflight # 0 => e <= inflight)
  BY <1>2 DEF DeliveryInv, EmitterInv, WireParts, SentInOrder
<1>4. d \notin Elements(q)
  BY <1>1, <1>3
<1>5. d \notin wire
  BY <1>1, <1>3 DEF DeliveryInv, EmitterInv, WireParts, WireOrGivenUp
<1>6. Visible(d)
  BY <1>4, <1>5 DEF DeliveryInv, LinkInv, StoredMatchesRows
<1>7. rowid[d] < rowid[e]
  BY <1>1, <1>6 DEF DeliveryInv, LinkInv, IdsFollowEmission, Visible
<1> QED
  BY <1>6, <1>7

\* The order of the emit() calls of a host survives the queue, the network,
\* the concurrent transactions and the sequence, up to what was given up.
THEOREM EmissionOrderIsReadable == DeliverySpec => []PrefixReadable
BY InvGivesPrefix, DeliveryInvariance, PTL

-----------------------------------------------------------------------------
(* The write path behind the emitter does what HttpEmitter assumes of its  *)
(* server: every step of the composition is one of the emitter's model, or *)
(* none, under the refinement mapping of Emitter.                          *)

Told == IF inflight \in Elements(stored) THEN "stored" ELSE reply

LEMMA EmitterStep ==
    ASSUME DeliveryInv, DeliveryInv', [DeliveryNext]_systemVars
    PROVE  [Emitter!Next]_(Emitter!vars)
<1> USE DEF hostVars, queueVars, taskVars, closeVars, serverVars, failureVars,
            Emitter!hostVars, Emitter!queueVars, Emitter!taskVars,
            Emitter!closeVars, Emitter!serverVars, Emitter!failureVars
<1> EmitterInv /\ EmitterInv' /\ LinkInv /\ LinkInv'
  BY DEF DeliveryInv
<1>1. /\ Requests = 1 .. MaxEvents
      /\ inflight \in 0 .. MaxEvents /\ wire \subseteq Requests
      /\ Elements(stored) \subseteq Requests
      /\ emitted \in Nat /\ Len(q) \in Nat
  BY Facts
<1>2. 0 \notin Elements(stored) /\ 0 \notin Elements(stored')
  <2>1. stored' \in Seq(Emissions)
    BY DEF EmitterInv, TypeOK
  <2>2. Elements(stored') \subseteq Emissions
    BY <2>1, LenProperties DEF Elements
  <2> QED
    BY <1>1, <2>2 DEF Emissions
<1>3. CASE UNCHANGED systemVars
  BY <1>3 DEF systemVars, vars, Emitter!vars
<1>4. CASE ClientStep /\ UNCHANGED storeVars
  <2>1. /\ stored' = stored
        /\ inflight' \in {0, inflight} \/ inflight' > emitted - Len(q)
    BY <1>4, ClientFrame
  <2>2. inflight' # inflight => inflight' \notin Elements(stored')
    BY <1>1, <1>2, <2>1 DEF EmitterInv, WireParts, SentInOrder
  <2>3. CASE Emit
    BY <2>3 DEF Emit, Emitter!Emit, Pushed, Emitter!Pushed, Woken,
       Emitter!Woken, Ensured, Emitter!Ensured, Emitter!Next,
       Emitter!ClientStep
  <2>4. CASE DrainRuns
    <3>1. LoopTurn => Emitter!LoopTurn
      BY DEF LoopTurn, Emitter!LoopTurn, Continues, Emitter!Continues,
         Popped, Emitter!Popped
    <3>2. inflight = 0
      BY <2>4 DEF DrainRuns, EmitterInv, TypeOK
    <3> QED
      BY <1>2, <2>1, <2>2, <2>4, <3>1, <3>2
         DEF DrainRuns, Emitter!DrainRuns, Emitter!DrainStep, Emitter!Next,
             Emitter!ClientStep
  <2>5. CASE PostReturns \/ PostRaises
    <3>1. LoopTurn => Emitter!LoopTurn
      BY DEF LoopTurn, Emitter!LoopTurn, Continues, Emitter!Continues,
         Popped, Emitter!Popped
    <3>2. inflight' # inflight
      <4>1. inflight # 0 /\ inflight <= emitted - Len(q)
        BY <2>5 DEF PostReturns, PostRaises, EmitterInv, TypeOK, WireParts,
           SentInOrder
      <4>2. CASE q # << >>
        <5>1. inflight' = Head(q)
          BY <2>5, <4>2 DEF PostReturns, PostRaises, LoopTurn, Continues,
             Popped
        <5>2. Head(q) = emitted - Len(q) + 1
          BY <1>1, <4>2, TailIsNewest DEF EmitterInv, TypeOK, QueueParts
        <5> QED
          BY <1>1, <4>1, <5>1, <5>2
      <4>3. CASE q = << >>
        BY <2>5, <4>1, <4>3 DEF PostReturns, PostRaises, LoopTurn
      <4> QED
        BY <4>2, <4>3
    <3> QED
      BY <2>2, <2>5, <3>1, <3>2
         DEF PostReturns, PostRaises, Emitter!PostReturns,
             Emitter!PostRaises, Emitter!DrainStep, Emitter!Next,
             Emitter!ClientStep
  <2>6. CASE LoopStops \/ AcloseTimesOut
    <3>1. inflight' = 0 /\ reply' = "none"
      BY <2>6 DEF LoopStops, AcloseTimesOut, CancelDrain
    <3> QED
      BY <1>2, <2>6, <3>1
         DEF LoopStops, AcloseTimesOut, CancelDrain, Alive,
             Emitter!LoopStops, Emitter!AcloseTimesOut, Emitter!CancelDrain,
             Emitter!Alive, Emitter!Next, Emitter!ClientStep
  <2>7. CASE LoopStarts \/ Aclose \/ AcloseJoins
    BY <2>7 DEF LoopStarts, Aclose, AcloseJoins, Alive, Emitter!LoopStarts,
       Emitter!Aclose, Emitter!AcloseJoins, Emitter!Alive, Emitter!Next,
       Emitter!ClientStep
  <2> QED
    BY <1>4, <2>3, <2>4, <2>5, <2>6, <2>7 DEF ClientStep, DrainStep
<1>5. ASSUME NEW e \in Requests, Serves(e) PROVE [Emitter!Next]_(Emitter!vars)
  <2> USE DEF clientVars
  <2>1. CASE Works(e)
    BY <2>1 DEF Works, vars, Emitter!vars
  <2>2. CASE Rejects(e) \/ Fails(e) \/ Dies(e)
    <3>1. e \in wire /\ (ServerRefuses(e) \/ RequestLost(e))
      BY <2>2 DEF Rejects, Fails, Dies, ServerRefuses, RequestLost
    <3>2. e \notin Elements(stored)
      BY <3>1 DEF LinkInv, StoredMatchesRows, WireMatchesPc
    <3> QED
      BY <3>1, <3>2
         DEF ServerRefuses, RequestLost, ReplyTo, Emitter!ServerRefuses,
             Emitter!RequestLost, Emitter!ReplyTo, Emitter!Network,
             Emitter!Next
  <2>3. CASE Commits(e)
    <3>1. e \in wire
      BY <2>3 DEF Commits, Commit, LinkInv, WireMatchesPc
    <3>2. Elements(stored') = Elements(stored) \union {e}
      <4>1. stored \in Seq(Requests) /\ stored' = Append(stored, e)
        BY <2>3, Facts DEF Commits
      <4>2. stored \in Seq(Requests) /\ e \in Requests
        BY <4>1
      <4>3. Elements(Append(stored, e)) = Elements(stored) \union {e}
        BY ONLY <4>2, AppendElements
      <4> QED
        BY <4>1, <4>3
    <3> QED
      BY <2>3, <3>1, <3>2
         DEF Commits, Emitter!ServerStores, Emitter!ReplyTo, Emitter!Network,
             Emitter!Next
  <2>4. CASE Answers(e) \/ AnswerLost(e)
    <3>1. e \in Elements(stored)
      BY <2>4 DEF Answers, AnswerLost, Respond, LoseResponse, LinkInv,
         StoredMatchesRows
    <3> QED
      BY <2>4, <3>1 DEF Answers, AnswerLost, ReplyTo, Emitter!vars
  <2> QED
    BY <1>5, <2>1, <2>2, <2>3, <2>4 DEF Serves
<1> QED
  BY <1>3, <1>4, <1>5 DEF DeliveryNext

\* POST /events keeps the promises HttpEmitter needs of a server: the safety
\* part of ImplementsEmitter.
THEOREM DeliverySimulatesEmitter ==
    DeliverySpec => Emitter!Init /\ [][Emitter!Next]_(Emitter!vars)
<1>1. DeliveryInit => Emitter!Init
  BY EmptySeq DEF DeliveryInit, Init, Emitter!Init, Elements
<1>2. DeliveryInv /\ DeliveryInv' /\ [DeliveryNext]_systemVars =>
          [Emitter!Next]_(Emitter!vars)
  BY EmitterStep
<1> QED
  BY <1>1, <1>2, DeliveryInvariance, PTL DEF DeliverySpec
=============================================================================
