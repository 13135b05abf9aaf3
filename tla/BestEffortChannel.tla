-------------------------- MODULE BestEffortChannel --------------------------
(***************************************************************************)
(* What an Emitter promises: emit() never refuses an event and never       *)
(* blocks; an event may be lost at any moment and may arrive late, but the *)
(* server stores no event that was not emitted and none twice.             *)
(***************************************************************************)
EXTENDS Naturals, Sequences

CONSTANT MaxEvents  \* the emitted events are numbered 1 .. MaxEvents

VARIABLES accepted,     \* how many events have been emitted
          pending,      \* those that may still reach the server
          delivered     \* those the server stored, in its order

channelVars == <<accepted, pending, delivered>>

Init ==
    /\ accepted = 0
    /\ pending = {}
    /\ delivered = << >>

\* emit(): the new event is pending, or room is made at once.
Accept ==
    /\ accepted < MaxEvents
    /\ accepted' = accepted + 1
    /\ pending' \in SUBSET (pending \union {accepted + 1})
    /\ UNCHANGED delivered

Deliver(e) ==
    /\ e \in pending
    /\ delivered' = Append(delivered, e)
    /\ pending' = pending \ {e}
    /\ UNCHANGED accepted

Lose ==
    /\ pending' \in SUBSET pending
    /\ UNCHANGED <<accepted, delivered>>

Next == Accept \/ (\E e \in pending : Deliver(e)) \/ Lose

Spec == Init /\ [][Next]_channelVars
=============================================================================
