------------------------------ MODULE EventLog ------------------------------
(***************************************************************************)
(* What an EventRepository promises its callers, whichever class provides  *)
(* it: the events that reads can see form a growing set of (id, event)     *)
(* pairs, nothing is ever removed or rewritten, and an id names one event  *)
(* for ever.  The promise says nothing about the ORDER in which ids become *)
(* visible: store() returns "the assigned id", not the next one.           *)
(***************************************************************************)
CONSTANTS Events,   \* the events that may be stored
          Ids       \* the ids a repository may assign

VARIABLE log        \* the visible [id, event] pairs

Init == log = {}

\* EventRepository.store: the event becomes visible under an id no visible
\* event has.
Append ==
    \E e \in Events, i \in Ids :
        /\ \A x \in log : x.id # i
        /\ log' = log \union {[id |-> i, event |-> e]}

Spec == Init /\ [][Append]_log
=============================================================================
