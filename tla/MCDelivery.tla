----------------------------- MODULE MCDelivery -----------------------------
(***************************************************************************)
(* Three events, a queue of two, a sequence of two ids; an event is of a   *)
(* month with or without a partition.                                      *)
(***************************************************************************)
EXTENDS Delivery

MCRequests == 1 .. 3
MCToday == [k \in 0 .. 2 |-> 1]
MCEvents == {[month |-> 3], [month |-> 4]}
=============================================================================
