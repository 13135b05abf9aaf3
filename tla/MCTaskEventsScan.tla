------------------------- MODULE MCTaskEventsScan -------------------------
(***************************************************************************)
(* Three concurrent POSTs, each to the watched task or to another one.     *)
(***************************************************************************)
EXTENDS TaskEventsScan

CONSTANTS r1, r2, r3, t1, t2

MCRequests == {r1, r2, r3}
MCToday == [k \in 0 .. 2 |-> 1]
MCEvents == {[month |-> 1, task |-> t1], [month |-> 1, task |-> t2]}
=============================================================================
