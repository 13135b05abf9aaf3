--------------------------- MODULE MCResourceRead ---------------------------
(***************************************************************************)
(* Three concurrent POSTs, to the resource that is read or to another one, *)
(* or of an event without a partition: the month turned while upgrade()    *)
(* ran, so month 2 was left out.                                           *)
(***************************************************************************)
EXTENDS ResourceRead, TLC

CONSTANTS r1, r2, r3, t1, t2

MCRequests == {r1, r2, r3}
MCToday == 0 :> 1 @@ 1 :> 2 @@ 2 :> 2
MCEvents ==
    {[month |-> 1, task |-> t1], [month |-> 1, task |-> t2],
     [month |-> 2, task |-> t1]}
Symmetry == Permutations(MCRequests)
=============================================================================
