---------------------------- MODULE MCCostRollup ----------------------------
(***************************************************************************)
(* Three concurrent POSTs about one workgraph: a task reworked by another  *)
(* agent, a second task beyond the int range, an event without a summary.  *)
(***************************************************************************)
EXTENDS CostRollup, TLC

CONSTANTS r1, r2, r3, t1, t2

MCRequests == {r1, r2, r3}
MCToday == [k \in 0 .. 2 |-> 1]
Symmetry == Permutations(MCRequests)

Event(task, agent, es) ==
    [month |-> 1, workgraph |-> "w1", task |-> task, agent |-> agent, es |-> es]

MCEvents ==
    {Event(t1, "a1", [cost |-> 2, tokens |-> 4, turns |-> -5]),
     Event(t1, "a2", [cost |-> 1, tokens |-> Null, turns |-> 2]),
     Event(t1, "a1", Null),
     Event(t2, "a1", [cost |-> Null, tokens |-> 20, turns |-> 1])}

MCScopes == {[by |-> "workgraph", id |-> "w1"], [by |-> "agent", id |-> "a1"]}
=============================================================================
