-------------------------- MODULE MCInMemoryStore --------------------------
(***************************************************************************)
(* Logs of up to four events: two workgraphs, two agents, two tasks, a     *)
(* summary beyond the int range, one with nulls, a rework without one, an  *)
(* event of another type without task and agent, one of another org.       *)
(***************************************************************************)
EXTENDS InMemoryStore, TLC

Es(cost, tokens, turns) == [cost |-> cost, tokens |-> tokens, turns |-> turns]

Changed(wg, task, agent, org, es) ==
    [workgraph |-> wg, task |-> task, agent |-> agent, org |-> org,
     type |-> "task.state_changed", es |-> es]

MCEvents ==
    {Changed("w1", "t1", "a1", "viloforge", Es(1, 2, 3)),
     Changed("w1", "t1", "a2", "viloforge", Es(4, Null, 1)),
     Changed("w1", "t1", "a1", "viloforge", Null),
     Changed("w1", "t2", "a1", "other", Es(Null, 9, 1)),
     Changed("w1", Null, "a1", "viloforge", Es(1, 1, 1)),
     [workgraph |-> "w2", task |-> Null, agent |-> Null, org |-> "viloforge",
      type |-> "gate.passed", es |-> Null]}

MCNamespace == ("task.state_changed" :> "task") @@ ("gate.passed" :> "gate")

MCQueries ==
    {"org" :> "viloforge",
     ("org" :> "other") @@ ("task" :> "t2"),
     ("org" :> "viloforge") @@ ("task" :> "t1") @@ ("agent" :> "a1"),
     ("org" :> "viloforge") @@ ("type_namespace" :> "task"),
     ("org" :> "viloforge") @@ ("workgraph" :> "w1") @@ ("type" :> "gate.passed")}

MCScopes ==
    {[by |-> "workgraph", id |-> "w1"], [by |-> "workgraph", id |-> "w2"],
     [by |-> "agent", id |-> "a1"], [by |-> "agent", id |-> "a2"]}
=============================================================================
