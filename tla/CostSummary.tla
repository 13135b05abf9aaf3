----------------------------- MODULE CostSummary -----------------------------
(***************************************************************************)
(* The cost roll-up as PostgresEventRepository.cost_summary computes it on *)
(* a set L of stored [id, event] rows.  An event has a workgraph, a task   *)
(* and an agent (Null where the column is), and es, the execution_summary  *)
(* of a task.state_changed event: a record with cost, tokens and turns,    *)
(* each a number or Null.  es is Null for every other event, whether it is *)
(* of another type, lacks the key or has null there: the query's four      *)
(* conditions on type and data do not treat these differently.             *)
(***************************************************************************)
EXTENDS Integers, FiniteSets, FiniteSetsExt

CONSTANTS Null,       \* SQL's NULL, Python's None
          Int4Max     \* the largest value of PostgreSQL's int, 2^31 - 1

Amounts == {"cost", "tokens", "turns"}

\* The columns that are cast to int before they are summed; cost is numeric.
Int4Amounts == {"tokens", "turns"}
Int4 == -(Int4Max + 1) .. Int4Max

\* A scope names a column and a value: one workgraph or one agent.
Scoped(L, s) == {x \in L : x.event[s.by] = s.id}

Bearing(L) == {x \in L : x.event.task # Null /\ x.event.es # Null}

\* Wrong variants of Latest: ascending ids; the conditions on the summary are
\* applied after the choice; the choice is made per task and agent.
LatestAscending(L, s) ==
    LET B == Bearing(Scoped(L, s))
    IN  {x \in B : \A y \in B : y.event.task = x.event.task => x.id <= y.id}
LatestThenBearing(L, s) ==
    LET B == Scoped(L, s)
    IN  Bearing({x \in B : \A y \in B : y.event.task = x.event.task => y.id <= x.id})
LatestPerAgent(L, s) ==
    LET B == Bearing(Scoped(L, s))
    IN  {x \in B : \A y \in B : /\ y.event.task = x.event.task
                               /\ y.event.agent = x.event.agent
                               => y.id <= x.id}

\* SELECT DISTINCT ON (task_id) ... ORDER BY task_id, id DESC: of the rows of
\* the scope that bear a summary, the one of the highest id for each task.
Latest(L, s) ==
    LET B == Bearing(Scoped(L, s))
    IN  {x \in B : \A y \in B : y.event.task = x.event.task => y.id <= x.id}

\* A null amount adds nothing: SUM skips it, COALESCE covers the case of none.
Amount(x, a) == IF x.event.es[a] = Null THEN 0 ELSE x.event.es[a]

Total(R, a) == MapThenSumSet(LAMBDA x : Amount(x, a), R)

Summary(R) == [a \in Amounts \union {"tasks"} |->
                  IF a = "tasks" THEN Cardinality(R) ELSE Total(R, a)]

NoCost == Summary({})

\* "integer out of range": one cast fails and the whole query with it.
CastFails(R) == \E x \in R : \E a \in Int4Amounts : Amount(x, a) \notin Int4
=============================================================================
