----------------------------- MODULE CostRollup -----------------------------
(***************************************************************************)
(* GET /workgraphs/{id}/cost and GET /agents/{id}/cost, polled by a client *)
(* while events are being stored.  _run awaits twice: exists() decides on  *)
(* 404, compute() aggregates a later state of the store.                   *)
(***************************************************************************)
EXTENDS EventStore, CostSummary

CONSTANT Scopes     \* the workgraphs and agents asked for

\* ExecutionSummary declares its numbers without a range.
ASSUME CostAssumption ==
    /\ Int4Max \in Nat
    /\ \A e \in Events : e.es # Null =>
          \A a \in Amounts : e.es[a] = Null \/ e.es[a] \in Int

VARIABLES scope,    \* the scope this client polls
          ask,      \* how far its request has come
          counted,  \* the rows the latest answer counts, as ids and events
          summary,  \* the latest answer
          knew      \* history: the rows of the scope when the request came

costVars == <<scope, ask, counted, summary, knew>>
vars == <<storeVars, costVars>>

CostInit ==
    /\ scope \in Scopes
    /\ ask = "idle"
    /\ counted = {}
    /\ summary = NoCost
    /\ knew = {}

Ask ==
    /\ ask \in {"idle", "done", "notfound", "failed"}
    /\ ask' = "checking"
    /\ knew' = Scoped(rows, scope)
    /\ UNCHANGED <<storeVars, scope, counted, summary>>

\* A wrong variant of Exists: only rows with a summary count as events.
ExistsBearing ==
    /\ ask = "checking"
    /\ ask' = IF Bearing(Scoped(rows, scope)) = {} THEN "notfound" ELSE "computing"
    /\ UNCHANGED <<storeVars, scope, counted, summary, knew>>

\* exists(): count_by_workgraph > 0, or find_filtered of the agent not empty.
Exists ==
    /\ ask = "checking"
    /\ ask' = IF Scoped(rows, scope) = {} THEN "notfound" ELSE "computing"
    /\ UNCHANGED <<storeVars, scope, counted, summary, knew>>

\* A wrong variant of Compute: the amounts are added without a cast.
ComputeUncast ==
    /\ ask = "computing"
    /\ counted' = Latest(rows, scope)
    /\ summary' = Summary(counted')
    /\ ask' = "done"
    /\ UNCHANGED <<storeVars, scope, knew>>

\* compute(): 200 with the aggregate of one snapshot.
Compute ==
    /\ ask = "computing"
    /\ ~CastFails(Latest(rows, scope))
    /\ counted' = Latest(rows, scope)
    /\ summary' = Summary(counted')
    /\ ask' = "done"
    /\ UNCHANGED <<storeVars, scope, knew>>

\* compute(): an int cast of the query fails, the handler answers 500.
ComputeFails ==
    /\ ask = "computing"
    /\ CastFails(Latest(rows, scope))
    /\ ask' = "failed"
    /\ UNCHANGED <<storeVars, scope, counted, summary, knew>>

CostStep == Ask \/ Exists \/ Compute \/ ComputeFails

Init == StoreInit /\ CostInit
Next == (StoreNext /\ UNCHANGED costVars) \/ CostStep
Spec == Init /\ [][Next]_vars

-----------------------------------------------------------------------------
Row(r) == [id |-> rowid[r], event |-> body[r]]

\* A total of n counted tasks stays within n times the int range.
CostTypeOK ==
    /\ StoreTypeOK
    /\ scope \in Scopes
    /\ ask \in {"idle", "checking", "computing", "done", "notfound", "failed"}
    /\ counted \subseteq rows
    /\ knew \subseteq rows
    /\ summary.tasks = Cardinality(counted)
    /\ summary.cost \in Int
    /\ \A a \in Int4Amounts :
          summary[a] \in -(summary.tasks * (Int4Max + 1)) .. summary.tasks * Int4Max

\* No rework is counted twice: of the rows of one answer no two are about
\* the same task, even when they came from different requests.
OnePerTask ==
    \A x, y \in counted : x.event.task = y.event.task => x = y

\* "Latest run wins": if a request arrived when an earlier summary of its
\* task was already visible, then an answer computed once its own summary is
\* visible does not count the earlier one, in whatever order the rows of
\* other requests commit in between.
SupersededNotCounted ==
    [][ask = "computing" /\ ask' = "done" =>
          \A r, s \in Requests :
              /\ rowid[r] \in seen[s]
              /\ Row(s) \in Bearing(Scoped(rows, scope))
              /\ body[r].task = body[s].task
              => Row(r) \notin counted']_vars

\* An answer covers what was there when the request came, although exists()
\* and compute() run after it in transactions of their own: each task with a
\* visible summary is counted, under that summary or a later one, and 404 is
\* said only of a scope without any event, never of one whose tasks are all
\* still in flight.
AnswerCoversAsked ==
    /\ ask = "done" =>
          \A x \in Bearing(knew) :
              \E y \in counted : y.event.task = x.event.task /\ y.id >= x.id
    /\ ask = "notfound" => knew = {}

\* Whoever polls a scope never sees task_count go back, though the totals
\* may when a rework was cheaper.
TaskCountMonotone == [][summary'.tasks >= summary.tasks]_vars
=============================================================================
