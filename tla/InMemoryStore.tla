---------------------------- MODULE InMemoryStore ----------------------------
(***************************************************************************)
(* InMemoryEventRepository, which the unit and contract tests use in place *)
(* of PostgreSQL, beside the queries it stands in for.  Its methods are    *)
(* coroutines without an await, so a call is one step.  The module asks    *)
(* whether the two classes answer alike on the same log, and whether a     *)
(* reader of GET /events who follows next_from_id sees all of it.          *)
(***************************************************************************)
EXTENDS CostSummary, SequencesExt

CONSTANTS Events,       \* the events that may be stored
          MaxId,        \* bound: the number of events stored
          MaxLimit,     \* _MAX_LIMIT
          Queries,      \* the filters of find_filtered: column -> value
          Namespace,    \* Namespace[t]: the part of type t before the dot
          Scopes        \* the scopes of cost_summary

ASSUME MemoryAssumption ==
    /\ MaxId \in Nat
    /\ MaxLimit \in Nat \ {0}
    /\ Int4Max \in Nat

VARIABLES events,   \* _events: id -> event
          nextId    \* _next_id: the value the counter yields next

vars == <<events, nextId>>

Ids == 1 .. MaxId

MemInit ==
    /\ events = << >>
    /\ nextId = 1

\* The dict item assignments: a new key, or a new value of one that is there.
Assigned(dict, key, value) ==
    [k \in DOMAIN dict \union {key} |-> IF k = key THEN value ELSE dict[k]]

\* A wrong variant of MemStore: the counter is read but not advanced.
MemStorePeeks(e) ==
    /\ nextId <= MaxId
    /\ events' = Assigned(events, nextId, e)
    /\ nextId' = nextId

\* store(): one step, eid = next(_next_id) and _events[eid] = event.
MemStore(e) ==
    /\ nextId <= MaxId
    /\ events' = Assigned(events, nextId, e)
    /\ nextId' = nextId + 1

MemNext == \E e \in Events : MemStore(e)

MemSpec == MemInit /\ [][MemNext]_vars

-----------------------------------------------------------------------------
\* The log as PostgreSQL would hold it, and in the order of the dict.
Rows == {[id |-> i, event |-> events[i]] : i \in DOMAIN events}
Items == [i \in 1 .. nextId - 1 |-> [id |-> i, event |-> events[i]]]

\* max(1, min(limit, _MAX_LIMIT)).
Clamp(limit) ==
    LET capped == IF limit > MaxLimit THEN MaxLimit ELSE limit
    IN  IF capped > 1 THEN capped ELSE 1

\* The filters are combined by AND; type_namespace is derived from the type,
\* with split_part in SQL and with split in Python.
Field(e, f) == IF f = "type_namespace" THEN Namespace[e.type] ELSE e[f]
Matches(e, q) == \A f \in DOMAIN q : Field(e, f) = q[f]

\* ORDER BY id ASC: the k-th row is the one with k ids up to its own.
OrderById(M) ==
    LET Kth(k) == {x \in M : Cardinality({y \in M : y.id <= x.id}) = k}
    IN  [k \in 1 .. Cardinality(M) |-> CHOOSE x \in Kth(k) : TRUE]

\* LIMIT n.
Limited(s, n) == SubSeq(s, 1, IF Len(s) < n THEN Len(s) ELSE n)

\* WHERE ... AND id >= :from_id ORDER BY id ASC LIMIT :limit.
SqlFind(q, start, limit) ==
    LET M == {x \in Rows : Matches(x.event, q) /\ x.id >= start}
    IN  Limited(OrderById(M), Clamp(limit))

\* A wrong variant of MemFind: the cursor excludes from_id itself.
MemFindExclusive(q, start, limit) ==
    FoldLeft(LAMBDA page, x :
                 IF x.id <= start \/ ~Matches(x.event, q) \/ Len(page) >= Clamp(limit)
                 THEN page ELSE Append(page, x),
             << >>, Items)

\* _scan: skip, skip, append, and break when the page has its length.
MemFind(q, start, limit) ==
    FoldLeft(LAMBDA page, x :
                 IF x.id < start \/ ~Matches(x.event, q) \/ Len(page) >= Clamp(limit)
                 THEN page ELSE Append(page, x),
             << >>, Items)

\* A wrong variant of Kept: the first summary of a task is kept.
KeptFirst(latest, x) ==
    IF x.event.task \in DOMAIN latest
    THEN latest
    ELSE Assigned(latest, x.event.task, x)

\* The dict update of one turn of the in-memory loop.
Kept(latest, x) ==
    IF x.event.task \in DOMAIN latest /\ x.id <= latest[x.event.task].id
    THEN latest
    ELSE Assigned(latest, x.event.task, x)

\* The in-memory cost_summary: one pass over the dict, then the sums.
MemCost(s) ==
    LET latest == FoldLeft(
                      LAMBDA l, x : IF x \in Bearing(Scoped({x}, s)) THEN Kept(l, x) ELSE l,
                      << >>, Items)
    IN  Summary({latest[t] : t \in DOMAIN latest})

\* A wrong variant of NextFromId: the cursor counts rows, as an offset does.
NextByOffset(page, start) == Max({start, 1}) + Len(page)

\* list_events: the cursor of the next page, the next id after a full page
\* and 0 for none after a short one.  EventQuery has bounded the limit.
NextFromId(page, start) == page[Len(page)].id + 1
NextPage(page, start, limit) ==
    IF Len(page) = limit THEN NextFromId(page, start) ELSE 0

\* What a client collects that goes on until there is no next_from_id.
Collected(q, limit) ==
    LET from[start \in 0 .. 2 * MaxId + 1] ==
            LET page == SqlFind(q, start, limit)
                next == NextPage(page, start, limit)
            IN  page \o IF next = 0 THEN << >> ELSE from[next]
    IN  from[0]

-----------------------------------------------------------------------------
\* The promise both classes give: an id names one event for ever.
Log == INSTANCE EventLog WITH log <- Rows
ImplementsEventLog == Log!Spec

\* The scan with its skips and its break returns the page the query returns,
\* for every filter, cursor and limit, also limits outside the cap.
FindSubstitutes ==
    \A q \in Queries, start \in 0 .. MaxId + 1, limit \in -1 .. MaxLimit + 1 :
        MemFind(q, start, limit) = SqlFind(q, start, limit)

\* The loop over the dict and DISTINCT ON choose the same summaries and add
\* them up alike, as long as no cast of the query fails; where one does, the
\* in-memory class answers and PostgreSQL does not.
CostSubstitutes ==
    \A s \in Scopes :
        ~CastFails(Latest(Rows, s)) => MemCost(s) = Summary(Latest(Rows, s))

\* Following next_from_id through GET /events gives every matching event
\* once, in order, for every limit the endpoint accepts.
CursorCovers ==
    \A q \in Queries, limit \in 1 .. MaxLimit :
        Collected(q, limit) = OrderById({x \in Rows : Matches(x.event, q)})
=============================================================================
