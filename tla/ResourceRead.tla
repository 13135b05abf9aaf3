---------------------------- MODULE ResourceRead ----------------------------
(***************************************************************************)
(* GET /tasks/{id} and GET /workgraphs/{id}: what vtaskforge knows of the  *)
(* resource beside a summary of its events.  The handler awaits three      *)
(* times, for vtaskforge, for the count and for the last event, and events *)
(* are stored in between: the parts of one answer come from different      *)
(* states of the store.                                                    *)
(***************************************************************************)
EXTENDS EventStore, FiniteSets

CONSTANT Subject    \* the task or workgraph that is read

VARIABLES read,     \* how far the request has come
          meta,     \* vtaskforge described the resource
          count,    \* event_count of the latest answer
          tail,     \* last_event_id of the latest answer, 0 for null
          before    \* history: the resource's rows when the request came

readVars == <<read, meta, count, tail, before>>
vars == <<storeVars, readVars>>

SubjectRows == {x \in rows : x.event.task = Subject}

ReadInit ==
    /\ read = "idle"
    /\ meta = FALSE
    /\ count = 0
    /\ tail = 0
    /\ before = {}

Request ==
    /\ read = "idle"
    /\ read' = "asking"
    /\ before' = SubjectRows
    /\ UNCHANGED <<storeVars, meta, count, tail>>

\* get_task, get_workgraph of the VtfClient: metadata, or None for a resource
\* vtaskforge does not have and for every failure, and None without a client.
VtfAnswers ==
    /\ read = "asking"
    /\ meta' \in BOOLEAN
    /\ read' = "counting"
    /\ UNCHANGED <<storeVars, count, tail, before>>

\* A wrong variant of Count: 404 when either source knows nothing.
CountEither ==
    /\ read = "counting"
    /\ count' = Cardinality(SubjectRows)
    /\ read' = IF ~meta \/ count' = 0 THEN "notfound" ELSE "counted"
    /\ UNCHANGED <<storeVars, meta, tail, before>>

\* count_by_*; a resource neither vtaskforge nor the store knows is 404.
Count ==
    /\ read = "counting"
    /\ count' = Cardinality(SubjectRows)
    /\ read' = IF ~meta /\ count' = 0 THEN "notfound" ELSE "counted"
    /\ UNCHANGED <<storeVars, meta, tail, before>>

\* Wrong variants of LastIds: ascending order, no order.
FirstIds == {x.id : x \in {y \in SubjectRows : \A z \in SubjectRows : y.id <= z.id}}
AnyIds == {x.id : x \in SubjectRows}

\* find_last_by_*: ORDER BY id DESC LIMIT 1.
LastIds == {x.id : x \in {y \in SubjectRows : \A z \in SubjectRows : z.id <= y.id}}

LastEvent ==
    /\ read = "counted"
    /\ \/ SubjectRows = {} /\ tail' = 0
       \/ tail' \in LastIds
    /\ read' = "done"
    /\ UNCHANGED <<storeVars, meta, count, before>>

NextRequest ==
    /\ read \in {"done", "notfound"}
    /\ read' = "idle"
    /\ before' = {}
    /\ UNCHANGED <<storeVars, meta, count, tail>>

ReadStep == Request \/ VtfAnswers \/ Count \/ LastEvent \/ NextRequest

Init == StoreInit /\ ReadInit
Next == (StoreNext /\ UNCHANGED readVars) \/ ReadStep
Spec == Init /\ [][Next]_vars

-----------------------------------------------------------------------------
\* event_count and last_event_id of one answer belong together although they
\* are read in two transactions: the last event is never older than one that
\* was counted.  (It may be newer, and there may be one although event_count
\* is 0.)
TailCoversCount ==
    read = "done" => count <= Cardinality({x \in SubjectRows : x.id <= tail})

\* 404 only for a resource vtaskforge did not describe and that had no event
\* when the request came.
NotFoundHonest == read = "notfound" => ~meta /\ before = {}

\* Whoever polls the resource never sees its summary go backwards.
SummaryMonotone == [][count' >= count /\ tail' >= tail]_vars
=============================================================================
