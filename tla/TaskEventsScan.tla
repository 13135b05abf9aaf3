--------------------------- MODULE TaskEventsScan ---------------------------
(***************************************************************************)
(* Reading the events of one task while others are being stored: the SDK's *)
(* ReadClient.task_events pages through GET /tasks/{id}/events, whose      *)
(* handler calls find_by_task and derives the cursor of the next page.     *)
(* Every page is a query of its own, so the store moves between two pages; *)
(* within one page the query sees one committed state.                     *)
(***************************************************************************)
EXTENDS EventStore, Integers, Sequences

CONSTANTS ScanTask,     \* the task whose events are read
          PageLimits,   \* the page_limits of clients, sent as ?limit=
          MaxLimit      \* _MAX_LIMIT, in the API and in the repository

ASSUME ScanAssumption ==
    /\ PageLimits \subseteq Int
    /\ MaxLimit \in Nat \ {0}

VARIABLES scan,     \* "reading", "done" or "unavailable"
          pageLimit, \* page_limit of this call
          from,     \* from_id of the next request
          out,      \* the views collected so far, rows in order
          base      \* history: the task's rows visible when the scan began

scanVars == <<scan, pageLimit, from, out, base>>
vars == <<storeVars, scanVars>>

TaskRows == {x \in rows : x.event.task = ScanTask}

\* max(1, min(limit, _MAX_LIMIT)): _clamp_limit, and again get_task_events.
Clamp(limit) ==
    LET capped == IF limit > MaxLimit THEN MaxLimit ELSE limit
    IN  IF capped > 1 THEN capped ELSE 1

Ascending(s) == \A i, j \in DOMAIN s : i < j => s[i].id < s[j].id

Elements(s) == {s[i] : i \in DOMAIN s}

\* find_by_task: WHERE task_id = :tid AND id >= :from_id ORDER BY id LIMIT n.
FindByTask(start, n) ==
    LET M == {x \in TaskRows : x.id >= start}
        Results == UNION {[1 .. k -> M] : k \in 0 .. n}
    IN  {page \in Results :
            /\ Ascending(page)
            /\ \A x \in M \ Elements(page) :
                  /\ Len(page) = n
                  /\ \A i \in DOMAIN page : page[i].id < x.id}

\* Wrong variants: the page is compared with the limit as requested; the next
\* page starts at the last id itself.
HasNextUnclamped(page) == page # << >> /\ Len(page) = pageLimit
NextFromSameId(page) == page[Len(page)].id

\* A page as long as the limit asks for another one, from the next id on.
HasNext(page) == page # << >> /\ Len(page) = Clamp(pageLimit)
NextFromId(page) == page[Len(page)].id + 1

ScanInit ==
    /\ scan = "reading"
    /\ pageLimit \in PageLimits
    /\ from = 0
    /\ out = << >>
    /\ base = TaskRows

Fetch(page) ==
    /\ scan = "reading"
    /\ page \in FindByTask(from, Clamp(pageLimit))
    /\ out' = out \o page

\* The page is full: the client goes on from next_from_id.
FetchPage ==
    /\ \E page \in FindByTask(from, Clamp(pageLimit)) :
          /\ Fetch(page)
          /\ HasNext(page)
          /\ from' = NextFromId(page)
    /\ UNCHANGED <<storeVars, scan, pageLimit, base>>

\* The page is short: there is no next_from_id, the list is returned.
FetchLast ==
    /\ \E page \in FindByTask(from, Clamp(pageLimit)) :
          /\ Fetch(page)
          /\ ~HasNext(page)
    /\ scan' = "done"
    /\ UNCHANGED <<storeVars, pageLimit, from, base>>

\* A wrong variant of FetchFails: a retry from the first page, without end.
FetchRetries ==
    /\ scan = "reading"
    /\ from' = 0
    /\ out' = << >>
    /\ UNCHANGED <<storeVars, scan, pageLimit, base>>

\* Network, 4xx, 5xx or an unexpected shape: ReadUnavailable, and the pages
\* already collected are lost with it.
FetchFails ==
    /\ scan = "reading"
    /\ scan' = "unavailable"
    /\ out' = << >>
    /\ UNCHANGED <<storeVars, pageLimit, from, base>>

\* The caller (the watch loop does it every interval) reads again.
Rescan ==
    /\ scan \in {"done", "unavailable"}
    /\ scan' = "reading"
    /\ pageLimit' \in PageLimits
    /\ from' = 0
    /\ out' = << >>
    /\ base' = TaskRows
    /\ UNCHANGED storeVars

ScanStep == FetchPage \/ FetchLast \/ FetchFails

Init == StoreInit /\ ScanInit
Next == (StoreNext /\ UNCHANGED scanVars) \/ ScanStep \/ Rescan
Spec == Init /\ [][Next]_vars /\ WF_vars(ScanStep)

-----------------------------------------------------------------------------
ScanTypeOK ==
    /\ StoreTypeOK
    /\ scan \in {"reading", "done", "unavailable"}
    /\ pageLimit \in PageLimits
    /\ from \in 0 .. MaxId + 1
    /\ \A i \in DOMAIN out : out[i] \in rows
    /\ base \subseteq rows

\* A finished scan returns every event of the task that was visible when it
\* began, whatever was stored between its pages and however the client's
\* limit compares with the server's.
ScanComplete == scan = "done" => base \subseteq Elements(out)

\* No event is returned twice and ids ascend over page boundaries.
ScanAscending == Ascending(out)

\* Every scan ends: the cursor passes the ids there are.
ScanTerminates == scan = "reading" ~> scan # "reading"

\* "All events for a task, id ASC (follows the cursor)": at the moment the
\* scan returns, every visible event of the task below the last one returned
\* is in the list.  The code does not give this: ids are drawn before they
\* are committed, and the cursor does not go back.
NoGapBelowLast ==
    [][scan = "reading" /\ scan' = "done" =>
          \A x \in TaskRows : \A y \in Elements(out') :
              x.id < y.id => x \in Elements(out')]_vars
=============================================================================
