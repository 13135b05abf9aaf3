----------------------------- MODULE EventStore -----------------------------
(***************************************************************************)
(* The write path of vfobs: POST /events runs the pipeline enricher ->     *)
(* storer, and the storer calls PostgresEventRepository.store, which       *)
(* inserts one row of the month-partitioned table vfobs.events in a        *)
(* transaction of its own.  Requests are served concurrently; each element *)
(* of Requests is one POST that passed authentication and validation.      *)
(*                                                                         *)
(* Three facts of the schema shape the behaviour.  The id comes from a     *)
(* BIGSERIAL sequence, which hands out values when the INSERT executes and *)
(* never takes one back, while the row becomes visible only at COMMIT: ids *)
(* can become visible out of order.  The primary key is (id, timestamp),   *)
(* so the schema does not itself make ids unique.  And the migration       *)
(* creates partitions for three months only, each computed from a call of  *)
(* date.today() of its own: an event stamped outside them has no partition *)
(* to go to and its INSERT fails.                                          *)
(***************************************************************************)
EXTENDS Naturals

CONSTANTS Requests,         \* the POST /events requests
          Events,           \* the event bodies clients send
          MaxId,            \* the largest value of the id sequence
          Today             \* Today[k]: the month in which upgrade() asked
                            \* date.today() for its partition k

ASSUME StoreAssumption ==
    /\ MaxId \in Nat
    /\ Today \in [0 .. 2 -> Nat]
    /\ Today[0] <= Today[1] /\ Today[1] <= Today[2]
    /\ \A e \in Events : e.month \in Nat

VARIABLES seq,      \* last value the sequence handed out
          rows,     \* the committed rows, as [id, event] records
          pc,       \* pc[r]: how far request r has come
          body,     \* body[r]: the event request r carries
          rowid,    \* rowid[r]: the id its INSERT was given, 0 before
          seen      \* seen[r]: history, the ids visible when r arrived

storeVars == <<seq, rows, pc, body, rowid, seen>>

Ids == 1 .. MaxId

\* A row as find_* return it: the DB id rides beside the event, not in it.
StoredEvent == [id : Ids, event : Events]

\* upgrade() creates the partition of the current month and of the next two;
\* when the month turns between two of the three calls, one is left out.
Partitions == {Today[k] + k : k \in 0 .. 2}

StoreInit ==
    /\ seq = 0
    /\ rows = {}
    /\ pc = [r \in Requests |-> "idle"]
    /\ body \in [Requests -> Events]
    /\ rowid = [r \in Requests |-> 0]
    /\ seen = [r \in Requests |-> {}]

-----------------------------------------------------------------------------
\* post_events: the body is accepted, run_pipeline passes it through the
\* enricher unchanged and store() opens its transaction.
Post(r) ==
    /\ pc[r] = "idle"
    /\ pc' = [pc EXCEPT ![r] = "begun"]
    /\ seen' = [seen EXCEPT ![r] = {x.id : x \in rows}]
    /\ UNCHANGED <<seq, rows, body, rowid>>

\* Wrong variants of NextIds: the largest visible id plus one; any id of a
\* block that the connection has cached.
NextIdsAfterLast ==
    {i \in Ids : (\A x \in rows : x.id < i)
                    /\ (i = 1 \/ \E x \in rows : x.id = i - 1)}
NextIdsCached == Ids \ {rowid[s] : s \in Requests}

\* nextval of the BIGSERIAL sequence.
NextIds == {seq + 1}

\* A wrong variant of SequenceLeft: one value too many.
SequenceLeftInclusive == seq <= MaxId

SequenceLeft == seq < MaxId

\* The INSERT executes: the id column's default draws the next id from the
\* sequence, the row is routed to its partition and stays invisible to others.
Insert(r) ==
    /\ pc[r] = "begun"
    /\ SequenceLeft
    /\ body[r].month \in Partitions
    /\ seq' = seq + 1
    /\ \E i \in NextIds : rowid' = [rowid EXCEPT ![r] = i]
    /\ pc' = [pc EXCEPT ![r] = "inserted"]
    /\ UNCHANGED <<rows, body, seen>>

\* "no partition of relation found for row": the statement fails, the
\* transaction is rolled back, the handler answers 500.  The id drawn for
\* the row is not given back.
InsertUnroutable(r) ==
    /\ pc[r] = "begun"
    /\ SequenceLeft
    /\ body[r].month \notin Partitions
    /\ seq' = seq + 1
    /\ pc' = [pc EXCEPT ![r] = "failed"]
    /\ UNCHANGED <<rows, body, rowid, seen>>

\* The sequence is exhausted: nextval fails and so does the request.
InsertExhausted(r) ==
    /\ pc[r] = "begun"
    /\ ~SequenceLeft
    /\ pc' = [pc EXCEPT ![r] = "failed"]
    /\ UNCHANGED <<seq, rows, body, rowid, seen>>

\* A wrong variant of Commit: an upsert that replaces an equal event.
CommitUpsert(r) ==
    /\ pc[r] = "inserted"
    /\ rows' = {x \in rows : x.event # body[r]}
                   \union {[id |-> rowid[r], event |-> body[r]]}
    /\ pc' = [pc EXCEPT ![r] = "committed"]
    /\ UNCHANGED <<seq, body, rowid, seen>>

\* engine.begin() leaves its block and commits: the row becomes visible.
Commit(r) ==
    /\ pc[r] = "inserted"
    /\ rows' = rows \union {[id |-> rowid[r], event |-> body[r]]}
    /\ pc' = [pc EXCEPT ![r] = "committed"]
    /\ UNCHANGED <<seq, body, rowid, seen>>

\* A wrong variant of Respond: the id is returned from inside the transaction.
RespondEarly(r) ==
    /\ pc[r] \in {"inserted", "committed"}
    /\ pc' = [pc EXCEPT ![r] = "acked"]
    /\ UNCHANGED <<seq, rows, body, rowid, seen>>

\* store() returns the id and the client receives 201 {"id": ...}.
Respond(r) ==
    /\ pc[r] = "committed"
    /\ pc' = [pc EXCEPT ![r] = "acked"]
    /\ UNCHANGED <<seq, rows, body, rowid, seen>>

\* The connection or the server process dies before the commit: the
\* transaction is rolled back and the client sees a failure.
Abort(r) ==
    /\ pc[r] \in {"begun", "inserted"}
    /\ pc' = [pc EXCEPT ![r] = "failed"]
    /\ UNCHANGED <<seq, rows, body, rowid, seen>>

\* It dies after the commit: the row stays, the client sees a failure all
\* the same.
LoseResponse(r) ==
    /\ pc[r] = "committed"
    /\ pc' = [pc EXCEPT ![r] = "failed"]
    /\ UNCHANGED <<seq, rows, body, rowid, seen>>

Serve(r) ==
    \/ Post(r)
    \/ Insert(r)
    \/ InsertUnroutable(r)
    \/ InsertExhausted(r)
    \/ Commit(r)
    \/ Respond(r)
    \/ Abort(r)
    \/ LoseResponse(r)

StoreNext == \E r \in Requests : Serve(r)

StoreSpec == StoreInit /\ [][StoreNext]_storeVars

-----------------------------------------------------------------------------
PCs == {"idle", "begun", "inserted", "committed", "acked", "failed"}

\* The types of the write path's state.
StoreTypeOK ==
    /\ seq \in 0 .. MaxId
    /\ rows \subseteq StoredEvent
    /\ pc \in [Requests -> PCs]
    /\ body \in [Requests -> Events]
    /\ rowid \in [Requests -> 0 .. MaxId]
    /\ seen \in [Requests -> SUBSET Ids]

\* An id names one event: no two visible rows share one, although the
\* primary key (id, timestamp) would let them.  get_by_id relies on it
\* (one_or_none raises on a second row).
IdsUnique == \A x, y \in rows : x.id = y.id => x = y

\* A client that got 201 {"id": i} can read its own event back under i, in
\* that state and in every later one: the answer is never ahead of the commit.
AckedIsStored ==
    \A r \in Requests :
        pc[r] = "acked" => [id |-> rowid[r], event |-> body[r]] \in rows

\* Ids respect real time: an event stored after another one was already
\* visible gets the larger id.  A client that posts one event at a time thus
\* has its events numbered in the order it sent them.
IdsFollowRealTime ==
    \A r \in Requests :
        rowid[r] # 0 => \A i \in seen[r] : i < rowid[r]

\* What every caller of EventRepository may rely on: see EventLog.
Log == INSTANCE EventLog WITH log <- rows
ImplementsEventLog == Log!Spec
=============================================================================
