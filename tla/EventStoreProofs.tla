-------------------------- MODULE EventStoreProofs --------------------------
(***************************************************************************)
(* The safety of the write path for any number of concurrent requests, any *)
(* set of events and any size of the id sequence.                          *)
(***************************************************************************)
EXTENDS EventStore, TLAPS

\* The states in which a request's row is in the database, committed or not.
Holding == {"inserted", "committed", "acked"}

\* The parts of the inductive invariant that the properties leave out: the
\* sequence is ahead of every id it handed out, an id is drawn by one request
\* only, a visible row is the row of the request that drew its id, and a
\* request that answered or is about to answer has its row visible.
DrawnBelowSeq == \A r \in Requests : rowid[r] <= seq

DrawnOnce ==
    \A r, s \in Requests : rowid[r] # 0 /\ rowid[r] = rowid[s] => r = s

HoldersDrew ==
    \A r \in Requests :
        /\ pc[r] \in {"idle", "begun"} => rowid[r] = 0
        /\ pc[r] \in Holding => rowid[r] # 0

RowsHaveWriters ==
    \A x \in rows : \E r \in Requests :
        /\ pc[r] \in {"committed", "acked", "failed"}
        /\ rowid[r] = x.id
        /\ body[r] = x.event

CommittedIsStored ==
    \A r \in Requests :
        pc[r] \in {"committed", "acked"} =>
            [id |-> rowid[r], event |-> body[r]] \in rows

SeenBelowSeq == \A r \in Requests : \A i \in seen[r] : i <= seq

StoreInv ==
    /\ StoreTypeOK
    /\ DrawnBelowSeq
    /\ DrawnOnce
    /\ HoldersDrew
    /\ RowsHaveWriters
    /\ CommittedIsStored
    /\ SeenBelowSeq
    /\ IdsFollowRealTime

-----------------------------------------------------------------------------
\* The sequence, the ids drawn and the rows after each action of a request.
LEMMA StoreInvStep ==
    ASSUME StoreInv, [StoreNext]_storeVars
    PROVE  StoreInv'
<1> USE StoreAssumption DEF StoreTypeOK, PCs, Ids, StoredEvent
<1>1. CASE UNCHANGED storeVars
  BY <1>1 DEF storeVars, StoreInv, DrawnBelowSeq, DrawnOnce, HoldersDrew,
              RowsHaveWriters, CommittedIsStored, SeenBelowSeq,
              IdsFollowRealTime
<1>2. ASSUME NEW r \in Requests, Post(r) PROVE StoreInv'
  <2>1. \A x \in rows : x.id \in Ids /\ x.id <= seq
    BY DEF StoreInv, RowsHaveWriters, DrawnBelowSeq
  <2>2. rowid[r] = 0
    BY <1>2 DEF Post, StoreInv, HoldersDrew
  <2>3. StoreTypeOK' /\ SeenBelowSeq' /\ IdsFollowRealTime'
    BY <1>2, <2>1, <2>2
       DEF Post, StoreInv, SeenBelowSeq, IdsFollowRealTime
  <2>4. DrawnBelowSeq' /\ DrawnOnce' /\ HoldersDrew'
    BY <1>2 DEF Post, StoreInv, DrawnBelowSeq, DrawnOnce, HoldersDrew, Holding
  <2>5. RowsHaveWriters' /\ CommittedIsStored'
    BY <1>2 DEF Post, StoreInv, RowsHaveWriters, CommittedIsStored
  <2> QED
    BY <2>3, <2>4, <2>5 DEF StoreInv
<1>3. ASSUME NEW r \in Requests, Insert(r) PROVE StoreInv'
  <2>1. /\ seq < MaxId /\ seq' = seq + 1
        /\ pc[r] = "begun" /\ pc' = [pc EXCEPT ![r] = "inserted"]
        /\ rowid' = [rowid EXCEPT ![r] = seq + 1]
        /\ UNCHANGED <<rows, body, seen>>
    BY <1>3 DEF Insert, NextIds, SequenceLeft
  <2>2. StoreTypeOK'
    BY <2>1 DEF StoreInv
  <2>3. DrawnBelowSeq' /\ SeenBelowSeq'
    BY <2>1 DEF StoreInv, DrawnBelowSeq, SeenBelowSeq
  <2>4. DrawnOnce'
    BY <2>1 DEF StoreInv, DrawnBelowSeq, DrawnOnce
  <2>5. HoldersDrew'
    BY <2>1 DEF StoreInv, HoldersDrew, Holding
  <2>6. RowsHaveWriters' /\ CommittedIsStored'
    BY <2>1 DEF StoreInv, RowsHaveWriters, CommittedIsStored
  <2>7. IdsFollowRealTime'
    BY <2>1 DEF StoreInv, SeenBelowSeq, IdsFollowRealTime
  <2> QED
    BY <2>2, <2>3, <2>4, <2>5, <2>6, <2>7 DEF StoreInv
<1>4. ASSUME NEW r \in Requests, Commit(r) PROVE StoreInv'
  <2>1. rowid[r] \in Ids
    BY <1>4 DEF Commit, StoreInv, HoldersDrew, Holding
  <2>2. StoreTypeOK'
    BY <1>4, <2>1 DEF Commit, StoreInv
  <2>3. DrawnBelowSeq' /\ SeenBelowSeq' /\ DrawnOnce' /\ IdsFollowRealTime'
    BY <1>4 DEF Commit, StoreInv, DrawnBelowSeq, SeenBelowSeq, DrawnOnce,
                IdsFollowRealTime
  <2>4. HoldersDrew'
    BY <1>4 DEF Commit, StoreInv, HoldersDrew, Holding
  <2>5. RowsHaveWriters'
    BY <1>4 DEF Commit, StoreInv, RowsHaveWriters
  <2>6. CommittedIsStored'
    BY <1>4 DEF Commit, StoreInv, CommittedIsStored
  <2> QED
    BY <2>2, <2>3, <2>4, <2>5, <2>6 DEF StoreInv
<1>5. ASSUME NEW r \in Requests,
             \/ InsertUnroutable(r) \/ InsertExhausted(r)
             \/ Respond(r) \/ Abort(r) \/ LoseResponse(r)
      PROVE  StoreInv'
  <2> USE <1>5 DEF InsertUnroutable, InsertExhausted, SequenceLeft, Respond,
                   Abort, LoseResponse
  <2>1. StoreTypeOK'
    BY DEF StoreInv
  <2>2. DrawnBelowSeq' /\ SeenBelowSeq'
    BY DEF StoreInv, DrawnBelowSeq, SeenBelowSeq
  <2>3. DrawnOnce' /\ IdsFollowRealTime'
    BY DEF StoreInv, DrawnOnce, IdsFollowRealTime
  <2>4. HoldersDrew'
    BY DEF StoreInv, HoldersDrew, Holding
  <2>5. RowsHaveWriters'
    BY DEF StoreInv, RowsHaveWriters
  <2>6. CommittedIsStored'
    BY DEF StoreInv, CommittedIsStored
  <2> QED
    BY <2>1, <2>2, <2>3, <2>4, <2>5, <2>6 DEF StoreInv
<1> QED
  BY <1>1, <1>2, <1>3, <1>4, <1>5 DEF StoreNext, Serve

LEMMA StoreInvInit == StoreInit => StoreInv
BY StoreAssumption
   DEF StoreInit, StoreInv, StoreTypeOK, PCs, Ids, StoredEvent,
       DrawnBelowSeq, DrawnOnce, HoldersDrew, Holding, RowsHaveWriters,
       CommittedIsStored, SeenBelowSeq, IdsFollowRealTime

THEOREM StoreInvariance == StoreSpec => []StoreInv
BY StoreInvInit, StoreInvStep, PTL DEF StoreSpec

-----------------------------------------------------------------------------
\* Type correctness of the write path (StoreInit, every action of Serve).
THEOREM StoreTyping == StoreSpec => []StoreTypeOK
<1>1. StoreInv => StoreTypeOK
  BY DEF StoreInv
<1> QED
  BY <1>1, StoreInvariance, PTL

\* Uniqueness of the visible ids, which the key (id, timestamp) of the table
\* does not enforce: rows have writers, and writers drew different ids.
LEMMA InvGivesUniqueIds == ASSUME StoreInv PROVE IdsUnique
<1> SUFFICES ASSUME NEW x \in rows, NEW y \in rows, x.id = y.id
             PROVE  x = y
  BY DEF IdsUnique
<1>1. x \in StoredEvent /\ y \in StoredEvent
  BY DEF StoreInv, StoreTypeOK
<1>2. PICK r \in Requests : rowid[r] = x.id /\ body[r] = x.event
  BY DEF StoreInv, RowsHaveWriters
<1>3. PICK s \in Requests : rowid[s] = y.id /\ body[s] = y.event
  BY DEF StoreInv, RowsHaveWriters
<1>4. r = s
  BY <1>1, <1>2, <1>3, StoreAssumption
     DEF StoreInv, DrawnOnce, StoredEvent, Ids
<1> QED
  BY <1>1, <1>2, <1>3, <1>4 DEF StoredEvent

\* get_by_id never meets two rows (one_or_none).
THEOREM UniqueIds == StoreSpec => []IdsUnique
BY InvGivesUniqueIds, StoreInvariance, PTL

\* The 201 answer of post_events is never ahead of the commit.
THEOREM AckDurability == StoreSpec => []AckedIsStored
<1>1. StoreInv => AckedIsStored
  BY DEF StoreInv, CommittedIsStored, AckedIsStored
<1> QED
  BY <1>1, StoreInvariance, PTL

\* An event posted after another became visible is numbered after it.
THEOREM RealTimeOrder == StoreSpec => []IdsFollowRealTime
<1>1. StoreInv => IdsFollowRealTime
  BY DEF StoreInv
<1> QED
  BY <1>1, StoreInvariance, PTL

-----------------------------------------------------------------------------
\* A step of the write path appends one event under a fresh id or leaves the
\* log as it is.
LEMMA StoreStepRefines ==
    ASSUME StoreInv, StoreInv', [StoreNext]_storeVars
    PROVE  [Log!Append]_rows
<1>1. CASE UNCHANGED storeVars
  BY <1>1 DEF storeVars
<1>2. ASSUME NEW r \in Requests, Commit(r) PROVE Log!Append
  <2> DEFINE new == [id |-> rowid[r], event |-> body[r]]
  <2>1. rowid[r] \in Ids /\ body[r] \in Events
    BY <1>2, StoreAssumption
       DEF Commit, StoreInv, StoreTypeOK, HoldersDrew, Holding, Ids
  <2>2. \A x \in rows : x.id # rowid[r]
    <3> SUFFICES ASSUME NEW x \in rows, x.id = rowid[r] PROVE FALSE
      OBVIOUS
    <3>1. PICK s \in Requests :
              /\ pc[s] \in {"committed", "acked", "failed"}
              /\ rowid[s] = x.id
      BY DEF StoreInv, RowsHaveWriters
    <3>2. s = r
      BY <2>1, <3>1, StoreAssumption DEF StoreInv, DrawnOnce, Ids
    <3> QED
      BY <1>2, <3>1, <3>2 DEF Commit
  <2>3. rows' = rows \union {new}
    BY <1>2 DEF Commit
  <2> QED
    BY <2>1, <2>2, <2>3 DEF Log!Append
<1>3. ASSUME NEW r \in Requests,
             \/ Post(r) \/ Insert(r) \/ InsertUnroutable(r)
             \/ InsertExhausted(r) \/ Respond(r) \/ Abort(r) \/ LoseResponse(r)
      PROVE  UNCHANGED rows
  BY <1>3 DEF Post, Insert, InsertUnroutable, InsertExhausted, Respond,
              Abort, LoseResponse
<1> QED
  BY <1>1, <1>2, <1>3 DEF StoreNext, Serve

\* PostgresEventRepository with its concurrent requests keeps the promise of
\* EventRepository: visible events are only ever added, under fresh ids.
THEOREM StoreImplementsLog == StoreSpec => ImplementsEventLog
<1>1. StoreInit => Log!Init
  BY DEF StoreInit, Log!Init
<1>2. StoreInv /\ StoreInv' /\ [StoreNext]_storeVars => [Log!Append]_rows
  BY StoreStepRefines
<1> QED
  BY <1>1, <1>2, StoreInvariance, PTL
     DEF StoreSpec, ImplementsEventLog, Log!Spec
=============================================================================
