------------------------- MODULE ResourceReadProofs -------------------------
(***************************************************************************)
(* The three awaits of a resource read see three states of the store.      *)
(* What ties them together is that the log only grows: every count and     *)
(* every last id an answer carries stays true, as a lower bound, in all    *)
(* later states.                                                           *)
(***************************************************************************)
EXTENDS ResourceRead, EventStoreProofs, FiniteSetTheorems

\* The summary of the latest answer is a lower bound of the present one.
SummaryIsPast ==
    /\ count <= Cardinality(SubjectRows)
    /\ tail # 0 => \E x \in SubjectRows : x.id = tail

ReadInv ==
    /\ StoreInv
    /\ IsFiniteSet(rows)
    /\ read \in {"idle", "asking", "counting", "counted", "done", "notfound"}
    /\ meta \in BOOLEAN
    /\ count \in Nat
    /\ tail \in 0 .. MaxId
    /\ before \subseteq SubjectRows
    /\ SummaryIsPast
    /\ TailCoversCount
    /\ NotFoundHonest

-----------------------------------------------------------------------------
LEMMA SubjectIsFinite ==
    ASSUME ReadInv
    PROVE  /\ IsFiniteSet(SubjectRows)
           /\ Cardinality(SubjectRows) \in Nat
           /\ \A x \in SubjectRows : x.id \in 1 .. MaxId
<1>1. IsFiniteSet(SubjectRows)
  BY FS_Subset DEF ReadInv, SubjectRows
<1>2. \A x \in SubjectRows : x.id \in 1 .. MaxId
  BY DEF ReadInv, StoreInv, StoreTypeOK, StoredEvent, Ids, SubjectRows
<1> QED BY <1>1, <1>2, FS_CardinalityType

\* A step of the write path adds at most one row and takes none away.
LEMMA StoreStepAdds ==
    ASSUME ReadInv, StoreNext
    PROVE  /\ rows \subseteq rows'
           /\ IsFiniteSet(rows')
           /\ SubjectRows \subseteq SubjectRows'
           /\ IsFiniteSet(SubjectRows')
<1>1. rows \subseteq rows' /\ \E x : rows' \subseteq rows \union {x}
  BY DEF StoreNext, Serve, Post, Insert, InsertUnroutable, InsertExhausted,
         Commit, Respond, Abort, LoseResponse
<1>2. PICK x : rows' \subseteq rows \union {x}
  BY <1>1
<1>3. IsFiniteSet(rows \union {x})
  BY FS_AddElement DEF ReadInv
<1>4. IsFiniteSet(rows')
  BY <1>2, <1>3, FS_Subset
<1>5. SubjectRows \subseteq SubjectRows' /\ SubjectRows' \subseteq rows'
  BY <1>1 DEF SubjectRows
<1>6. IsFiniteSet(SubjectRows')
  BY <1>4, <1>5, FS_Subset
<1> QED BY <1>1, <1>4, <1>5, <1>6

-----------------------------------------------------------------------------
LEMMA ReadInvInit == Init => ReadInv
<1> SUFFICES ASSUME Init PROVE ReadInv
  OBVIOUS
<1>1. StoreInv
  BY StoreInvInit DEF Init
<1>2. SubjectRows = {} /\ rows = {}
  BY DEF Init, StoreInit, SubjectRows
<1>3. Cardinality(SubjectRows) = 0 /\ IsFiniteSet(rows)
  BY <1>2, FS_EmptySet
<1>4. count \in Nat /\ tail \in 0 .. MaxId /\ SummaryIsPast
  BY <1>3, StoreAssumption DEF Init, ReadInit, SummaryIsPast
<1>5. meta \in BOOLEAN
  BY DEF Init, ReadInit
<1> QED
  BY <1>1, <1>2, <1>3, <1>4, <1>5
     DEF Init, ReadInit, ReadInv, TailCoversCount, NotFoundHonest

\* Events are stored while the request stands at an await.
LEMMA StoreStepKeepsRead ==
    ASSUME ReadInv, StoreNext, UNCHANGED readVars PROVE ReadInv'
<1> USE DEF readVars
<1>1. StoreInv'
  BY StoreInvStep DEF ReadInv
<1>2. Cardinality(SubjectRows) <= Cardinality(SubjectRows')
      /\ Cardinality(SubjectRows') \in Nat
  BY StoreStepAdds, FS_Subset, FS_CardinalityType
<1>3. SummaryIsPast'
  BY <1>2, StoreStepAdds, SubjectIsFinite DEF ReadInv, SummaryIsPast
<1>4. TailCoversCount'
  <2> DEFINE Old == {x \in SubjectRows : x.id <= tail}
             New == {x \in SubjectRows' : x.id <= tail}
  <2>1. Old \subseteq New /\ IsFiniteSet(New)
    BY StoreStepAdds, FS_Subset
  <2>2. Cardinality(Old) <= Cardinality(New)
    BY <2>1, FS_Subset
  <2>3. Cardinality(Old) \in Nat /\ Cardinality(New) \in Nat
    BY <2>1, FS_Subset, FS_CardinalityType
  <2>4. read = "done" => count <= Cardinality(Old)
    BY DEF ReadInv, TailCoversCount
  <2>5. read = "done" => count <= Cardinality(New)
    BY <2>2, <2>3, <2>4 DEF ReadInv
  <2> QED BY <2>5 DEF TailCoversCount
<1> QED
  BY <1>1, <1>3, <1>4, StoreStepAdds DEF ReadInv, NotFoundHonest

\* One step of the request, on the rows of its moment.
LEMMA ReadStepKeepsRead == ASSUME ReadInv, ReadStep PROVE ReadInv'
<1> USE SubjectIsFinite
<1>1. UNCHANGED storeVars /\ rows' = rows /\ SubjectRows' = SubjectRows
  BY DEF ReadStep, Request, VtfAnswers, Count, LastEvent, NextRequest,
         storeVars, SubjectRows
<1>2. StoreInv' /\ IsFiniteSet(rows')
  BY <1>1, StoreInvStep DEF ReadInv
<1>3. CASE Request
  BY <1>1, <1>2, <1>3 DEF Request, ReadInv, SummaryIsPast, TailCoversCount,
                          NotFoundHonest
<1>4. CASE VtfAnswers
  BY <1>1, <1>2, <1>4 DEF VtfAnswers, ReadInv, SummaryIsPast,
                          TailCoversCount, NotFoundHonest
<1>5. CASE Count
  <2>1. count' = Cardinality(SubjectRows) /\ count' \in Nat
    BY <1>5 DEF Count
  <2>2. read' = "notfound" => ~meta' /\ before' = {}
    <3>1. Cardinality(SubjectRows) = 0 => SubjectRows = {}
      BY FS_EmptySet
    <3> QED BY <1>5, <2>1, <3>1 DEF Count, ReadInv
  <2>3. SummaryIsPast'
    BY <1>1, <1>5, <2>1 DEF Count, ReadInv, SummaryIsPast
  <2> QED
    BY <1>1, <1>2, <1>5, <2>1, <2>2, <2>3
       DEF Count, ReadInv, TailCoversCount, NotFoundHonest
<1>6. CASE LastEvent
  <2>1. CASE SubjectRows = {} /\ tail' = 0
    <3>1. {x \in SubjectRows' : x.id <= tail'} = SubjectRows
      BY <1>1, <2>1
    <3> QED
      BY <1>1, <1>2, <1>6, <2>1, <3>1, StoreAssumption
         DEF LastEvent, ReadInv, SummaryIsPast, TailCoversCount,
             NotFoundHonest
  <2>2. CASE tail' \in LastIds
    <3>1. PICK y \in SubjectRows :
              tail' = y.id /\ \A z \in SubjectRows : z.id <= y.id
      BY <2>2 DEF LastIds
    <3>2. {x \in SubjectRows' : x.id <= tail'} = SubjectRows
      BY <1>1, <3>1
    <3> QED
      BY <1>1, <1>2, <1>6, <3>1, <3>2
         DEF LastEvent, ReadInv, SummaryIsPast, TailCoversCount,
             NotFoundHonest
  <2> QED BY <1>6, <2>1, <2>2 DEF LastEvent
<1>7. CASE NextRequest
  BY <1>1, <1>2, <1>7 DEF NextRequest, ReadInv, SummaryIsPast,
                          TailCoversCount, NotFoundHonest
<1> QED BY <1>3, <1>4, <1>5, <1>6, <1>7 DEF ReadStep

LEMMA ReadInvStep == ASSUME ReadInv, [Next]_vars PROVE ReadInv'
<1>1. CASE StoreNext /\ UNCHANGED readVars
  BY <1>1, StoreStepKeepsRead
<1>2. CASE ReadStep
  BY <1>2, ReadStepKeepsRead
<1>3. CASE UNCHANGED vars
  <2>1. StoreInv'
    BY <1>3, StoreInvStep DEF vars, ReadInv
  <2> QED
    BY <1>3, <2>1 DEF vars, readVars, storeVars, ReadInv, SummaryIsPast,
                      TailCoversCount, NotFoundHonest, SubjectRows
<1> QED BY <1>1, <1>2, <1>3 DEF Next

\* The invariant behind the three results below.
THEOREM ReadInvariance == Spec => []ReadInv
<1>1. Init => ReadInv
  BY ReadInvInit
<1>2. ReadInv /\ [Next]_vars => ReadInv'
  BY ReadInvStep
<1> QED BY <1>1, <1>2, PTL DEF Spec

\* event_count and last_event of one answer of get_task or get_workgraph
\* belong together, however many events are stored between the two queries.
THEOREM SummaryBelongsTogether == Spec => []TailCoversCount
<1>1. ReadInv => TailCoversCount
  BY DEF ReadInv
<1> QED BY <1>1, ReadInvariance, PTL

\* 404 is said only of a resource that vtaskforge did not describe and that
\* had no event when the request came.
THEOREM NotFoundIsHonest == Spec => []NotFoundHonest
<1>1. ReadInv => NotFoundHonest
  BY DEF ReadInv
<1> QED BY <1>1, ReadInvariance, PTL

\* Two answers of a resource read, one after the other, never contradict each
\* other: neither event_count nor last_event_id goes back.
THEOREM SummaryNeverGoesBack == Spec => SummaryMonotone
<1>1. ReadInv /\ [Next]_vars => [count' >= count /\ tail' >= tail]_vars
  <2> SUFFICES ASSUME ReadInv, Next PROVE count' >= count /\ tail' >= tail
    OBVIOUS
  <2> USE SubjectIsFinite
  <2>1. CASE Count
    BY <2>1 DEF Count, ReadInv, SummaryIsPast
  <2>2. CASE LastEvent
    <3>1. CASE SubjectRows = {} /\ tail' = 0
      BY <2>2, <3>1 DEF LastEvent, ReadInv, SummaryIsPast
    <3>2. CASE tail' \in LastIds
      BY <2>2, <3>2 DEF LastEvent, LastIds, ReadInv, SummaryIsPast
    <3> QED BY <2>2, <3>1, <3>2 DEF LastEvent
  <2>3. CASE ~Count /\ ~LastEvent
    BY <2>3 DEF ReadInv, Next, ReadStep, Request, VtfAnswers, NextRequest,
                readVars
  <2> QED BY <2>1, <2>2, <2>3
<1> QED BY <1>1, ReadInvariance, PTL DEF Spec, SummaryMonotone
=============================================================================
