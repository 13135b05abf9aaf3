------------------------ MODULE TaskEventsScanProofs ------------------------
(***************************************************************************)
(* Completeness and order of a task scan, for every page limit of the      *)
(* client, every cap of the server and any concurrent writers.             *)
(***************************************************************************)
EXTENDS TaskEventsScan, EventStoreProofs

\* What the pages fetched so far and the cursor say about each other: an
\* event that was visible when the scan began has been returned or is still
\* ahead of the cursor, and everything returned is behind it.
CursorInv ==
    /\ scan = "reading" =>
          /\ \A x \in base : x \in Elements(out) \/ x.id >= from
          /\ \A i \in DOMAIN out : out[i].id < from
    /\ base \subseteq TaskRows

ScanInv ==
    /\ StoreInv
    /\ ScanTypeOK
    /\ out \in Seq(rows)
    /\ CursorInv
    /\ ScanComplete
    /\ ScanAscending

-----------------------------------------------------------------------------
\* The effective limit is a positive number whatever the client asks for.
LEMMA ClampIsPositive == \A n \in Int : Clamp(n) \in Nat \ {0}
BY ScanAssumption DEF Clamp

\* A page is a finite sequence of the task's rows at or above the cursor.
LEMMA PageIsSeq ==
    ASSUME NEW start, NEW n \in Nat, NEW page \in FindByTask(start, n)
    PROVE  /\ page \in Seq(TaskRows)
           /\ \A i \in DOMAIN page : page[i] \in TaskRows /\ page[i].id >= start
<1>1. PICK k \in 0 .. n : page \in [1 .. k -> {x \in TaskRows : x.id >= start}]
  BY DEF FindByTask
<1> QED
  BY <1>1

\* The elements of a concatenation.
LEMMA ElementsConcat ==
    ASSUME NEW S, NEW s \in Seq(S), NEW t \in Seq(S)
    PROVE  Elements(s \o t) = Elements(s) \union Elements(t)
<1>1. /\ DOMAIN s = 1 .. Len(s) /\ DOMAIN t = 1 .. Len(t)
      /\ DOMAIN (s \o t) = 1 .. Len(s) + Len(t)
  OBVIOUS
<1>2. \A i \in DOMAIN s : (s \o t)[i] = s[i] /\ i \in DOMAIN (s \o t)
  BY <1>1
<1>3. \A i \in DOMAIN t :
          (s \o t)[Len(s) + i] = t[i] /\ Len(s) + i \in DOMAIN (s \o t)
  BY <1>1
<1>4. \A i \in DOMAIN (s \o t) :
          \/ i \in DOMAIN s /\ (s \o t)[i] = s[i]
          \/ i - Len(s) \in DOMAIN t /\ (s \o t)[i] = t[i - Len(s)]
  BY <1>1
<1>5. Elements(s) \union Elements(t) \subseteq Elements(s \o t)
  BY <1>2, <1>3 DEF Elements
<1>6. Elements(s \o t) \subseteq Elements(s) \union Elements(t)
  BY <1>4 DEF Elements
<1> QED
  BY <1>5, <1>6

\* Appending a page that starts at the cursor keeps the ids ascending.
LEMMA ConcatAscending ==
    ASSUME NEW S, \A x \in S : x.id \in Nat, NEW c \in Nat,
           NEW s \in Seq(S), Ascending(s), \A i \in DOMAIN s : s[i].id < c,
           NEW t \in Seq(S), Ascending(t), \A i \in DOMAIN t : t[i].id >= c
    PROVE  Ascending(s \o t)
<1> SUFFICES ASSUME NEW i \in DOMAIN (s \o t), NEW j \in DOMAIN (s \o t), i < j
             PROVE  (s \o t)[i].id < (s \o t)[j].id
  BY DEF Ascending
<1>1. i \in 1 .. Len(s) + Len(t) /\ j \in 1 .. Len(s) + Len(t)
  OBVIOUS
<1>2. CASE j <= Len(s)
  BY <1>1, <1>2 DEF Ascending
<1>3. CASE i > Len(s)
  <2>1. /\ (s \o t)[i] = t[i - Len(s)] /\ i - Len(s) \in DOMAIN t
        /\ (s \o t)[j] = t[j - Len(s)] /\ j - Len(s) \in DOMAIN t
    BY <1>1, <1>3
  <2>2. i - Len(s) < j - Len(s)
    BY <1>1
  <2> QED
    BY <2>1, <2>2 DEF Ascending
<1>4. CASE i <= Len(s) /\ j > Len(s)
  <2>1. (s \o t)[i] = s[i] /\ i \in DOMAIN s /\ s[i] \in S
    BY <1>1, <1>4
  <2>2. /\ (s \o t)[j] = t[j - Len(s)] /\ j - Len(s) \in DOMAIN t
        /\ t[j - Len(s)] \in S
    BY <1>1, <1>4
  <2>3. s[i].id \in Nat /\ t[j - Len(s)].id \in Nat
    BY <2>1, <2>2
  <2> QED
    BY <2>1, <2>2, <2>3
<1> QED
  BY <1>1, <1>2, <1>3, <1>4

\* Rows are never lost by a step of the write path.
LEMMA RowsGrow == [StoreNext]_storeVars => rows \subseteq rows'
BY DEF StoreNext, Serve, storeVars, Post, Insert, InsertUnroutable,
       InsertExhausted, Commit, Respond, Abort, LoseResponse

LEMMA RowIds == StoreInv => \A x \in rows : x.id \in Ids
BY DEF StoreInv, StoreTypeOK, StoredEvent

-----------------------------------------------------------------------------
\* What one page adds, full or short.
LEMMA PageStep ==
    ASSUME ScanInv, scan = "reading", UNCHANGED storeVars,
           NEW page \in FindByTask(from, Clamp(pageLimit)),
           out' = out \o page
    PROVE  /\ out' \in Seq(rows') /\ Ascending(out')
           /\ Elements(out') = Elements(out) \union Elements(page)
           /\ \A i \in DOMAIN page : page[i] \in TaskRows /\ page[i].id >= from
           /\ Elements(page) \subseteq rows
<1>1. Clamp(pageLimit) \in Nat /\ from \in Nat
  BY ClampIsPositive, ScanAssumption, StoreAssumption DEF ScanInv, ScanTypeOK
<1>2. page \in Seq(rows) /\ out \in Seq(rows) /\ rows' = rows
  <2>1. page \in Seq(TaskRows)
    BY <1>1, PageIsSeq
  <2>2. TaskRows \subseteq rows
    BY DEF TaskRows
  <2> QED
    BY <2>1, <2>2 DEF ScanInv, storeVars
<1>3. \A i \in DOMAIN page : page[i] \in TaskRows /\ page[i].id >= from
  BY <1>1, PageIsSeq
<1>4. Ascending(page)
  BY DEF FindByTask
<1>5. Ascending(out \o page)
  <2>1. \A x \in rows : x.id \in Nat
    BY RowIds, StoreAssumption DEF ScanInv, Ids
  <2>2. Ascending(out) /\ \A i \in DOMAIN out : out[i].id < from
    BY DEF ScanInv, ScanAscending, CursorInv
  <2> QED
    BY <2>1, <2>2, <1>1, <1>2, <1>3, <1>4, ConcatAscending
<1>6. Elements(page) \subseteq rows
  BY <1>3 DEF Elements, TaskRows
<1> QED
  BY <1>2, <1>3, <1>5, <1>6, ElementsConcat

LEMMA ScanInvStep == ASSUME ScanInv, [Next]_vars PROVE ScanInv'
<1> USE StoreAssumption, ScanAssumption
<1>1. CASE UNCHANGED vars
  <2>1. StoreInv'
    BY <1>1, StoreInvStep DEF ScanInv, vars
  <2> QED
    BY <1>1, <2>1
       DEF ScanInv, vars, scanVars, storeVars, ScanTypeOK, StoreInv, CursorInv,
           ScanComplete, ScanAscending, Ascending, Elements, TaskRows
<1>2. CASE StoreNext /\ UNCHANGED scanVars
  <2>1. StoreInv'
    BY <1>2, StoreInvStep DEF ScanInv
  <2>2. rows \subseteq rows'
    BY <1>2, RowsGrow
  <2> QED
    BY <1>2, <2>1, <2>2
       DEF ScanInv, scanVars, ScanTypeOK, StoreInv, CursorInv, ScanComplete,
           ScanAscending, Ascending, Elements, TaskRows
<1>3. ASSUME scan = "reading", UNCHANGED <<storeVars, pageLimit, base>>,
             NEW page \in FindByTask(from, Clamp(pageLimit)),
             out' = out \o page,
             HasNext(page), scan' = scan, from' = NextFromId(page)
      PROVE  ScanInv'
  <2> DEFINE n == Clamp(pageLimit)
  <2>1. n \in Nat \ {0} /\ Len(page) = n /\ page \in Seq(TaskRows)
    <3>1. n \in Nat \ {0}
      BY ClampIsPositive DEF ScanInv, ScanTypeOK
    <3> QED
      BY <1>3, <3>1, PageIsSeq DEF HasNext
  <2>2. /\ page[n] \in TaskRows /\ n \in DOMAIN page
        /\ page[n].id \in Ids /\ page[n].id >= from
        /\ from' = page[n].id + 1
    <3>1. n \in DOMAIN page
      BY <2>1
    <3> HIDE DEF n
    <3> QED
      BY <1>3, <2>1, <3>1, PageStep, RowIds
         DEF NextFromId, ScanInv, TaskRows
  <2>3. \A i \in DOMAIN page : page[i].id \in Ids /\ page[i].id <= page[n].id
    <3>1. Ascending(page)
      BY DEF FindByTask
    <3>2. \A i \in DOMAIN page : page[i].id \in Ids
      BY <1>3, PageStep, RowIds DEF TaskRows, ScanInv
    <3>3. DOMAIN page = 1 .. n
      BY <2>1
    <3> HIDE DEF n
    <3> QED
      BY <2>1, <2>2, <3>1, <3>2, <3>3 DEF Ascending, Ids
  <2>4. \A x \in TaskRows : x.id >= from =>
            x \in Elements(page) \/ x.id > page[n].id
    <3>1. \A x \in {y \in TaskRows : y.id >= from} \ Elements(page) :
              page[n].id < x.id
      BY <2>2 DEF FindByTask
    <3>2. \A x \in TaskRows : x.id \in Ids
      BY RowIds DEF TaskRows, ScanInv
    <3> QED
      BY <2>2, <3>1, <3>2 DEF Ids
  <2>5. StoreInv' /\ rows' = rows
    BY <1>3, StoreInvStep DEF ScanInv, storeVars
  <2>6. out' \in Seq(rows') /\ ScanAscending' /\ ScanComplete'
    BY <1>3, PageStep DEF ScanAscending, ScanComplete
  <2>7. ScanTypeOK'
    <3>1. from' \in 0 .. MaxId + 1
      BY <2>2 DEF Ids
    <3>2. \A i \in DOMAIN out' : out'[i] \in rows'
      BY <2>6
    <3> QED
      BY <1>3, <2>5, <3>1, <3>2 DEF ScanInv, StoreInv, ScanTypeOK
  <2>8. CursorInv'
    <3>1. \A x \in base : x \in Elements(out') \/ x.id >= from'
      <4> SUFFICES ASSUME NEW x \in base, x \notin Elements(out')
                   PROVE  x.id >= from'
        OBVIOUS
      <4>1. x \in TaskRows /\ x.id \in Ids
        BY RowIds DEF ScanInv, CursorInv, TaskRows
      <4>2. x \notin Elements(out) /\ x \notin Elements(page)
        BY <1>3, PageStep
      <4>3. x.id >= from
        BY <1>3, <4>2 DEF ScanInv, CursorInv
      <4> QED
        BY <2>2, <2>4, <4>1, <4>2, <4>3 DEF Ids
    <3>2. \A i \in DOMAIN out' : out'[i].id < from'
      <4> SUFFICES ASSUME NEW i \in DOMAIN out' PROVE out'[i].id < from'
        OBVIOUS
      <4>1. out'[i] \in Elements(out) \union Elements(page)
        BY <1>3, PageStep DEF Elements
      <4>2. ASSUME NEW j \in DOMAIN out, out'[i] = out[j]
            PROVE  out'[i].id < from'
        <5>1. out[j].id < from /\ out[j].id \in Ids /\ from \in Nat
          BY <1>3, RowIds DEF ScanInv, CursorInv, ScanTypeOK
        <5> QED
          BY <2>2, <4>2, <5>1 DEF Ids
      <4>3. ASSUME NEW j \in DOMAIN page, out'[i] = page[j]
            PROVE  out'[i].id < from'
        BY <2>2, <2>3, <4>3 DEF Ids
      <4> QED
        BY <4>1, <4>2, <4>3 DEF Elements
    <3> QED
      BY <1>3, <2>5, <3>1, <3>2 DEF ScanInv, CursorInv, TaskRows
  <2> QED
    BY <2>5, <2>6, <2>7, <2>8 DEF ScanInv
<1>4. ASSUME scan = "reading", UNCHANGED <<storeVars, pageLimit, base>>,
             NEW page \in FindByTask(from, Clamp(pageLimit)),
             out' = out \o page,
             ~HasNext(page), scan' = "done", from' = from
      PROVE  ScanInv'
  <2>1. StoreInv' /\ rows' = rows
    BY <1>4, StoreInvStep DEF ScanInv, storeVars
  <2>2. \A x \in TaskRows : x.id >= from => x \in Elements(page)
    <3>1. Clamp(pageLimit) # 0
      BY ClampIsPositive DEF ScanInv, ScanTypeOK
    <3>2. Len(page) # Clamp(pageLimit)
      BY <1>4, <3>1 DEF HasNext
    <3> QED
      BY <3>2 DEF FindByTask
  <2>3. ScanComplete'
    <3> SUFFICES ASSUME NEW x \in base PROVE x \in Elements(out')
      BY <1>4 DEF ScanComplete
    <3>1. x \in TaskRows /\ (x \in Elements(out) \/ x.id >= from)
      BY <1>4 DEF ScanInv, CursorInv
    <3> QED
      BY <1>4, <2>2, <3>1, PageStep
  <2>4. out' \in Seq(rows') /\ ScanAscending'
    BY <1>4, PageStep DEF ScanAscending
  <2>5. ScanTypeOK'
    <3>1. \A i \in DOMAIN out' : out'[i] \in rows'
      BY <2>4
    <3> QED
      BY <1>4, <2>1, <3>1 DEF ScanInv, StoreInv, ScanTypeOK
  <2>6. CursorInv'
    BY <1>4, <2>1 DEF ScanInv, CursorInv, TaskRows
  <2> QED
    BY <2>1, <2>3, <2>4, <2>5, <2>6 DEF ScanInv
<1>5. CASE FetchFails \/ Rescan
  <2>1. StoreInv' /\ rows' = rows
    BY <1>5, StoreInvStep DEF ScanInv, FetchFails, Rescan, storeVars
  <2>2. out' = << >> /\ scan' \in {"reading", "unavailable"}
    BY <1>5 DEF FetchFails, Rescan
  <2>3. out' \in Seq(rows') /\ ScanAscending' /\ ScanComplete'
    BY <2>2 DEF ScanAscending, Ascending, ScanComplete
  <2>4. ScanTypeOK'
    BY <1>5, <2>1, <2>2
       DEF ScanInv, StoreInv, ScanTypeOK, FetchFails, Rescan, TaskRows
  <2>5. CursorInv'
    <3>1. CASE FetchFails
      BY <3>1, <2>1 DEF ScanInv, CursorInv, FetchFails, TaskRows
    <3>2. CASE Rescan
      <4>1. \A x \in TaskRows : x.id >= 0
        BY RowIds DEF TaskRows, ScanInv, Ids
      <4> QED
        BY <3>2, <4>1, <2>1, <2>2 DEF CursorInv, Rescan, TaskRows
    <3> QED
      BY <1>5, <3>1, <3>2
  <2> QED
    BY <2>1, <2>3, <2>4, <2>5 DEF ScanInv
<1>6. CASE FetchPage
  BY <1>6, <1>3 DEF FetchPage, Fetch
<1>7. CASE FetchLast
  BY <1>7, <1>4 DEF FetchLast, Fetch
<1> QED
  BY <1>1, <1>2, <1>5, <1>6, <1>7 DEF Next, ScanStep

THEOREM ScanInvariance == Spec => []ScanInv
<1>1. Init => ScanInv
  <2> SUFFICES ASSUME Init PROVE ScanInv
    OBVIOUS
  <2>1. StoreInv
    BY StoreInvInit DEF Init
  <2>2. rows = {} /\ out = << >> /\ base = {} /\ from = 0 /\ scan = "reading"
      /\ pageLimit \in PageLimits
    BY DEF Init, StoreInit, ScanInit, TaskRows
  <2> QED
    BY <2>1, <2>2, StoreAssumption
       DEF ScanInv, ScanTypeOK, StoreInv, CursorInv, ScanComplete,
           ScanAscending, Ascending
<1> QED
  BY <1>1, ScanInvStep, PTL DEF Spec

-----------------------------------------------------------------------------
\* A finished ReadClient.task_events has every event of the task that was
\* visible when it began: no page boundary, no limit and no concurrent commit
\* can make it skip one of those.
THEOREM ScanCompleteness == Spec => []ScanComplete
<1>1. ScanInv => ScanComplete
  BY DEF ScanInv
<1> QED
  BY <1>1, ScanInvariance, PTL

\* Its list never repeats an event and ascends by id.
THEOREM ScanOrder == Spec => []ScanAscending
<1>1. ScanInv => ScanAscending
  BY DEF ScanInv
<1> QED
  BY <1>1, ScanInvariance, PTL
=============================================================================
