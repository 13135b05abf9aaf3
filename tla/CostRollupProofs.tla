-------------------------- MODULE CostRollupProofs --------------------------
(***************************************************************************)
(* The roll-up counts no task twice, no superseded run and leaves no task  *)
(* out, for any number of concurrent writers, any set of events and any    *)
(* scopes.                                                                 *)
(***************************************************************************)
EXTENDS CostRollup, EventStoreProofs, FiniteSetTheorems

\* What an answer counts stays stored: rows are never removed, so the
\* uniqueness of their ids carries over from the snapshot to every later state.
\* The same holds of what the client's request found, so that a later row of
\* the scope is there for each of them.
CostInv ==
    /\ StoreInv
    /\ IsFiniteSet(rows)
    /\ scope \in Scopes
    /\ ask \in {"idle", "checking", "computing", "done", "notfound", "failed"}
    /\ counted \subseteq Bearing(Scoped(rows, scope))
    /\ summary = Summary(counted)
    /\ ~CastFails(counted)
    /\ OnePerTask
    /\ knew \subseteq Scoped(rows, scope)
    /\ AnswerCoversAsked

-----------------------------------------------------------------------------
(* The highest id, and the sum over a set of rows. *)

\* Every nonempty set of naturals has a least element.
LEMMA LeastNatural ==
    ASSUME NEW T \in SUBSET Nat, T # {}
    PROVE  \E x \in T : \A y \in T : x <= y
<1> DEFINE Less == {p \in Nat \X Nat : p[1] < p[2]}
<1>0. IsWellFoundedOn(Less, Nat)
  BY NatLessThanWellFounded, Zenon DEF OpToRel
<1> HIDE DEF Less
<1>1. PICK x \in T : \A y \in T : ~(<<y, x>> \in Less)
  BY <1>0, WFMin
<1>2. \A y \in T : ~(y < x)
  BY <1>1 DEF Less
<1> QED
  BY <1>2

\* ORDER BY id DESC has a first row.
LEMMA HighestId ==
    ASSUME NEW S \in SUBSET Nat, NEW n \in Nat, \A i \in S : i <= n, S # {}
    PROVE  \E m \in S : \A i \in S : i <= m
<1> DEFINE T == {n - i : i \in S}
<1>1. T \in SUBSET Nat /\ T # {}
  <2>1. \A i \in S : n - i \in Nat
    OBVIOUS
  <2>2. T \in SUBSET Nat
    BY <2>1
  <2>3. PICK i \in S : TRUE
    OBVIOUS
  <2>4. n - i \in T
    BY <2>3
  <2> QED
    BY <2>2, <2>4
<1>2. PICK x \in T : \A y \in T : x <= y
  <2> HIDE DEF T
  <2> QED
    BY <1>1, LeastNatural
<1>3. PICK m \in S : x = n - m
  OBVIOUS
<1>4. \A i \in S : n - m <= n - i
  BY <1>2, <1>3
<1> QED
  BY <1>4

\* Of a family of subsets of a finite set one has no other below it.
LEMMA MinimalSubset ==
    ASSUME NEW R, IsFiniteSet(R), NEW T \in SUBSET SUBSET R, T # {}
    PROVE  \E S \in T : \A U \in T : U \subseteq S => U = S
<1>1. T \subseteq FiniteSubsetsOf(R)
  BY FS_FiniteSubsetsOfFinite
<1>2. PICK S \in T : \A U \in T : ~(<<U, S>> \in StrictSubsetOrdering(R))
  BY <1>1, FS_StrictSubsetOrderingWellFounded, WFMin
<1> QED
  BY <1>2 DEF StrictSubsetOrdering

\* What the fold computes on all sets of rows up to R: one row is taken at a
\* time.
First(S) == CHOOSE x \in S : TRUE

IsSum(F, R, a) ==
    F = [S \in SUBSET R |->
            IF S = {} THEN 0 ELSE Amount(First(S), a) + F[S \ {First(S)}]]

LEMMA SumStep ==
    ASSUME NEW F, NEW R, NEW a, IsSum(F, R, a), NEW S \in SUBSET R
    PROVE  /\ S = {} => F[S] = 0
           /\ S # {} => /\ First(S) \in S
                        /\ F[S] = Amount(First(S), a) + F[S \ {First(S)}]
<1>1. F = [U \in SUBSET R |->
              IF U = {} THEN 0 ELSE Amount(First(U), a) + F[U \ {First(U)}]]
  BY DEF IsSum
<1>2. F[S] = IF S = {} THEN 0 ELSE Amount(First(S), a) + F[S \ {First(S)}]
  BY <1>1
<1>3. S # {} => First(S) \in S
  BY DEF First
<1> QED
  BY <1>2, <1>3

\* It is the same, whatever set the rows are a part of.
LEMMA SumUnique ==
    ASSUME NEW R, IsFiniteSet(R), NEW a, NEW Q \in SUBSET R,
           NEW F, IsSum(F, R, a), NEW G, IsSum(G, Q, a)
    PROVE  \A S \in SUBSET Q : F[S] = G[S]
<1> DEFINE T == {S \in SUBSET Q : F[S] # G[S]}
<1> SUFFICES ASSUME T # {} PROVE FALSE
  OBVIOUS
<1>1. PICK S \in T : \A U \in T : U \subseteq S => U = S
  <2>1. T \in SUBSET SUBSET R
    OBVIOUS
  <2> HIDE DEF T
  <2> QED
    BY <2>1, MinimalSubset
<1>2. S \in SUBSET Q /\ S \in SUBSET R /\ F[S] # G[S]
  OBVIOUS
<1>3. S # {}
  BY <1>2, SumStep
<1>4. First(S) \in S /\ S \ {First(S)} \in SUBSET Q
  BY <1>2, <1>3, SumStep
<1>5. F[S \ {First(S)}] = G[S \ {First(S)}]
  BY <1>1, <1>4
<1> QED
  BY <1>2, <1>3, <1>5, SumStep

LEMMA SumExists ==
    ASSUME NEW R, IsFiniteSet(R), NEW a
    PROVE  \E F : IsSum(F, R, a)
<1> DEFINE T == {S \in SUBSET R : ~ \E F : IsSum(F, S, a)}
<1> SUFFICES ASSUME T # {} PROVE FALSE
  OBVIOUS
<1>1. PICK S \in T : \A U \in T : U \subseteq S => U = S
  <2>1. T \in SUBSET SUBSET R
    OBVIOUS
  <2> HIDE DEF T
  <2> QED
    BY <2>1, MinimalSubset
<1> DEFINE Sum(U) == CHOOSE F : IsSum(F, U, a)
           H == [U \in SUBSET S |->
                    IF U = {} THEN 0
                    ELSE Amount(First(U), a)
                            + Sum(U \ {First(U)})[U \ {First(U)}]]
<1>2. S \in SUBSET R /\ IsFiniteSet(S)
  BY FS_Subset
<1>3. ASSUME NEW U \in SUBSET S, U # S PROVE IsSum(Sum(U), U, a)
  <2>1. \E F : IsSum(F, U, a)
    BY <1>1, <1>2, <1>3
  <2> QED
    BY <2>1
<1> HIDE DEF Sum
<1>4. ASSUME NEW U \in SUBSET S, U # S PROVE H[U] = Sum(U)[U]
  <2>1. IsSum(Sum(U), U, a) /\ IsFiniteSet(U) /\ U \in SUBSET U
    BY <1>2, <1>3, <1>4, FS_Subset
  <2>2. CASE U = {}
    BY <2>1, <2>2, SumStep
  <2>3. CASE U # {}
    <3> DEFINE V == U \ {First(U)}
    <3>1. First(U) \in U /\ Sum(U)[U] = Amount(First(U), a) + Sum(U)[V]
      BY <2>1, <2>3, SumStep
    <3>2. V \in SUBSET S /\ V # S /\ V \in SUBSET U /\ V \in SUBSET V
      BY <3>1
    <3>3. IsSum(Sum(V), V, a)
      BY <1>3, <3>2
    <3>4. H[U] = Amount(First(U), a) + Sum(V)[V]
      BY <2>3
    <3> HIDE DEF V
    <3>5. Sum(U)[V] = Sum(V)[V]
      BY <2>1, <3>2, <3>3, SumUnique
    <3> QED
      BY <3>1, <3>4, <3>5
  <2> QED
    BY <2>2, <2>3
<1>5. IsSum(H, S, a)
  <2> SUFFICES \A U \in SUBSET S :
                  H[U] = IF U = {} THEN 0
                         ELSE Amount(First(U), a) + H[U \ {First(U)}]
    BY DEF IsSum
  <2>1. ASSUME NEW U \in SUBSET S, U # {}
        PROVE  H[U] = Amount(First(U), a) + H[U \ {First(U)}]
    <3>1. First(U) \in U
      BY <2>1 DEF First
    <3>2. U \ {First(U)} \in SUBSET S /\ U \ {First(U)} # S
      BY <3>1
    <3>3. H[U \ {First(U)}] = Sum(U \ {First(U)})[U \ {First(U)}]
      BY <1>4, <3>2
    <3>4. H[U] = Amount(First(U), a) + Sum(U \ {First(U)})[U \ {First(U)}]
      BY <2>1
    <3> QED
      BY <3>3, <3>4
  <2> QED
    BY <2>1
<1> QED
  BY <1>5

LEMMA TotalIsSum ==
    ASSUME NEW R, IsFiniteSet(R), NEW a
    PROVE  \E F : IsSum(F, R, a) /\ Total(R, a) = F[R]
<1> DEFINE F == CHOOSE F : F = [S \in SUBSET R |->
                   IF S = {} THEN 0
                   ELSE Amount(CHOOSE x \in S : TRUE, a)
                           + F[S \ {CHOOSE x \in S : TRUE}]]
<1>1. IsSum(F, R, a)
  <2>1. PICK G : IsSum(G, R, a)
    BY SumExists
  <2>2. G = [S \in SUBSET R |->
                IF S = {} THEN 0
                ELSE Amount(CHOOSE x \in S : TRUE, a)
                        + G[S \ {CHOOSE x \in S : TRUE}]]
    BY <2>1 DEF IsSum, First
  <2>3. F = [S \in SUBSET R |->
                IF S = {} THEN 0
                ELSE Amount(CHOOSE x \in S : TRUE, a)
                        + F[S \ {CHOOSE x \in S : TRUE}]]
    BY <2>2
  <2> HIDE DEF F
  <2> QED
    BY <2>3 DEF IsSum, First
<1>2. Total(R, a) = F[R]
  BY DEF Total, MapThenSumSet, MapThenFoldSet
<1> QED
  BY <1>1, <1>2

LEMMA TotalInRange ==
    ASSUME NEW R, IsFiniteSet(R), NEW a, NEW lo \in Int, NEW hi \in Int,
           \A x \in R : Amount(x, a) \in lo .. hi
    PROVE  Total(R, a) \in Cardinality(R) * lo .. Cardinality(R) * hi
<1>1. PICK F : IsSum(F, R, a) /\ Total(R, a) = F[R]
  BY TotalIsSum
<1> DEFINE T == {S \in SUBSET R :
                    F[S] \notin Cardinality(S) * lo .. Cardinality(S) * hi}
<1> SUFFICES ASSUME T # {} PROVE FALSE
  BY <1>1
<1>2. PICK S \in T : \A U \in T : U \subseteq S => U = S
  <2>1. T \in SUBSET SUBSET R
    OBVIOUS
  <2> HIDE DEF T
  <2> QED
    BY <2>1, MinimalSubset
<1>3. S \in SUBSET R /\ IsFiniteSet(S) /\ Cardinality(S) \in Nat
  BY FS_Subset, FS_CardinalityType
<1>4. CASE S = {}
  <2>1. F[S] = 0 /\ Cardinality(S) = 0
    BY <1>1, <1>4, SumStep, FS_EmptySet
  <2> QED
    BY <2>1
<1>5. CASE S # {}
  <2> DEFINE U == S \ {First(S)}
  <2>1. First(S) \in S /\ F[S] = Amount(First(S), a) + F[U]
    BY <1>1, <1>3, <1>5, SumStep
  <2>2. U \in SUBSET R /\ U \subseteq S /\ U # S
    BY <1>3, <2>1
  <2>3. Cardinality(U) = Cardinality(S) - 1
    BY <1>3, <2>1, FS_RemoveElement
  <2>4. F[U] \in Cardinality(U) * lo .. Cardinality(U) * hi
    BY <1>2, <2>2
  <2>5. Amount(First(S), a) \in lo .. hi
    BY <1>3, <2>1
  <2>6. F[S] \notin Cardinality(S) * lo .. Cardinality(S) * hi
    OBVIOUS
  <2> HIDE DEF U
  <2>7. /\ Cardinality(U) * lo = Cardinality(S) * lo - lo
        /\ Cardinality(U) * hi = Cardinality(S) * hi - hi
    BY <1>3, <2>3
  <2>8. Cardinality(S) * lo \in Int /\ Cardinality(S) * hi \in Int
    BY <1>3
  <2> QED
    BY <2>1, <2>4, <2>5, <2>6, <2>7, <2>8
<1> QED
  BY <1>4, <1>5

LEMMA TotalIsInt ==
    ASSUME NEW R, IsFiniteSet(R), NEW a, \A x \in R : Amount(x, a) \in Int
    PROVE  Total(R, a) \in Int
<1>1. PICK F : IsSum(F, R, a) /\ Total(R, a) = F[R]
  BY TotalIsSum
<1> DEFINE T == {S \in SUBSET R : F[S] \notin Int}
<1> SUFFICES ASSUME T # {} PROVE FALSE
  BY <1>1
<1>2. PICK S \in T : \A U \in T : U \subseteq S => U = S
  <2>1. T \in SUBSET SUBSET R
    OBVIOUS
  <2> HIDE DEF T
  <2> QED
    BY <2>1, MinimalSubset
<1>3. S \in SUBSET R /\ F[S] \notin Int /\ S # {}
  <2>1. S \in SUBSET R /\ F[S] \notin Int
    OBVIOUS
  <2>2. F[{}] = 0
    BY <1>1, SumStep
  <2> QED
    BY <2>1, <2>2
<1>4. First(S) \in S /\ F[S] = Amount(First(S), a) + F[S \ {First(S)}]
  BY <1>1, <1>3, SumStep
<1>5. F[S \ {First(S)}] \in Int
  BY <1>2, <1>3, <1>4
<1> QED
  BY <1>3, <1>4, <1>5

-----------------------------------------------------------------------------
\* Of two rows of one task the one DISTINCT ON keeps has the larger id.
LEMMA LatestIsMaximal ==
    ASSUME NEW L, NEW s, NEW x \in Latest(L, s), NEW y \in Bearing(Scoped(L, s)),
           y.event.task = x.event.task
    PROVE  y.id <= x.id /\ x \in Bearing(Scoped(L, s)) /\ x \in L
BY DEF Latest, Bearing, Scoped

\* One row per task in the snapshot an answer is computed from.
LEMMA LatestOnePerTask ==
    ASSUME StoreInv, NEW s, NEW x \in Latest(rows, s), NEW y \in Latest(rows, s),
           x.event.task = y.event.task
    PROVE  x = y
<1>1. x \in Bearing(Scoped(rows, s)) /\ y \in Bearing(Scoped(rows, s))
  BY DEF Latest
<1>2. x.id <= y.id /\ y.id <= x.id /\ x \in rows /\ y \in rows
  BY <1>1, LatestIsMaximal
<1>3. x.id \in Nat /\ y.id \in Nat
  BY <1>2, StoreAssumption DEF StoreInv, StoreTypeOK, StoredEvent, Ids
<1>4. x.id = y.id
  BY <1>2, <1>3
<1> QED
  BY <1>2, <1>4, InvGivesUniqueIds DEF IdsUnique

\* Rows are only added.
LEMMA RowsGrow ==
    ASSUME [StoreNext]_storeVars
    PROVE  rows \subseteq rows'
BY DEF StoreNext, Serve, Post, Insert, InsertUnroutable, InsertExhausted, Commit,
       Respond, Abort, LoseResponse, storeVars

\* Every step of the composition is a step of the store or leaves it alone.
LEMMA CostStoreStep ==
    ASSUME [Next]_vars
    PROVE  [StoreNext]_storeVars
BY DEF Next, CostStep, Ask, Exists, Compute, ComputeFails, vars

\* The store keeps what an answer or a request has seen, and stays finite.
LEMMA StoreKeeps ==
    ASSUME CostInv, [StoreNext]_storeVars
    PROVE  /\ StoreInv' /\ rows \subseteq rows' /\ IsFiniteSet(rows')
           /\ \A s : /\ Scoped(rows, s) \subseteq Scoped(rows', s)
                     /\ Bearing(Scoped(rows, s)) \subseteq Bearing(Scoped(rows', s))
<1>1. StoreInv' /\ rows \subseteq rows'
  BY StoreInvStep, RowsGrow DEF CostInv
<1>2. \E x : rows' \subseteq rows \union {x}
  BY DEF StoreNext, Serve, Post, Insert, InsertUnroutable, InsertExhausted,
         Commit, Respond, Abort, LoseResponse, storeVars
<1>3. IsFiniteSet(rows')
  <2>1. PICK x : rows' \subseteq rows \union {x}
    BY <1>2
  <2>2. IsFiniteSet(rows \union {x})
    BY FS_AddElement DEF CostInv
  <2> QED
    BY <2>1, <2>2, FS_Subset
<1> QED
  BY <1>1, <1>3 DEF Scoped, Bearing

\* DISTINCT ON keeps a row for each task that bears a summary.
LEMMA LatestCovers ==
    ASSUME CostInv, NEW s, NEW x \in Bearing(Scoped(rows, s))
    PROVE  \E y \in Latest(rows, s) :
              y.event.task = x.event.task /\ y.id >= x.id
<1> DEFINE B == {y \in Bearing(Scoped(rows, s)) : y.event.task = x.event.task}
           I == {y.id : y \in B}
<1>1. \A y \in rows : y.id \in Nat /\ y.id <= MaxId
  BY StoreAssumption DEF CostInv, StoreInv, StoreTypeOK, StoredEvent, Ids
<1>2. I \in SUBSET Nat /\ (\A i \in I : i <= MaxId) /\ x.id \in I
  BY <1>1 DEF Bearing, Scoped
<1>3. PICK m \in I : \A i \in I : i <= m
  <2> HIDE DEF I
  <2> QED
    BY <1>2, StoreAssumption, HighestId
<1>4. PICK y \in B : y.id = m
  OBVIOUS
<1>5. y \in Latest(rows, s)
  BY <1>3, <1>4 DEF Latest
<1>6. y.id >= x.id
  BY <1>1, <1>2, <1>3, <1>4 DEF Bearing, Scoped
<1> QED
  BY <1>4, <1>5, <1>6

LEMMA CostInvStep ==
    ASSUME CostInv, [Next]_vars
    PROVE  CostInv'
<1>1. /\ StoreInv' /\ rows \subseteq rows' /\ IsFiniteSet(rows')
      /\ Scoped(rows, scope) \subseteq Scoped(rows', scope)
      /\ Bearing(Scoped(rows, scope)) \subseteq Bearing(Scoped(rows', scope))
  BY StoreKeeps, CostStoreStep
<1>2. UNCHANGED scope
  BY DEF Next, CostStep, Ask, Exists, Compute, ComputeFails, costVars, vars
<1>3. CASE UNCHANGED costVars
  BY <1>1, <1>3 DEF costVars, CostInv, OnePerTask, AnswerCoversAsked
<1>4. CASE Ask
  <2>1. /\ ask' = "checking" /\ knew' = Scoped(rows, scope)
        /\ UNCHANGED <<counted, summary>>
    BY <1>4 DEF Ask
  <2> QED
    BY <1>1, <1>2, <2>1 DEF CostInv, OnePerTask, AnswerCoversAsked
<1>5. CASE Exists
  <2>1. /\ ask' = IF Scoped(rows, scope) = {} THEN "notfound" ELSE "computing"
        /\ UNCHANGED <<counted, summary, knew>>
    BY <1>5 DEF Exists
  <2>2. AnswerCoversAsked'
    BY <2>1 DEF CostInv, AnswerCoversAsked
  <2> QED
    BY <1>1, <1>2, <2>1, <2>2 DEF CostInv, OnePerTask
<1>6. CASE Compute
  <2>1. /\ counted' = Latest(rows, scope) /\ summary' = Summary(counted')
        /\ ask' = "done" /\ ~CastFails(Latest(rows, scope))
        /\ UNCHANGED knew
    BY <1>6 DEF Compute
  <2>2. counted' \subseteq Bearing(Scoped(rows, scope))
    BY <2>1 DEF Latest
  <2>3. OnePerTask'
    <3> SUFFICES ASSUME NEW x \in counted', NEW y \in counted',
                        x.event.task = y.event.task
                 PROVE  x = y
      BY DEF OnePerTask
    <3> QED
      BY <2>1, LatestOnePerTask DEF CostInv
  <2>4. AnswerCoversAsked'
    <3>1. \A x \in Bearing(knew) : x \in Bearing(Scoped(rows, scope))
      BY DEF CostInv, Bearing
    <3>2. \A x \in Bearing(knew) : \E y \in counted' :
              y.event.task = x.event.task /\ y.id >= x.id
      BY <2>1, <3>1, LatestCovers
    <3> QED
      BY <2>1, <3>2 DEF AnswerCoversAsked
  <2>5. ~CastFails(counted')
    BY <2>1
  <2> QED
    BY <1>1, <1>2, <2>1, <2>2, <2>3, <2>4, <2>5 DEF CostInv
<1>7. CASE ComputeFails
  BY <1>1, <1>2, <1>7 DEF ComputeFails, CostInv, OnePerTask, AnswerCoversAsked
<1> QED
  BY <1>3, <1>4, <1>5, <1>6, <1>7 DEF Next, CostStep, vars

LEMMA CostInvInit == Init => CostInv
<1> SUFFICES ASSUME Init PROVE CostInv
  OBVIOUS
<1>1. StoreInv
  BY StoreInvInit DEF Init
<1>2. rows = {} /\ IsFiniteSet(rows)
  BY FS_EmptySet DEF Init, StoreInit
<1> QED
  BY <1>1, <1>2 DEF Init, CostInit, CostInv, OnePerTask, AnswerCoversAsked,
                    NoCost, CastFails

LEMMA CostInvariance == Spec => []CostInv
BY CostInvInit, CostInvStep, PTL DEF Spec

\* However its runs were committed and whoever ran them, a task enters an
\* answer of the cost endpoint once (verifier F2 in cost_summary).
THEOREM CountedOnce == Spec => []OnePerTask
<1>1. CostInv => OnePerTask
  BY DEF CostInv
<1> QED
  BY CostInvariance, <1>1, PTL

\* A row whose request arrived when another row of the task was visible has
\* the larger id, so an answer that sees both counts the later one.
LEMMA LatestRunStep ==
    ASSUME CostInv, Next, ask = "computing", ask' = "done",
           NEW r \in Requests, NEW s \in Requests, rowid[r] \in seen[s],
           Row(s) \in Bearing(Scoped(rows, scope)), body[r].task = body[s].task
    PROVE  Row(r) \notin counted'
<1>1. counted' = Latest(rows, scope)
  BY DEF Next, CostStep, Ask, Exists, Compute, ComputeFails, costVars
<1>2. Row(s) \in rows
  BY DEF Bearing, Scoped
<1>3. rowid[s] # 0 /\ rowid[r] \in Nat /\ rowid[s] \in Nat
  BY <1>2, StoreAssumption
     DEF CostInv, StoreInv, StoreTypeOK, StoredEvent, Ids, Row
<1>4. rowid[r] < rowid[s]
  BY <1>3 DEF CostInv, StoreInv, IdsFollowRealTime
<1>5. SUFFICES ASSUME Row(r) \in Latest(rows, scope) PROVE FALSE
  BY <1>1
<1>6. Row(s).event.task = Row(r).event.task
  BY DEF Row
<1>7. Row(s).id <= Row(r).id
  BY <1>5, <1>6, LatestIsMaximal
<1> QED
  BY <1>3, <1>4, <1>7 DEF Row

\* "Latest run wins" for every interleaving of writers with the endpoint.
THEOREM LatestRunWins == Spec => SupersededNotCounted
<1> DEFINE A == ask = "computing" /\ ask' = "done" =>
                    \A r, s \in Requests :
                        /\ rowid[r] \in seen[s]
                        /\ Row(s) \in Bearing(Scoped(rows, scope))
                        /\ body[r].task = body[s].task
                        => Row(r) \notin counted'
<1>1. CostInv /\ [Next]_vars => [A]_vars
  <2> SUFFICES ASSUME CostInv, Next PROVE A
    OBVIOUS
  <2> QED
    BY LatestRunStep
<1> QED
  BY CostInvariance, <1>1, PTL DEF Spec, SupersededNotCounted

\* Types and ranges: the answer is the aggregate of the rows it counts, and a
\* total is as many times within the range of int as it counts tasks.
THEOREM CostTyping == Spec => []CostTypeOK
<1>1. CostInv => CostTypeOK
  <2> SUFFICES ASSUME CostInv PROVE CostTypeOK
    OBVIOUS
  <2> DEFINE n == Cardinality(counted)
  <2>1. counted \subseteq rows /\ knew \subseteq rows /\ StoreTypeOK
    BY DEF CostInv, StoreInv, Bearing, Scoped
  <2>2. IsFiniteSet(counted) /\ n \in Nat
    BY <2>1, FS_Subset, FS_CardinalityType DEF CostInv
  <2>3. /\ summary.tasks = n /\ summary.cost = Total(counted, "cost")
        /\ \A a \in Int4Amounts : summary[a] = Total(counted, a)
    BY DEF CostInv, Summary, Amounts, Int4Amounts
  <2>4. \A x \in counted, a \in Amounts : Amount(x, a) \in Int
    <3>1. \A x \in counted : x.event \in Events /\ x.event.es # Null
      BY <2>1 DEF CostInv, Bearing, StoreTypeOK, StoredEvent
    <3> QED
      BY <3>1, CostAssumption DEF Amount
  <2>5. summary.cost \in Int
    BY <2>2, <2>3, <2>4, TotalIsInt DEF Amounts
  <2>6. ASSUME NEW a \in Int4Amounts
        PROVE  summary[a] \in -(n * (Int4Max + 1)) .. n * Int4Max
    <3>1. -(Int4Max + 1) \in Int /\ Int4Max \in Int
      BY CostAssumption
    <3>2. \A x \in counted : Amount(x, a) \in -(Int4Max + 1) .. Int4Max
      BY DEF CostInv, CastFails, Int4
    <3>3. Total(counted, a) \in n * (-(Int4Max + 1)) .. n * Int4Max
      BY <2>2, <3>1, <3>2, TotalInRange
    <3>4. n * (-(Int4Max + 1)) = -(n * (Int4Max + 1))
      BY <2>2, CostAssumption
    <3> QED
      BY <2>3, <3>3, <3>4
  <2> HIDE DEF n
  <2> QED
    BY <2>1, <2>3, <2>5, <2>6 DEF CostTypeOK, CostInv, n
<1> QED
  BY CostInvariance, <1>1, PTL

\* An answer leaves out no task whose summary was readable when the request
\* came, and 404 means that the scope had no event then.
THEOREM AnswerCovers == Spec => []AnswerCoversAsked
<1>1. CostInv => AnswerCoversAsked
  BY DEF CostInv
<1> QED
  BY CostInvariance, <1>1, PTL

\* Each task of the earlier answer has its row in the later one, and no two of
\* them share it.
LEMMA CountGrows ==
    ASSUME CostInv, [Next]_vars
    PROVE  summary'.tasks >= summary.tasks
<1>1. IsFiniteSet(counted) /\ summary.tasks = Cardinality(counted)
  <2>1. counted \in SUBSET rows
    BY DEF CostInv, Bearing, Scoped
  <2> QED
    BY <2>1, FS_Subset DEF CostInv, Summary
<1>2. CASE UNCHANGED summary
  BY <1>1, <1>2, FS_CardinalityType
<1>3. CASE Compute
  <2> DEFINE L == Latest(rows, scope)
             f == [x \in counted |->
                      CHOOSE y \in L : y.event.task = x.event.task]
  <2>1. summary'.tasks = Cardinality(L)
    BY <1>3 DEF Compute, Summary
  <2>2. IsFiniteSet(L)
    <3>1. L \in SUBSET rows
      BY DEF Latest, Bearing, Scoped
    <3> QED
      BY <3>1, FS_Subset DEF CostInv
  <2> HIDE DEF L
  <2>3. ASSUME NEW x \in counted
        PROVE  f[x] \in L /\ f[x].event.task = x.event.task
    <3>1. \E y \in L : y.event.task = x.event.task
      BY LatestCovers DEF CostInv, L
    <3> QED
      BY <3>1
  <2>4. f \in [counted -> L]
    BY <2>3
  <2> HIDE DEF f
  <2>5. \A x, y \in counted : f[x] = f[y] => x = y
    BY <2>3 DEF CostInv, OnePerTask
  <2>6. f \in Injection(counted, L)
    BY <2>4, <2>5 DEF Injection, IsInjective
  <2>7. Cardinality(counted) <= Cardinality(L)
    BY <2>2, <2>6, FS_Injection
  <2> QED
    BY <1>1, <2>1, <2>2, <2>7, FS_CardinalityType
<1> QED
  BY <1>2, <1>3 DEF Next, CostStep, Ask, Exists, ComputeFails, costVars, vars

\* task_count never goes back, whatever is stored between two polls.
THEOREM TaskCountGrows == Spec => TaskCountMonotone
<1>1. CostInv /\ [Next]_vars => [summary'.tasks >= summary.tasks]_vars
  BY CountGrows
<1> QED
  BY CostInvariance, <1>1, PTL DEF Spec, TaskCountMonotone
=============================================================================
