------------------------ MODULE InMemoryStoreProofs ------------------------
(***************************************************************************)
(* Theorems about the in-memory repository: on every log, of any length    *)
(* and whatever events it holds, its loops return what the queries return. *)
(* Each loop is a fold; the fold is the only solution of a recursion on    *)
(* sets of ids, and what the query gives on the rows with these ids is a   *)
(* solution.                                                               *)
(***************************************************************************)
EXTENDS InMemoryStore, FiniteSetTheorems, SequenceTheorems, TLAPS

\* The ids are those up to the counter.
MemInv ==
    /\ nextId \in 1 .. MaxId + 1
    /\ DOMAIN events = 1 .. nextId - 1
    /\ \A i \in DOMAIN events : events[i] \in Events

-----------------------------------------------------------------------------
(* The ids, and sets that have no smaller one. *)

\* Every nonempty set of naturals has a least element.
LEMMA LeastNatural ==
    ASSUME NEW T \in SUBSET Nat, T # {}
    PROVE  \E x \in T : \A y \in T : x <= y
<1> DEFINE Less == {p \in Nat \X Nat : p[1] < p[2]}
<1>0. IsWellFoundedOn(Less, Nat)
  BY NatLessThanWellFounded, Zenon DEF OpToRel
<1> HIDE DEF Less
<1>1. PICK x \in T : \A y \in T : ~(<<y, x>> \in Less)
  BY <1>0, WFMin
<1>2. \A y \in T : ~(y < x)
  BY <1>1 DEF Less
<1> QED
  BY <1>2

\* Of a family of subsets of a finite set one has no other below it.
LEMMA MinimalSubset ==
    ASSUME NEW R, IsFiniteSet(R), NEW T \in SUBSET SUBSET R, T # {}
    PROVE  \E S \in T : \A U \in T : U \subseteq S => U = S
<1>1. T \subseteq FiniteSubsetsOf(R)
  BY FS_FiniteSubsetsOfFinite
<1>2. PICK S \in T : \A U \in T : ~(<<U, S>> \in StrictSubsetOrdering(R))
  BY <1>1, FS_StrictSubsetOrderingWellFounded, WFMin
<1> QED
  BY <1>2 DEF StrictSubsetOrdering

LEMMA MaxIsHighest ==
    ASSUME NEW n \in Nat, NEW S \in SUBSET (1 .. n), S # {}
    PROVE  Max(S) \in S /\ \A i \in S : i <= Max(S)
<1> DEFINE T == {n - i : i \in S}
<1>1. T \in SUBSET Nat /\ T # {}
  <2>1. \A i \in S : n - i \in Nat
    OBVIOUS
  <2>2. PICK i \in S : TRUE
    OBVIOUS
  <2> QED
    BY <2>1, <2>2
<1>2. PICK x \in T : \A y \in T : x <= y
  <2> HIDE DEF T
  <2> QED
    BY <1>1, LeastNatural
<1>3. PICK m \in S : x = n - m
  OBVIOUS
<1>4. \A i \in S : n - m <= n - i
  BY <1>2, <1>3
<1>5. \A i \in S : m >= i
  BY <1>4
<1> QED
  BY <1>5 DEF Max

\* The items are the rows, and the place of an item is its id.
LEMMA ItemsAreRows ==
    ASSUME MemInv
    PROVE  /\ nextId - 1 \in Nat
           /\ DOMAIN Items = 1 .. nextId - 1
           /\ IsFiniteSet(DOMAIN Items) /\ IsFiniteSet(Rows)
           /\ \A i \in DOMAIN Items : Items[i] \in Rows /\ Items[i].id = i
           /\ \A x \in Rows : x.id \in DOMAIN Items /\ x = Items[x.id]
<1>1. nextId - 1 \in Nat /\ DOMAIN Items = 1 .. nextId - 1
  BY MemoryAssumption DEF MemInv, Items
<1>2. IsFiniteSet(DOMAIN Items)
  BY <1>1, FS_Interval
<1>3. \A i \in DOMAIN Items : Items[i] = [id |-> i, event |-> events[i]]
  BY DEF Items
<1>4. DOMAIN events = DOMAIN Items
  BY <1>1 DEF MemInv
<1>5. Rows = {Items[i] : i \in DOMAIN Items}
  BY <1>3, <1>4 DEF Rows
<1>6. IsFiniteSet(Rows)
  <2>1. Items \in Surjection(DOMAIN Items, Rows)
    BY <1>5 DEF Surjection, Items
  <2> QED
    BY <1>2, <2>1, FS_Surjection
<1> QED
  BY <1>1, <1>2, <1>3, <1>5, <1>6

-----------------------------------------------------------------------------
(* The two loops as recursive functions on sets of ids. *)

\* One turn of the loop of _scan, and one of the loop of cost_summary.
ScanTurn(page, x, q, start, limit) ==
    IF x.id < start \/ ~Matches(x.event, q) \/ Len(page) >= Clamp(limit)
    THEN page ELSE Append(page, x)

CostTurn(latest, x, s) ==
    IF x \in Bearing(Scoped({x}, s)) THEN Kept(latest, x) ELSE latest

IsScan(F, q, start, limit) ==
    F = [S \in SUBSET DOMAIN Items |->
            IF S = {} THEN << >>
            ELSE ScanTurn(F[S \ {Max(S)}], Items[Max(S)], q, start, limit)]

IsCost(F, s) ==
    F = [S \in SUBSET DOMAIN Items |->
            IF S = {} THEN << >>
            ELSE CostTurn(F[S \ {Max(S)}], Items[Max(S)], s)]

\* The folds are such recursions.
LEMMA FindIsScan ==
    ASSUME NEW q, NEW start, NEW limit, NEW G, IsScan(G, q, start, limit)
    PROVE  \E F : IsScan(F, q, start, limit)
                  /\ MemFind(q, start, limit) = F[DOMAIN Items]
<1> DEFINE F == CHOOSE F : F = [S \in SUBSET DOMAIN Items |->
                   IF S = {} THEN << >>
                   ELSE IF \/ Items[Max(S)].id < start
                           \/ ~Matches(Items[Max(S)].event, q)
                           \/ Len(F[S \ {Max(S)}]) >= Clamp(limit)
                        THEN F[S \ {Max(S)}]
                        ELSE Append(F[S \ {Max(S)}], Items[Max(S)])]
<1>1. IsScan(F, q, start, limit)
  <2>1. G = [S \in SUBSET DOMAIN Items |->
                   IF S = {} THEN << >>
                   ELSE IF \/ Items[Max(S)].id < start
                           \/ ~Matches(Items[Max(S)].event, q)
                           \/ Len(G[S \ {Max(S)}]) >= Clamp(limit)
                        THEN G[S \ {Max(S)}]
                        ELSE Append(G[S \ {Max(S)}], Items[Max(S)])]
    BY Zenon DEF IsScan, ScanTurn
  <2>2. F = [S \in SUBSET DOMAIN Items |->
                   IF S = {} THEN << >>
                   ELSE IF \/ Items[Max(S)].id < start
                           \/ ~Matches(Items[Max(S)].event, q)
                           \/ Len(F[S \ {Max(S)}]) >= Clamp(limit)
                        THEN F[S \ {Max(S)}]
                        ELSE Append(F[S \ {Max(S)}], Items[Max(S)])]
    BY <2>1
  <2> HIDE DEF F
  <2> QED
    BY <2>2, Zenon DEF IsScan, ScanTurn
<1>2. MemFind(q, start, limit) = F[DOMAIN Items]
  BY Zenon DEF MemFind, FoldLeft, MapThenFoldSet
<1> QED
  BY <1>1, <1>2

LEMMA CostIsLoop ==
    ASSUME NEW s, NEW G, IsCost(G, s)
    PROVE  \E F : /\ IsCost(F, s)
                  /\ LET latest == F[DOMAIN Items]
                     IN  MemCost(s) = Summary({latest[t] : t \in DOMAIN latest})
<1> DEFINE F == CHOOSE F : F = [S \in SUBSET DOMAIN Items |->
                   IF S = {} THEN << >>
                   ELSE IF Items[Max(S)] \in Bearing(Scoped({Items[Max(S)]}, s))
                        THEN Kept(F[S \ {Max(S)}], Items[Max(S)])
                        ELSE F[S \ {Max(S)}]]
<1>1. IsCost(F, s)
  <2>1. G = [S \in SUBSET DOMAIN Items |->
                   IF S = {} THEN << >>
                   ELSE IF Items[Max(S)] \in Bearing(Scoped({Items[Max(S)]}, s))
                        THEN Kept(G[S \ {Max(S)}], Items[Max(S)])
                        ELSE G[S \ {Max(S)}]]
    BY Zenon DEF IsCost, CostTurn
  <2>2. F = [S \in SUBSET DOMAIN Items |->
                   IF S = {} THEN << >>
                   ELSE IF Items[Max(S)] \in Bearing(Scoped({Items[Max(S)]}, s))
                        THEN Kept(F[S \ {Max(S)}], Items[Max(S)])
                        ELSE F[S \ {Max(S)}]]
    BY <2>1
  <2> HIDE DEF F
  <2> QED
    BY <2>2, Zenon DEF IsCost, CostTurn
<1>2. LET latest == F[DOMAIN Items]
      IN  MemCost(s) = Summary({latest[t] : t \in DOMAIN latest})
  BY Zenon DEF MemCost, FoldLeft, MapThenFoldSet
<1> QED
  BY <1>1, <1>2

\* A recursion on the ids has one solution, so the loop is any that solves it.
LEMMA ScanUnique ==
    ASSUME MemInv, NEW q, NEW start, NEW limit,
           NEW F, IsScan(F, q, start, limit), NEW G, IsScan(G, q, start, limit)
    PROVE  F[DOMAIN Items] = G[DOMAIN Items]
<1> DEFINE T == {S \in SUBSET DOMAIN Items : F[S] # G[S]}
<1> SUFFICES ASSUME T # {} PROVE FALSE
  OBVIOUS
<1>1. PICK S \in T : \A U \in T : U \subseteq S => U = S
  <2>1. T \in SUBSET SUBSET DOMAIN Items
    OBVIOUS
  <2> HIDE DEF T
  <2> QED
    BY <2>1, ItemsAreRows, MinimalSubset
<1>2. S \in SUBSET DOMAIN Items /\ F[S] # G[S]
  OBVIOUS
<1>3. F[S] = IF S = {} THEN << >>
             ELSE ScanTurn(F[S \ {Max(S)}], Items[Max(S)], q, start, limit)
  BY <1>2, Zenon DEF IsScan
<1>4. G[S] = IF S = {} THEN << >>
             ELSE ScanTurn(G[S \ {Max(S)}], Items[Max(S)], q, start, limit)
  BY <1>2, Zenon DEF IsScan
<1>5. S # {}
  BY <1>2, <1>3, <1>4
<1>6. Max(S) \in S
  BY <1>2, <1>5, ItemsAreRows, MaxIsHighest
<1>7. F[S \ {Max(S)}] = G[S \ {Max(S)}]
  BY <1>1, <1>2, <1>6
<1> QED
  BY <1>2, <1>3, <1>4, <1>5, <1>7

LEMMA CostUnique ==
    ASSUME MemInv, NEW s, NEW F, IsCost(F, s), NEW G, IsCost(G, s)
    PROVE  F[DOMAIN Items] = G[DOMAIN Items]
<1> DEFINE T == {S \in SUBSET DOMAIN Items : F[S] # G[S]}
<1> SUFFICES ASSUME T # {} PROVE FALSE
  OBVIOUS
<1>1. PICK S \in T : \A U \in T : U \subseteq S => U = S
  <2>1. T \in SUBSET SUBSET DOMAIN Items
    OBVIOUS
  <2> HIDE DEF T
  <2> QED
    BY <2>1, ItemsAreRows, MinimalSubset
<1>2. S \in SUBSET DOMAIN Items /\ F[S] # G[S]
  OBVIOUS
<1>3. F[S] = IF S = {} THEN << >>
             ELSE CostTurn(F[S \ {Max(S)}], Items[Max(S)], s)
  BY <1>2, Zenon DEF IsCost
<1>4. G[S] = IF S = {} THEN << >>
             ELSE CostTurn(G[S \ {Max(S)}], Items[Max(S)], s)
  BY <1>2, Zenon DEF IsCost
<1>5. S # {}
  BY <1>2, <1>3, <1>4
<1>6. Max(S) \in S
  BY <1>2, <1>5, ItemsAreRows, MaxIsHighest
<1>7. F[S \ {Max(S)}] = G[S \ {Max(S)}]
  BY <1>1, <1>2, <1>6
<1> QED
  BY <1>2, <1>3, <1>4, <1>5, <1>7

-----------------------------------------------------------------------------
(* ORDER BY and LIMIT. *)

\* A row above all others comes last.
LEMMA OrderAppend ==
    ASSUME NEW M, IsFiniteSet(M), NEW z, z.id \in Int,
           \A x \in M : x.id \in Int /\ x.id < z.id
    PROVE  OrderById(M \union {z}) = Append(OrderById(M), z)
<1> DEFINE N == M \union {z}
           UpTo(x) == {y \in M : y.id <= x.id}
           UpToN(x) == {y \in N : y.id <= x.id}
           Kth(k) == {x \in M : Cardinality(UpTo(x)) = k}
           KthN(k) == {x \in N : Cardinality(UpToN(x)) = k}
           m == Cardinality(M)
<1>1. z \notin M
  OBVIOUS
<1>2. m \in Nat /\ Cardinality(N) = m + 1 /\ IsFiniteSet(N)
  BY <1>1, FS_AddElement, FS_CardinalityType
<1>3. OrderById(M) = [k \in 1 .. m |-> CHOOSE x \in Kth(k) : TRUE]
  BY DEF OrderById
<1>4. OrderById(N) = [k \in 1 .. m + 1 |-> CHOOSE x \in KthN(k) : TRUE]
  BY <1>2 DEF OrderById
<1>5. \A x \in M : UpToN(x) = UpTo(x)
  OBVIOUS
<1>6. UpToN(z) = N
  OBVIOUS
<1>7. \A x \in M : Cardinality(UpTo(x)) \in 0 .. m
  <2> SUFFICES ASSUME NEW x \in M PROVE Cardinality(UpTo(x)) \in 0 .. m
    OBVIOUS
  <2>1. UpTo(x) \subseteq M
    OBVIOUS
  <2> HIDE DEF UpTo
  <2> QED
    BY <1>2, <2>1, FS_Subset, FS_CardinalityType
<1>8. \A k \in 1 .. m : KthN(k) = Kth(k)
  <2> SUFFICES ASSUME NEW k \in 1 .. m PROVE KthN(k) = Kth(k)
    OBVIOUS
  <2>1. Cardinality(UpToN(z)) # k
    BY <1>2, <1>6
  <2>2. \A x \in M : Cardinality(UpToN(x)) = Cardinality(UpTo(x))
    BY <1>5
  <2> HIDE DEF UpTo, UpToN
  <2> QED
    BY <2>1, <2>2
<1>9. KthN(m + 1) = {z}
  <2>1. Cardinality(UpToN(z)) = m + 1
    BY <1>2, <1>6
  <2>2. \A x \in M : Cardinality(UpToN(x)) # m + 1
    BY <1>2, <1>5, <1>7
  <2> HIDE DEF UpTo, UpToN
  <2> QED
    BY <2>1, <2>2
<1> DEFINE A(k) == CHOOSE x \in Kth(k) : TRUE
           B(k) == CHOOSE x \in KthN(k) : TRUE
<1>10. \A k \in 1 .. m : A(k) = B(k)
  BY <1>8
<1>11. B(m + 1) = z
  BY <1>9
<1> HIDE DEF Kth, KthN, m, N, A, B
<1>12. OrderById(M) = [k \in 1 .. m |-> A(k)]
  BY <1>3 DEF A
<1>13. OrderById(N) = [k \in 1 .. m + 1 |-> B(k)]
  BY <1>4 DEF B
<1>14. Len(OrderById(M)) = m
  BY <1>2, <1>12
<1>15. Append(OrderById(M), z) =
          [k \in 1 .. m + 1 |-> IF k <= m THEN A(k) ELSE z]
  <2> DEFINE R == {A(k) : k \in 1 .. m} \union {z}
  <2>1. OrderById(M) \in Seq(R)
    BY <1>2, <1>12
  <2> QED
    BY <1>2, <1>12, <1>14, <2>1
<1>16. \A k \in 1 .. m + 1 : B(k) = IF k <= m THEN A(k) ELSE z
  BY <1>2, <1>10, <1>11
<1> QED
  BY <1>13, <1>15, <1>16 DEF N

\* LIMIT cuts off what comes after the n-th row.
LEMMA LimitedAppend ==
    ASSUME NEW A, NEW r \in Seq(A), NEW z \in A, NEW n \in Nat \ {0}
    PROVE  /\ Len(Limited(r, n)) = IF Len(r) < n THEN Len(r) ELSE n
           /\ Limited(Append(r, z), n) =
                 IF Len(Limited(r, n)) >= n
                 THEN Limited(r, n)
                 ELSE Append(Limited(r, n), z)
<1>1. Len(Limited(r, n)) = IF Len(r) < n THEN Len(r) ELSE n
  BY DEF Limited
<1> SUFFICES Limited(Append(r, z), n) =
                 IF Len(Limited(r, n)) >= n
                 THEN Limited(r, n)
                 ELSE Append(Limited(r, n), z)
  BY <1>1
<1>2. CASE Len(r) < n
  <2>1. Limited(r, n) = r
    BY <1>2 DEF Limited
  <2>2. Limited(Append(r, z), n) = Append(r, z)
    BY <1>2 DEF Limited
  <2>3. ~(Len(Limited(r, n)) >= n)
    BY <1>2, <2>1
  <2> QED
    BY <1>1, <2>1, <2>2, <2>3
<1>3. CASE ~(Len(r) < n)
  <2>1. Limited(r, n) = [i \in 1 .. n |-> r[i]]
    BY <1>3 DEF Limited
  <2>2. Limited(Append(r, z), n) = [i \in 1 .. n |-> r[i]]
    BY <1>3 DEF Limited
  <2> QED
    BY <1>1, <1>3, <2>1, <2>2
<1> QED
  BY <1>2, <1>3, <1>1

LEMMA OrderIsSeq ==
    ASSUME NEW M, IsFiniteSet(M)
    PROVE  \E A : OrderById(M) \in Seq(A)
<1> DEFINE Row(k) == CHOOSE x \in {x \in M :
                       Cardinality({y \in M : y.id <= x.id}) = k} : TRUE
           A == {Row(k) : k \in 1 .. Cardinality(M)}
<1>1. Cardinality(M) \in Nat
  BY FS_CardinalityType
<1>2. OrderById(M) = [k \in 1 .. Cardinality(M) |-> Row(k)]
  BY DEF OrderById
<1> HIDE DEF Row
<1>3. OrderById(M) \in Seq(A)
  BY <1>1, <1>2
<1> QED
  BY <1>3

LEMMA ClampIsPositive ==
    ASSUME NEW limit \in Int
    PROVE  Clamp(limit) \in Nat \ {0}
BY MemoryAssumption DEF Clamp

-----------------------------------------------------------------------------
(* What the two loops have when they have seen the ids of S. *)

Found(S, q, start) ==
    {x \in Rows : Matches(x.event, q) /\ x.id >= start /\ x.id \in S}

PageOf(S, q, start, limit) == Limited(OrderById(Found(S, q, start)), Clamp(limit))

\* The query's page on the ids seen so far solves the recursion of the scan.
LEMMA PageIsScan ==
    ASSUME MemInv, NEW q, NEW start \in Int, NEW limit \in Int
    PROVE  IsScan([S \in SUBSET DOMAIN Items |-> PageOf(S, q, start, limit)],
                  q, start, limit)
<1> DEFINE P == [S \in SUBSET DOMAIN Items |-> PageOf(S, q, start, limit)]
           n == Clamp(limit)
<1> SUFFICES \A S \in SUBSET DOMAIN Items :
                P[S] = IF S = {} THEN << >>
                       ELSE ScanTurn(P[S \ {Max(S)}], Items[Max(S)],
                                     q, start, limit)
  BY Zenon DEF IsScan
<1>1. n \in Nat \ {0}
  BY ClampIsPositive
<1>2. P[{}] = << >>
  <2>1. Found({}, q, start) = {}
    BY DEF Found
  <2>2. OrderById({}) = << >>
    BY FS_EmptySet DEF OrderById
  <2>3. Limited(<< >>, n) = << >>
    BY <1>1 DEF Limited
  <2> QED
    BY <2>1, <2>2, <2>3 DEF PageOf
<1>3. ASSUME NEW S \in SUBSET DOMAIN Items, S # {}
      PROVE  P[S] = ScanTurn(P[S \ {Max(S)}], Items[Max(S)], q, start, limit)
  <2> DEFINE V == S \ {Max(S)}
             x == Items[Max(S)]
             M == Found(V, q, start)
  <2>1. Max(S) \in S /\ \A i \in S : i \in Int /\ i <= Max(S)
    <3>1. nextId - 1 \in Nat /\ S \in SUBSET (1 .. nextId - 1)
      BY ItemsAreRows
    <3>2. \A i \in S : i \in Int
      BY <3>1
    <3> QED
      BY <1>3, <3>1, <3>2, MaxIsHighest
  <2>2. x \in Rows /\ x.id = Max(S)
    BY <2>1, ItemsAreRows
  <2>3. P[S] = Limited(OrderById(Found(S, q, start)), n)
        /\ P[V] = Limited(OrderById(M), n)
    BY <1>3 DEF PageOf
  <2>4. CASE x.id < start \/ ~Matches(x.event, q)
    <3>1. \A y \in Rows : y.id = x.id => y = x
      BY <2>2, ItemsAreRows
    <3>2. x \notin Found(S, q, start)
      BY <2>1, <2>2, <2>4 DEF Found
    <3>3. Found(S, q, start) = M
      BY <2>2, <3>1, <3>2 DEF Found
    <3> HIDE DEF P, V, x, M, n
    <3> QED
      BY <2>3, <2>4, <3>3 DEF ScanTurn, V, x
  <2>5. CASE ~(x.id < start) /\ Matches(x.event, q)
    <3>1. \A y \in Rows : y.id = x.id => y = x
      BY <2>2, ItemsAreRows
    <3>2. Found(S, q, start) = M \union {x}
      BY <2>1, <2>2, <2>5, <3>1 DEF Found
    <3>3. \A y \in M : y.id \in Int /\ y.id < x.id
      BY <2>1, <2>2 DEF Found
    <3>4. IsFiniteSet(M)
      <4>1. M \subseteq Rows
        BY DEF Found
      <4> QED
        BY <4>1, ItemsAreRows, FS_Subset
    <3>5. OrderById(M \union {x}) = Append(OrderById(M), x)
      BY <2>1, <2>2, <3>3, <3>4, OrderAppend
    <3>6. PICK A : OrderById(M) \in Seq(A)
      BY <3>4, OrderIsSeq
    <3>7. OrderById(M) \in Seq(A \union {x}) /\ x \in A \union {x}
      BY <3>6
    <3>8. Limited(Append(OrderById(M), x), n) =
             IF Len(P[V]) >= n THEN P[V] ELSE Append(P[V], x)
      <4> HIDE DEF P, V, x, M, n
      <4> QED
        BY <1>1, <2>3, <3>7, LimitedAppend
    <3> HIDE DEF P, V, x, M
    <3> QED
      BY <2>3, <2>5, <3>2, <3>5, <3>8 DEF ScanTurn, V, x
  <2> QED
    BY <2>4, <2>5
<1> QED
  BY <1>2, <1>3

\* The tasks seen so far, and for each the row the dictionary holds.
Seen(S, s) == {x \in Bearing(Scoped(Rows, s)) : x.id \in S}

Newest(S, s, t) ==
    {x \in Seen(S, s) :
        /\ x.event.task = t
        /\ \A y \in Seen(S, s) : y.event.task = t => y.id <= x.id}

DictOf(S, s) ==
    [t \in {x.event.task : x \in Seen(S, s)} |->
        CHOOSE x \in Newest(S, s, t) : TRUE]

\* A task that was seen has one row of the highest id.
LEMMA NewestExists ==
    ASSUME MemInv, NEW s, NEW S \in SUBSET DOMAIN Items, NEW y \in Seen(S, s)
    PROVE  \E x \in Newest(S, s, y.event.task) :
               Newest(S, s, y.event.task) = {x}
<1> DEFINE T == {x \in Seen(S, s) : x.event.task = y.event.task}
           I == {x.id : x \in T}
<1>1. \A x \in T : x \in Rows /\ x.id \in DOMAIN Items /\ x = Items[x.id]
  BY ItemsAreRows DEF Seen, Bearing, Scoped
<1>2. I \in SUBSET (1 .. nextId - 1) /\ I # {}
  BY <1>1, ItemsAreRows
<1>3. Max(I) \in I /\ \A i \in I : i <= Max(I)
  <2> HIDE DEF I
  <2> QED
    BY <1>2, ItemsAreRows, MaxIsHighest
<1>4. PICK x \in T : x.id = Max(I)
  BY <1>3
<1>5. \A z \in T : z.id <= x.id /\ z.id \in Int /\ x.id \in Int
  BY <1>1, <1>2, <1>3, <1>4
<1>6. x \in Newest(S, s, y.event.task)
  BY <1>5 DEF Newest
<1>7. \A z \in Newest(S, s, y.event.task) : z.id = x.id
  BY <1>5, <1>6 DEF Newest
<1>8. \A z \in Newest(S, s, y.event.task) : z = x
  BY <1>1, <1>7 DEF Newest
<1> QED
  BY <1>6, <1>8

\* The newest row of each task seen so far solves the recursion of the loop.
LEMMA DictIsCost ==
    ASSUME MemInv, NEW s
    PROVE  IsCost([S \in SUBSET DOMAIN Items |-> DictOf(S, s)], s)
<1> DEFINE D == [S \in SUBSET DOMAIN Items |-> DictOf(S, s)]
<1> SUFFICES \A S \in SUBSET DOMAIN Items :
                D[S] = IF S = {} THEN << >>
                       ELSE CostTurn(D[S \ {Max(S)}], Items[Max(S)], s)
  BY Zenon DEF IsCost
<1>1. D[{}] = << >>
  <2>1. Seen({}, s) = {}
    BY DEF Seen
  <2>2. D[{}] = DictOf({}, s)
    OBVIOUS
  <2> QED
    BY <2>1, <2>2 DEF DictOf
<1>2. ASSUME NEW S \in SUBSET DOMAIN Items, S # {}
      PROVE  D[S] = CostTurn(D[S \ {Max(S)}], Items[Max(S)], s)
  <2> DEFINE V == S \ {Max(S)}
             x == Items[Max(S)]
             task == x.event.task
  <2>1. Max(S) \in S /\ \A i \in S : i \in Int /\ i <= Max(S)
    <3>1. nextId - 1 \in Nat /\ S \in SUBSET (1 .. nextId - 1)
      BY ItemsAreRows
    <3>2. \A i \in S : i \in Int
      BY <3>1
    <3> QED
      BY <1>2, <3>1, <3>2, MaxIsHighest
  <2>2. x \in Rows /\ x.id = Max(S) /\ \A y \in Rows : y.id = x.id => y = x
    BY <2>1, ItemsAreRows
  <2>3. D[S] = DictOf(S, s) /\ D[V] = DictOf(V, s) /\ V \in SUBSET DOMAIN Items
    BY <1>2
  <2>4. Seen(S, s) \subseteq Rows
    BY DEF Seen, Bearing, Scoped
  <2>5. \A y \in Seen(V, s) : y.id \in Int /\ y.id < x.id
    BY <2>1, <2>2 DEF Seen
  <2>6. CASE x \notin Bearing(Scoped({x}, s))
    <3>1. x \notin Seen(S, s)
      BY <2>6 DEF Seen, Bearing, Scoped
    <3>2. Seen(S, s) = Seen(V, s)
      BY <2>2, <2>4, <3>1 DEF Seen
    <3>3. DictOf(S, s) = DictOf(V, s)
      BY <3>2 DEF DictOf, Newest
    <3> HIDE DEF D, V, x
    <3> QED
      BY <2>3, <2>6, <3>3 DEF CostTurn, V, x
  <2>7. CASE x \in Bearing(Scoped({x}, s))
    <3>1. Seen(S, s) = Seen(V, s) \union {x}
      <4>1. x \in Seen(S, s)
        BY <2>1, <2>2, <2>7 DEF Seen, Bearing, Scoped
      <4> QED
        BY <2>2, <2>4, <4>1 DEF Seen
    <3>2. Newest(S, s, task) = {x}
      <4>1. x.id \in Int /\ task = x.event.task
        BY <2>1, <2>2
      <4> HIDE DEF V, x, task
      <4>2. x.id <= x.id /\ \A y \in Seen(V, s) : y.id <= x.id /\ ~(x.id <= y.id)
        BY <2>5, <4>1
      <4> QED
        BY <3>1, <4>1, <4>2 DEF Newest
    <3>3. ASSUME NEW t, t # task PROVE Newest(S, s, t) = Newest(V, s, t)
      <4>1. x.event.task # t
        BY <3>3
      <4> HIDE DEF V, x, task
      <4> QED
        BY <3>1, <4>1 DEF Newest
    <3>4. Kept(DictOf(V, s), x) = Assigned(DictOf(V, s), task, x)
      <4>1. CASE task \in DOMAIN DictOf(V, s)
        <5>1. PICK y \in Seen(V, s) : y.event.task = task
          BY <4>1 DEF DictOf
        <5>2. DictOf(V, s)[task] \in Newest(V, s, task)
          BY <2>3, <4>1, <5>1, NewestExists DEF DictOf
        <5>3. ~(x.id <= DictOf(V, s)[task].id)
          <6>1. DictOf(V, s)[task] \in Seen(V, s)
            BY <5>2 DEF Newest
          <6>2. x.id \in Int
            BY <2>1, <2>2
          <6> HIDE DEF V, x, task
          <6> QED
            BY <2>5, <6>1, <6>2
        <5> QED
          BY <5>3 DEF Kept
      <4>2. CASE task \notin DOMAIN DictOf(V, s)
        BY <4>2 DEF Kept
      <4> QED
        BY <4>1, <4>2
    <3>5. DictOf(S, s) = Assigned(DictOf(V, s), task, x)
      <4> DEFINE Tasks == {y.event.task : y \in Seen(V, s)}
                 Choice(U, t) == CHOOSE y \in Newest(U, s, t) : TRUE
      <4>1. DictOf(S, s) = [t \in Tasks \union {task} |-> Choice(S, t)]
        <5>1. {y.event.task : y \in Seen(S, s)} = Tasks \union {task}
          BY <3>1
        <5> QED
          BY <5>1 DEF DictOf
      <4>2. DictOf(V, s) = [t \in Tasks |-> Choice(V, t)]
        BY DEF DictOf
      <4>3. Choice(S, task) = x
        BY <3>2
      <4>4. \A t : t # task => Choice(S, t) = Choice(V, t)
        BY <3>3
      <4> HIDE DEF Tasks, Choice, task, x, V
      <4> QED
        BY <4>1, <4>2, <4>3, <4>4 DEF Assigned
    <3> HIDE DEF D, V, x
    <3> QED
      BY <2>3, <2>7, <3>4, <3>5 DEF CostTurn, V, x
  <2> QED
    BY <2>6, <2>7
<1> QED
  BY <1>1, <1>2

\* The rows in the full dictionary are those DISTINCT ON chooses.
LEMMA DictIsLatest ==
    ASSUME MemInv, NEW s
    PROVE  LET dict == DictOf(DOMAIN Items, s)
           IN  {dict[t] : t \in DOMAIN dict} = Latest(Rows, s)
<1> DEFINE B == Seen(DOMAIN Items, s)
           New(t) == Newest(DOMAIN Items, s, t)
           dict == DictOf(DOMAIN Items, s)
<1>1. B = Bearing(Scoped(Rows, s))
  BY ItemsAreRows DEF Seen, Bearing, Scoped
<1>2. Latest(Rows, s) =
          {x \in B : \A y \in B : y.event.task = x.event.task => y.id <= x.id}
  BY <1>1 DEF Latest
<1>3. \A x \in B : \E z \in New(x.event.task) : New(x.event.task) = {z}
  BY NewestExists
<1>4. \A x \in B : dict[x.event.task] \in New(x.event.task)
                   /\ New(x.event.task) = {dict[x.event.task]}
  BY <1>3 DEF DictOf
<1>5. DOMAIN dict = {x.event.task : x \in B}
  BY DEF DictOf
<1>6. \A x \in B : x \in Latest(Rows, s) <=> x \in New(x.event.task)
  BY <1>2 DEF Newest
<1>7. \A t : \A x \in New(t) : x \in B /\ x.event.task = t
  BY DEF Newest
<1> HIDE DEF B, New, dict
<1>8. {dict[t] : t \in DOMAIN dict} \subseteq Latest(Rows, s)
  BY <1>4, <1>5, <1>6, <1>7
<1>9. Latest(Rows, s) \subseteq {dict[t] : t \in DOMAIN dict}
  BY <1>2, <1>4, <1>5, <1>6
<1> QED
  BY <1>8, <1>9 DEF dict

-----------------------------------------------------------------------------
(* Following next_from_id. *)

\* r lists the rows of M once each, in the order of their ids.
Lists(r, M, m) ==
    /\ m \in Nat
    /\ r \in [1 .. m -> M]
    /\ \A i, j \in 1 .. m : i < j => r[i].id < r[j].id
    /\ \A x \in M : \E i \in 1 .. m : r[i] = x

\* There is one such list.
LEMMA ListUnique ==
    ASSUME MemInv, NEW M \in SUBSET Rows, NEW r, NEW m, Lists(r, M, m),
           NEW t, NEW k, Lists(t, M, k)
    PROVE  r = t
<1>1. \A x, y \in M : x.id \in Nat /\ (x.id = y.id => x = y)
  BY ItemsAreRows
<1>2. m \in Nat /\ k \in Nat /\ r \in [1 .. m -> M] /\ t \in [1 .. k -> M]
  BY DEF Lists
<1>3. ASSUME NEW i \in 1 .. m, i <= k PROVE r[i] = t[i]
  <2> DEFINE D == {j \in Nat : j \in 1 .. m /\ j <= k /\ r[j] # t[j]}
  <2> SUFFICES ASSUME D # {} PROVE FALSE
    BY <1>2, <1>3
  <2>1. PICK d \in D : \A j \in D : d <= j
    <3>1. D \in SUBSET Nat
      OBVIOUS
    <3> HIDE DEF D
    <3> QED
      BY <3>1, LeastNatural
  <2>2. d \in 1 .. m /\ d \in 1 .. k /\ d \in Nat /\ r[d] # t[d]
    BY <1>2, <2>1
  <2>3. \A j \in 1 .. d - 1 : r[j] = t[j] /\ j \in 1 .. m /\ j \in 1 .. k
    BY <1>2, <2>1, <2>2
  <2>4. r[d] \in M /\ t[d] \in M
    BY <1>2, <2>2
  <2>5. PICK a \in 1 .. k : t[a] = r[d]
    BY <2>4 DEF Lists
  <2>6. PICK b \in 1 .. m : r[b] = t[d]
    BY <2>4 DEF Lists
  <2>7. ~(a < d)
    <3> SUFFICES ASSUME a < d PROVE FALSE
      OBVIOUS
    <3>1. r[a] = r[d] /\ a \in 1 .. m
      BY <1>2, <2>2, <2>3, <2>5
    <3>2. r[a].id < r[d].id
      BY <2>2, <3>1 DEF Lists
    <3> QED
      BY <1>1, <2>4, <3>1, <3>2
  <2>8. ~(b < d)
    <3> SUFFICES ASSUME b < d PROVE FALSE
      OBVIOUS
    <3>1. t[b] = t[d] /\ b \in 1 .. k
      BY <1>2, <2>2, <2>3, <2>6
    <3>2. t[b].id < t[d].id
      BY <2>2, <3>1 DEF Lists
    <3> QED
      BY <1>1, <2>4, <3>1, <3>2
  <2>9. t[d].id <= r[d].id
    <3>1. CASE a = d
      BY <1>1, <2>4, <2>5, <3>1
    <3>2. CASE d < a
      <4>1. t[d].id < t[a].id
        BY <2>2, <2>5, <3>2 DEF Lists
      <4> QED
        BY <1>1, <2>4, <2>5, <4>1
    <3> QED
      BY <2>2, <2>5, <2>7, <3>1, <3>2
  <2>10. r[d].id <= t[d].id
    <3>1. CASE b = d
      BY <1>1, <2>4, <2>6, <3>1
    <3>2. CASE d < b
      <4>1. r[d].id < r[b].id
        BY <2>2, <2>6, <3>2 DEF Lists
      <4> QED
        BY <1>1, <2>4, <2>6, <4>1
    <3> QED
      BY <2>2, <2>6, <2>8, <3>1, <3>2
  <2> QED
    BY <1>1, <2>2, <2>4, <2>9, <2>10
<1>4. ~(m < k)
  <2> SUFFICES ASSUME m < k PROVE FALSE
    OBVIOUS
  <2>1. m + 1 \in 1 .. k /\ t[m + 1] \in M
    BY <1>2
  <2>2. PICK i \in 1 .. m : r[i] = t[m + 1]
    BY <2>1 DEF Lists
  <2>3. t[i] = t[m + 1] /\ i \in 1 .. k /\ i < m + 1
    BY <1>2, <1>3, <2>2
  <2>4. t[i].id < t[m + 1].id
    BY <2>1, <2>3 DEF Lists
  <2> QED
    BY <1>1, <2>1, <2>3, <2>4
<1>5. ~(k < m)
  <2> SUFFICES ASSUME k < m PROVE FALSE
    OBVIOUS
  <2>1. k + 1 \in 1 .. m /\ r[k + 1] \in M
    BY <1>2
  <2>2. PICK i \in 1 .. k : t[i] = r[k + 1]
    BY <2>1 DEF Lists
  <2>3. r[i] = r[k + 1] /\ i \in 1 .. m /\ i < k + 1
    BY <1>2, <1>3, <2>2
  <2>4. r[i].id < r[k + 1].id
    BY <2>1, <2>3 DEF Lists
  <2> QED
    BY <1>1, <2>1, <2>3, <2>4
<1>6. m = k
  BY <1>2, <1>4, <1>5
<1> QED
  BY <1>2, <1>3, <1>6

LEMMA AppendIs ==
    ASSUME NEW S, NEW n \in Nat, NEW r \in [1 .. n -> S], NEW z \in S
    PROVE  Append(r, z) = [i \in 1 .. n + 1 |-> IF i <= n THEN r[i] ELSE z]
<1>1. r \in Seq(S) /\ Len(r) = n /\ DOMAIN r = 1 .. n
  OBVIOUS
<1> DEFINE a == Append(r, z)
<1>2. a \in Seq(S) /\ Len(a) = n + 1
  BY <1>1, AppendProperties
<1>3. a = [i \in 1 .. n + 1 |-> a[i]]
  <2> HIDE DEF a
  <2> QED
    BY <1>2
<1>4. \A i \in 1 .. n : a[i] = r[i]
  BY <1>1, AppendProperties
<1>5. a[n + 1] = z
  BY <1>1, AppendProperties
<1>6. \A i \in 1 .. n + 1 : a[i] = IF i <= n THEN r[i] ELSE z
  <2> HIDE DEF a
  <2> QED
    BY <1>4, <1>5
<1> HIDE DEF a
<1>7. a = [i \in 1 .. n + 1 |-> IF i <= n THEN r[i] ELSE z]
  BY <1>3, <1>6
<1> QED
  BY <1>7 DEF a

\* ORDER BY gives it.
LEMMA OrderLists ==
    ASSUME MemInv, NEW M \in SUBSET Rows
    PROVE  Lists(OrderById(M), M, Cardinality(M))
<1> DEFINE T == {U \in SUBSET Rows : ~Lists(OrderById(U), U, Cardinality(U))}
<1> SUFFICES ASSUME T # {} PROVE FALSE
  OBVIOUS
<1>1. PICK S \in T : \A U \in T : U \subseteq S => U = S
  <2>1. T \in SUBSET SUBSET Rows
    OBVIOUS
  <2> HIDE DEF T
  <2> QED
    BY <2>1, ItemsAreRows, MinimalSubset
<1>2. S \in SUBSET Rows /\ ~Lists(OrderById(S), S, Cardinality(S))
  OBVIOUS
<1>3. S # {}
  <2> SUFFICES ASSUME S = {} PROVE FALSE
    OBVIOUS
  <2>1. Cardinality({}) = 0 /\ OrderById({}) = << >>
    BY FS_EmptySet DEF OrderById
  <2>2. << >> \in [1 .. 0 -> {}] /\ 1 .. 0 = {}
    OBVIOUS
  <2>3. Lists(<< >>, {}, 0)
    BY <2>2 DEF Lists
  <2> QED
    BY <1>2, <2>1, <2>3
<1> DEFINE I == {x.id : x \in S}
<1>4. nextId - 1 \in Nat /\ I \in SUBSET (1 .. nextId - 1) /\ I # {}
  BY <1>2, <1>3, ItemsAreRows
<1>5. Max(I) \in I /\ \A i \in I : i <= Max(I)
  <2> HIDE DEF I
  <2> QED
    BY <1>4, MaxIsHighest
<1>6. PICK z \in S : z.id = Max(I)
  BY <1>5
<1> DEFINE V == S \ {z}
           n == Cardinality(V)
           r == OrderById(V)
<1>7. \A x \in V : x.id \in Int /\ x.id < z.id
  <2>1. \A x \in S : x.id \in Int /\ (x.id = z.id => x = z)
    BY <1>2, ItemsAreRows
  <2>2. \A x \in S : x.id <= z.id
    BY <1>5, <1>6
  <2> QED
    BY <2>1, <2>2
<1>8. z.id \in Int
  BY <1>2, ItemsAreRows
<1>9. Lists(r, V, n)
  BY <1>1, <1>2
<1>10. IsFiniteSet(V)
  BY <1>2, ItemsAreRows, FS_Subset
<1>11. S = V \union {z} /\ z \notin V
  OBVIOUS
<1>12. Cardinality(S) = n + 1
  <2> HIDE DEF V
  <2> QED
    BY <1>10, <1>11, FS_AddElement
<1>13. OrderById(S) = Append(r, z)
  <2> HIDE DEF V
  <2> QED
    BY <1>7, <1>8, <1>10, <1>11, OrderAppend
<1> HIDE DEF V, n, r, T, I
<1>14. n \in Nat /\ r \in [1 .. n -> V]
  BY <1>9 DEF Lists
<1>15. Append(r, z) = [i \in 1 .. n + 1 |-> IF i <= n THEN r[i] ELSE z]
  <2>1. r \in [1 .. n -> S]
    BY <1>11, <1>14
  <2> HIDE DEF V
  <2> QED
    BY <1>14, <2>1, AppendIs
<1>16. \A i \in 1 .. n : r[i] \in V
  BY <1>14
<1>17. Lists(Append(r, z), S, n + 1)
  <2>1. Append(r, z) \in [1 .. n + 1 -> S]
    BY <1>11, <1>14, <1>15, <1>16
  <2>2. ASSUME NEW i \in 1 .. n + 1, NEW j \in 1 .. n + 1, i < j
        PROVE  Append(r, z)[i].id < Append(r, z)[j].id
    <3>1. i \in 1 .. n /\ Append(r, z)[i] = r[i]
      BY <1>14, <1>15, <2>2
    <3>2. CASE j = n + 1
      BY <1>7, <1>14, <1>15, <1>16, <3>1, <3>2
    <3>3. CASE j # n + 1
      <4>1. j \in 1 .. n /\ Append(r, z)[j] = r[j]
        BY <1>14, <1>15, <3>3
      <4> QED
        BY <1>9, <2>2, <3>1, <4>1 DEF Lists
    <3> QED
      BY <3>2, <3>3
  <2>3. ASSUME NEW x \in S PROVE \E i \in 1 .. n + 1 : Append(r, z)[i] = x
    <3>1. CASE x = z
      BY <1>14, <1>15, <3>1
    <3>2. CASE x # z
      <4>1. PICK i \in 1 .. n : r[i] = x
        BY <1>9, <1>11, <3>2 DEF Lists
      <4> QED
        BY <1>14, <1>15, <4>1
    <3> QED
      BY <3>1, <3>2
  <2>4. n + 1 \in Nat
    BY <1>14
  <2> DEFINE N == n + 1
             a == Append(r, z)
  <2>5. /\ N \in Nat /\ a \in [1 .. N -> S]
        /\ \A i, j \in 1 .. N : i < j => a[i].id < a[j].id
        /\ \A x \in S : \E i \in 1 .. N : a[i] = x
    BY <2>1, <2>2, <2>3, <2>4
  <2> HIDE DEF N, a
  <2>6. Lists(a, S, N)
    BY <2>5 DEF Lists
  <2> QED
    BY <2>6 DEF N, a
<1> QED
  BY <1>2, <1>12, <1>13, <1>17

LEMMA ConcatIs ==
    ASSUME NEW S, NEW r \in Seq(S), NEW t \in Seq(S)
    PROVE  r \o t = [i \in 1 .. Len(r) + Len(t) |->
                        IF i <= Len(r) THEN r[i] ELSE t[i - Len(r)]]
<1> DEFINE c == r \o t
<1>1. c \in Seq(S) /\ Len(c) = Len(r) + Len(t)
  BY ConcatProperties
<1>2. c = [i \in 1 .. Len(r) + Len(t) |-> c[i]]
  <2> HIDE DEF c
  <2> QED
    BY <1>1
<1>3. \A i \in 1 .. Len(r) + Len(t) :
          c[i] = IF i <= Len(r) THEN r[i] ELSE t[i - Len(r)]
  BY ConcatProperties
<1> HIDE DEF c
<1>4. c = [i \in 1 .. Len(r) + Len(t) |->
              IF i <= Len(r) THEN r[i] ELSE t[i - Len(r)]]
  BY <1>2, <1>3
<1> QED
  BY <1>4 DEF c

\* What follows the n-th row is listed from the next id on.
LEMMA OrderSplits ==
    ASSUME MemInv, NEW M \in SUBSET Rows, NEW n \in 1 .. Cardinality(M)
    PROVE  LET O == OrderById(M)
           IN  /\ O[n] \in M
               /\ O = SubSeq(O, 1, n)
                         \o OrderById({x \in M : x.id >= O[n].id + 1})
<1> DEFINE O == OrderById(M)
           m == Cardinality(M)
           N == {x \in M : x.id >= O[n].id + 1}
           P == OrderById(N)
           k == Cardinality(N)
           r == SubSeq(O, 1, n)
           c == r \o P
<1>1. Lists(O, M, m) /\ Lists(P, N, k)
  BY OrderLists
<1>2. \A x \in M : x.id \in Nat
  BY ItemsAreRows
<1>3. n \in 1 .. m
  OBVIOUS
<1>4. \A x \in N : x \in M /\ x.id > O[n].id
  <2>1. O[n] \in M
    BY <1>1, <1>3 DEF Lists
  <2> QED
    BY <1>2, <2>1
<1>5. \A x \in M : x.id > O[n].id => x \in N
  <2>1. O[n] \in M
    BY <1>1, <1>3 DEF Lists
  <2> QED
    BY <1>2, <2>1
<1> HIDE DEF O, N, P, m, k
<1>6. m \in Nat /\ k \in Nat /\ O \in [1 .. m -> M] /\ P \in [1 .. k -> N]
  BY <1>1 DEF Lists
<1>7. O[n] \in M /\ n \in Nat /\ n <= m
  BY <1>3, <1>6
<1>8. r = [i \in 1 .. n |-> O[i]]
  BY <1>6, <1>7
<1>9. P \in [1 .. k -> M]
  BY <1>4, <1>6
<1>10. c = [i \in 1 .. n + k |-> IF i <= n THEN O[i] ELSE P[i - n]]
  <2>1. \A i \in 1 .. n : O[i] \in M
    BY <1>6, <1>7
  <2> HIDE DEF r
  <2>2. r \in [1 .. n -> M] /\ \A i \in 1 .. n : r[i] = O[i]
    BY <1>8, <2>1
  <2>3. c = [i \in 1 .. n + k |-> IF i <= n THEN r[i] ELSE P[i - n]]
    <3>1. r \in Seq(M) /\ P \in Seq(M) /\ Len(r) = n /\ Len(P) = k
      BY <1>6, <1>7, <1>9, <2>2
    <3>2. r \o P = [i \in 1 .. Len(r) + Len(P) |->
                       IF i <= Len(r) THEN r[i] ELSE P[i - Len(r)]]
      BY <3>1, ConcatIs
    <3> QED
      BY <3>1, <3>2
  <2> HIDE DEF c
  <2>4. \A i \in 1 .. n + k : i <= n => r[i] = O[i]
    BY <1>6, <1>7, <2>2
  <2> QED
    BY <2>3, <2>4
<1> HIDE DEF r, c
<1>11. Lists(c, M, n + k)
  <2>1. c \in [1 .. n + k -> M]
    BY <1>6, <1>7, <1>9, <1>10
  <2>2. ASSUME NEW i \in 1 .. n + k, NEW j \in 1 .. n + k, i < j
        PROVE  c[i].id < c[j].id
    <3>1. CASE j <= n
      <4>1. c[i] = O[i] /\ c[j] = O[j] /\ i \in 1 .. m /\ j \in 1 .. m
        BY <1>6, <1>7, <1>10, <2>2, <3>1
      <4> QED
        BY <1>1, <2>2, <4>1 DEF Lists
    <3>2. CASE i <= n /\ n < j
      <4>1. c[i] = O[i] /\ c[j] = P[j - n] /\ i \in 1 .. m /\ j - n \in 1 .. k
        BY <1>6, <1>7, <1>10, <2>2, <3>2
      <4>2. O[i].id <= O[n].id /\ O[i].id \in Nat /\ O[n].id \in Nat
        <5>1. O[i] \in M
          BY <1>6, <4>1
        <5>2. i < n => O[i].id < O[n].id
          BY <1>1, <1>3, <4>1 DEF Lists
        <5> QED
          BY <1>2, <1>7, <3>2, <5>1, <5>2
      <4>3. P[j - n] \in N
        BY <1>6, <4>1
      <4> QED
        BY <1>2, <1>4, <4>1, <4>2, <4>3
    <3>3. CASE n < i
      <4>1. /\ c[i] = P[i - n] /\ i - n \in 1 .. k
            /\ c[j] = P[j - n] /\ j - n \in 1 .. k
            /\ i - n < j - n
        BY <1>6, <1>7, <1>10, <2>2, <3>3
      <4> QED
        BY <1>1, <4>1 DEF Lists
    <3> QED
      BY <1>6, <1>7, <2>2, <3>1, <3>2, <3>3
  <2>3. ASSUME NEW x \in M PROVE \E i \in 1 .. n + k : c[i] = x
    <3>1. PICK i \in 1 .. m : O[i] = x
      BY <1>1 DEF Lists
    <3>2. CASE i <= n
      <4>1. i \in 1 .. n + k /\ c[i] = x
        BY <1>6, <1>7, <1>10, <3>1, <3>2
      <4> QED
        BY <4>1
    <3>3. CASE n < i
      <4>1. x \in N
        <5>1. O[n].id < O[i].id
          BY <1>1, <1>3, <3>3 DEF Lists
        <5> QED
          BY <1>2, <1>5, <1>7, <3>1, <5>1
      <4>2. PICK j \in 1 .. k : P[j] = x
        BY <1>1, <4>1 DEF Lists
      <4>3. n + j \in 1 .. n + k /\ c[n + j] = x
        BY <1>6, <1>7, <1>10, <4>2
      <4> QED
        BY <4>3
    <3> QED
      BY <1>6, <1>7, <3>2, <3>3
  <2> DEFINE l == n + k
  <2>4. /\ l \in Nat /\ c \in [1 .. l -> M]
        /\ \A i, j \in 1 .. l : i < j => c[i].id < c[j].id
        /\ \A x \in M : \E i \in 1 .. l : c[i] = x
    BY <1>6, <1>7, <2>1, <2>2, <2>3
  <2> HIDE DEF l
  <2>5. Lists(c, M, l)
    BY <2>4 DEF Lists
  <2> QED
    BY <2>5 DEF l
<1>12. O = c
  BY <1>1, <1>11, ListUnique
<1> QED
  BY <1>7, <1>12 DEF O, c, r, P, N

\* A client of GET /events as a recursive function of its cursor.
IsClient(F, q, limit) ==
    F = [start \in 0 .. 2 * MaxId + 1 |->
            SqlFind(q, start, limit)
               \o IF NextPage(SqlFind(q, start, limit), start, limit) = 0
                  THEN << >>
                  ELSE F[NextPage(SqlFind(q, start, limit), start, limit)]]

LEMMA CollectedIsClient ==
    ASSUME NEW q, NEW limit, NEW G, IsClient(G, q, limit)
    PROVE  \E F : IsClient(F, q, limit) /\ Collected(q, limit) = F[0]
<1> DEFINE F == CHOOSE F : F = [start \in 0 .. 2 * MaxId + 1 |->
                   SqlFind(q, start, limit)
                      \o IF NextPage(SqlFind(q, start, limit), start, limit) = 0
                         THEN << >>
                         ELSE F[NextPage(SqlFind(q, start, limit), start, limit)]]
<1>1. IsClient(F, q, limit)
  BY DEF IsClient
<1>2. Collected(q, limit) = F[0]
  BY Zenon DEF Collected
<1> QED
  BY <1>1, <1>2

\* The rows a client still has to see.
Left(q, start) == {x \in Rows : Matches(x.event, q) /\ x.id >= start}

\* One page and where the next one starts.
LEMMA PageThenRest ==
    ASSUME MemInv, NEW q, NEW limit \in 1 .. MaxLimit,
           NEW start \in 0 .. 2 * MaxId + 1
    PROVE  LET page == SqlFind(q, start, limit)
               next == NextPage(page, start, limit)
           IN  /\ next = 0 => page = OrderById(Left(q, start))
               /\ next # 0 => /\ next \in start + 1 .. 2 * MaxId + 1
                              /\ OrderById(Left(q, start)) =
                                    page \o OrderById(Left(q, next))
<1> DEFINE M == Left(q, start)
           O == OrderById(M)
           m == Cardinality(M)
           page == SqlFind(q, start, limit)
           next == NextPage(page, start, limit)
<1>1. M \in SUBSET Rows /\ page = Limited(O, Clamp(limit))
  BY DEF Left, SqlFind
<1>2. Clamp(limit) = limit /\ limit \in Nat \ {0}
  BY MemoryAssumption DEF Clamp
<1>3. Lists(O, M, m)
  BY <1>1, OrderLists
<1>4. m \in Nat /\ O \in [1 .. m -> M] /\ Len(O) = m
  <2> HIDE DEF O, M, m
  <2> QED
    BY <1>3 DEF Lists
<1>5. CASE m < limit
  <2> HIDE DEF M, O, m
  <2>1. page = SubSeq(O, 1, m)
    BY <1>1, <1>2, <1>4, <1>5 DEF Limited
  <2>2. SubSeq(O, 1, m) = O
    BY <1>4
  <2>3. next = 0
    BY <1>2, <1>4, <1>5, <2>1, <2>2 DEF NextPage
  <2> QED
    BY <2>1, <2>2, <2>3 DEF O, M
<1>6. CASE limit <= m
  <2>1. limit \in 1 .. m
    BY <1>2, <1>4, <1>6
  <2>2. /\ O[limit] \in M
        /\ O = SubSeq(O, 1, limit)
                  \o OrderById({x \in M : x.id >= O[limit].id + 1})
    BY <1>1, <2>1, OrderSplits
  <2>3. /\ O[limit].id \in 1 .. MaxId /\ O[limit].id >= start
        /\ \A x \in Rows : x.id \in Nat
    <3>1. O[limit] \in Rows /\ O[limit].id >= start
      BY <2>2 DEF Left
    <3>2. \A x \in Rows : x.id \in 1 .. MaxId
      BY ItemsAreRows, MemoryAssumption DEF MemInv
    <3> QED
      BY <3>1, <3>2
  <2>4. {x \in M : x.id >= O[limit].id + 1} = Left(q, O[limit].id + 1)
    <3> DEFINE i == O[limit].id
    <3>1. i \in Nat /\ i >= start
      BY <2>3
    <3> HIDE DEF i
    <3>2. \A x \in Rows : x.id >= i + 1 => x.id >= start
      BY <2>3, <3>1
    <3>3. {x \in M : x.id >= i + 1} = Left(q, i + 1)
      BY <3>2 DEF Left
    <3> QED
      BY <3>3 DEF i
  <2> HIDE DEF M, O, m
  <2>5. page = SubSeq(O, 1, limit) /\ Len(page) = limit
        /\ page[limit] = O[limit]
    <3>1. page = SubSeq(O, 1, limit)
      BY <1>1, <1>2, <1>4, <1>6 DEF Limited
    <3> HIDE DEF page
    <3> QED
      BY <1>2, <1>4, <2>1, <3>1
  <2>6. next = O[limit].id + 1
    BY <2>5 DEF NextPage, NextFromId
  <2>7. next # 0 /\ next \in start + 1 .. 2 * MaxId + 1
    <3> HIDE DEF next
    <3> QED
      BY <2>3, <2>6, MemoryAssumption
  <2>8. O = page \o OrderById(Left(q, next))
    <3> HIDE DEF next, page
    <3> QED
      BY <2>2, <2>4, <2>5, <2>6
  <2> QED
    BY <2>7, <2>8 DEF O, M
<1>7. m < limit \/ limit <= m
  <2> HIDE DEF m
  <2> QED
    BY <1>2, <1>4
<1> QED
  BY <1>5, <1>6, <1>7

\* The cursor only goes up, so the client's recursion has one solution.
LEMMA ClientUnique ==
    ASSUME MemInv, NEW q, NEW limit \in 1 .. MaxLimit,
           NEW F, IsClient(F, q, limit), NEW G, IsClient(G, q, limit)
    PROVE  \A start \in 0 .. 2 * MaxId + 1 : F[start] = G[start]
<1> DEFINE top == 2 * MaxId + 1
           T == {d \in 0 .. top : F[top - d] # G[top - d]}
<1>1. top \in Nat
  BY MemoryAssumption
<1> HIDE DEF top
<1>2. T = {}
  <2> SUFFICES ASSUME T # {} PROVE FALSE
    OBVIOUS
  <2>1. PICK d \in T : \A c \in T : d <= c
    <3>1. T \in SUBSET Nat
      BY <1>1
    <3> HIDE DEF T
    <3> QED
      BY <3>1, LeastNatural
  <2> DEFINE start == top - d
             page == SqlFind(q, start, limit)
             next == NextPage(page, start, limit)
  <2>2. d \in 0 .. top /\ start \in 0 .. top /\ F[start] # G[start]
    BY <1>1
  <2>3. F[start] = page \o IF next = 0 THEN << >> ELSE F[next]
    BY <2>2 DEF IsClient, top
  <2>4. G[start] = page \o IF next = 0 THEN << >> ELSE G[next]
    BY <2>2 DEF IsClient, top
  <2>5. next # 0 => next \in start + 1 .. top
    BY <2>2, PageThenRest DEF top
  <2> HIDE DEF page, next
  <2>6. next # 0 => F[next] = G[next]
    <3> SUFFICES ASSUME next # 0 PROVE F[next] = G[next]
      OBVIOUS
    <3>1. top - next \in 0 .. top /\ top - next < d /\ top - (top - next) = next
      BY <1>1, <2>2, <2>5
    <3>2. top - next \notin T
      BY <1>1, <2>1, <2>2, <3>1
    <3> QED
      BY <3>1, <3>2
  <2> QED
    BY <2>2, <2>3, <2>4, <2>6
<1> QED
  <2> SUFFICES ASSUME NEW start \in 0 .. top PROVE F[start] = G[start]
    BY DEF top
  <2>1. top - start \in 0 .. top /\ top - (top - start) = start
    BY <1>1
  <2> QED
    BY <1>2, <2>1

\* What is left in order from the cursor on is that solution.
LEMMA LeftIsClient ==
    ASSUME MemInv, NEW q, NEW limit \in 1 .. MaxLimit
    PROVE  IsClient([start \in 0 .. 2 * MaxId + 1 |-> OrderById(Left(q, start))],
                    q, limit)
<1> DEFINE G == [start \in 0 .. 2 * MaxId + 1 |-> OrderById(Left(q, start))]
<1> SUFFICES ASSUME NEW start \in 0 .. 2 * MaxId + 1
             PROVE  G[start] =
                       SqlFind(q, start, limit)
                          \o IF NextPage(SqlFind(q, start, limit), start, limit) = 0
                             THEN << >>
                             ELSE G[NextPage(SqlFind(q, start, limit), start, limit)]
  BY Zenon DEF IsClient
<1> DEFINE page == SqlFind(q, start, limit)
           next == NextPage(page, start, limit)
<1>1. /\ next = 0 => page = OrderById(Left(q, start))
      /\ next # 0 => /\ next \in start + 1 .. 2 * MaxId + 1
                     /\ OrderById(Left(q, start)) = page \o OrderById(Left(q, next))
  BY PageThenRest
<1>2. G[start] = OrderById(Left(q, start))
  OBVIOUS
<1>3. CASE next = 0
  <2>1. PICK A : OrderById(Left(q, start)) \in Seq(A)
    <3>1. IsFiniteSet(Left(q, start))
      <4>1. Left(q, start) \subseteq Rows
        BY DEF Left
      <4> QED
        BY <4>1, ItemsAreRows, FS_Subset
    <3> QED
      BY <3>1, OrderIsSeq
  <2>2. OrderById(Left(q, start)) \o << >> = OrderById(Left(q, start))
    BY <2>1, ConcatEmptySeq
  <2> QED
    BY <1>1, <1>2, <1>3, <2>2
<1>4. CASE next # 0
  <2>1. next \in 0 .. 2 * MaxId + 1
    <3> HIDE DEF next
    <3> QED
      BY <1>1, <1>4, MemoryAssumption
  <2>2. G[next] = OrderById(Left(q, next))
    BY <2>1
  <2> QED
    BY <1>1, <1>2, <1>4, <2>2
<1> QED
  BY <1>3, <1>4

-----------------------------------------------------------------------------
(* The theorems. *)

\* The dict holds one event under each id the counter has yielded, and no other.
THEOREM MemInvariance == MemSpec => []MemInv
<1>1. MemInit => MemInv
  BY MemoryAssumption DEF MemInit, MemInv
<1>2. MemInv /\ [MemNext]_vars => MemInv'
  <2> SUFFICES ASSUME MemInv, [MemNext]_vars PROVE MemInv'
    OBVIOUS
  <2>1. ASSUME NEW e \in Events, MemStore(e) PROVE MemInv'
    <3>1. DOMAIN events' = DOMAIN events \union {nextId}
          /\ \A i \in DOMAIN events' :
                events'[i] = IF i = nextId THEN e ELSE events[i]
      BY <2>1 DEF MemStore, Assigned
    <3>2. nextId' = nextId + 1 /\ nextId <= MaxId /\ nextId \in Nat
      BY <2>1, MemoryAssumption DEF MemStore, MemInv
    <3>3. DOMAIN events' = 1 .. nextId' - 1
      BY <3>1, <3>2 DEF MemInv
    <3>4. nextId' \in 1 .. MaxId + 1
      BY <3>2, MemoryAssumption DEF MemInv
    <3>5. \A i \in DOMAIN events' : events'[i] \in Events
      BY <3>1 DEF MemInv
    <3> QED
      BY <3>3, <3>4, <3>5 DEF MemInv
  <2>2. CASE UNCHANGED vars
    BY <2>2 DEF MemInv, vars
  <2> QED
    BY <2>1, <2>2 DEF MemNext
<1> QED
  BY <1>1, <1>2, PTL DEF MemSpec

\* store() of the in-memory class is an append to the abstract log: it gives a
\* fresh id and leaves every stored event as it is.
THEOREM MemImplementsLog == MemSpec => ImplementsEventLog
<1>1. MemInit => Log!Init
  BY DEF MemInit, Log!Init, Rows
<1>2. MemInv /\ [MemNext]_vars => [Log!Append]_Rows
  <2> SUFFICES ASSUME MemInv, [MemNext]_vars PROVE [Log!Append]_Rows
    OBVIOUS
  <2>1. ASSUME NEW e \in Events, MemStore(e) PROVE Log!Append
    <3>1. nextId \in Ids
      BY <2>1, MemoryAssumption DEF MemStore, MemInv, Ids
    <3>2. nextId \notin DOMAIN events
      BY <3>1 DEF MemInv, Ids
    <3>3. \A x \in Rows : x.id # nextId
      BY <3>2 DEF Rows
    <3>4. Rows' = Rows \union {[id |-> nextId, event |-> e]}
      <4>1. DOMAIN events' = DOMAIN events \union {nextId}
            /\ \A i \in DOMAIN events' :
                  events'[i] = IF i = nextId THEN e ELSE events[i]
        BY <2>1 DEF MemStore, Assigned
      <4> QED
        BY <3>2, <4>1 DEF Rows
    <3> QED
      BY <3>1, <3>3, <3>4 DEF Log!Append
  <2>2. CASE UNCHANGED vars
    BY <2>2 DEF vars, Rows
  <2> QED
    BY <2>1, <2>2 DEF MemNext
<1> QED
  BY <1>1, <1>2, MemInvariance, PTL DEF MemSpec, ImplementsEventLog, Log!Spec

\* The loop of cost_summary keeps the rows DISTINCT ON chooses and adds them up
\* alike, for every log and every scope.
THEOREM CostTwinsAgree == MemSpec => []CostSubstitutes
<1>1. MemInv => CostSubstitutes
  <2> SUFFICES ASSUME MemInv, NEW s \in Scopes
               PROVE  MemCost(s) = Summary(Latest(Rows, s))
    BY DEF CostSubstitutes
  <2> DEFINE G == [S \in SUBSET DOMAIN Items |-> DictOf(S, s)]
  <2>1. IsCost(G, s)
    BY DictIsCost
  <2>2. G[DOMAIN Items] = DictOf(DOMAIN Items, s)
    OBVIOUS
  <2> HIDE DEF G
  <2>3. PICK F : /\ IsCost(F, s)
                 /\ MemCost(s) = Summary({F[DOMAIN Items][t] :
                                            t \in DOMAIN F[DOMAIN Items]})
    BY <2>1, CostIsLoop
  <2>4. F[DOMAIN Items] = DictOf(DOMAIN Items, s)
    BY <2>1, <2>2, <2>3, CostUnique
  <2> QED
    BY <2>3, <2>4, DictIsLatest
<1> QED
  BY <1>1, MemInvariance, PTL

\* The scan with its skips and its break returns the page the query returns,
\* for every log, filter, cursor and limit.
THEOREM FindTwinsAgree == MemSpec => []FindSubstitutes
<1>1. MemInv => FindSubstitutes
  <2> SUFFICES ASSUME MemInv, NEW q \in Queries, NEW start \in Int,
                      NEW limit \in Int
               PROVE  MemFind(q, start, limit) = SqlFind(q, start, limit)
    BY MemoryAssumption DEF FindSubstitutes
  <2> DEFINE G == [S \in SUBSET DOMAIN Items |-> PageOf(S, q, start, limit)]
  <2>1. IsScan(G, q, start, limit)
    BY PageIsScan
  <2>2. G[DOMAIN Items] = PageOf(DOMAIN Items, q, start, limit)
    OBVIOUS
  <2> HIDE DEF G
  <2>3. PICK F : /\ IsScan(F, q, start, limit)
                 /\ MemFind(q, start, limit) = F[DOMAIN Items]
    BY <2>1, FindIsScan
  <2>4. F[DOMAIN Items] = PageOf(DOMAIN Items, q, start, limit)
    BY <2>1, <2>2, <2>3, ScanUnique
  <2>5. Found(DOMAIN Items, q, start) =
            {x \in Rows : Matches(x.event, q) /\ x.id >= start}
    BY ItemsAreRows DEF Found
  <2> QED
    BY <2>3, <2>4, <2>5 DEF SqlFind, PageOf
<1> QED
  BY <1>1, MemInvariance, PTL

\* A client of GET /events that follows next_from_id until there is none sees
\* every matching event once, in order, for every log, filter and limit.
THEOREM CursorCompleteness == MemSpec => []CursorCovers
<1>1. MemInv => CursorCovers
  <2> SUFFICES ASSUME MemInv, NEW q \in Queries, NEW limit \in 1 .. MaxLimit
               PROVE  Collected(q, limit) =
                         OrderById({x \in Rows : Matches(x.event, q)})
    BY DEF CursorCovers
  <2> DEFINE G == [start \in 0 .. 2 * MaxId + 1 |-> OrderById(Left(q, start))]
  <2>1. IsClient(G, q, limit)
    BY LeftIsClient
  <2>2. 0 \in 0 .. 2 * MaxId + 1
    BY MemoryAssumption
  <2>3. G[0] = OrderById(Left(q, 0))
    BY <2>2
  <2> HIDE DEF G
  <2>4. PICK F : IsClient(F, q, limit) /\ Collected(q, limit) = F[0]
    BY <2>1, CollectedIsClient
  <2>5. F[0] = G[0]
    BY <2>1, <2>2, <2>4, ClientUnique
  <2>6. Left(q, 0) = {x \in Rows : Matches(x.event, q)}
    BY ItemsAreRows DEF Left
  <2> QED
    BY <2>3, <2>4, <2>5, <2>6
<1> QED
  BY <1>1, MemInvariance, PTL
=============================================================================
