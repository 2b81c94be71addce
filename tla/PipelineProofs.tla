---------------------------- MODULE PipelineProofs ----------------------------
(***************************************************************************)
(* The planner decides and orders as its reference does, for every set of  *)
(* answers of the language model: of any length, with any ids and any      *)
(* dependencies.                                                           *)
(*                                                                         *)
(* The loop of normalize_plan_nodes is an iteration over states and not a  *)
(* recursive definition, so a loop invariant is enough: no induction over  *)
(* graphs or sequences is needed.                                          *)
(***************************************************************************)
EXTENDS Pipeline, FiniteSetTheorems, FunctionTheorems, TLAPS

-----------------------------------------------------------------------------
\* Finite sets of numbers

LEMMA UpTo ==
  ASSUME NEW n \in Nat
  PROVE  IsFiniteSet(1 .. n) /\ Cardinality(1 .. n) = n
<1>1. IsFiniteSet(1 .. n) /\ Cardinality(1 .. n) = IF 1 > n THEN 0 ELSE n - 1 + 1
  BY FS_Interval
<1>. QED
  BY <1>1

\* A non-empty finite set of numbers has a least element.
LEMMA LeastExists ==
  ASSUME NEW S \in SUBSET Nat, IsFiniteSet(S), S # {}
  PROVE  \E x \in S : \A y \in S : x <= y
<1> DEFINE Below(x) == {y \in S : y <= x}
           C        == {Below(x) : x \in S}
<1>1. IsWellFoundedOn(StrictSubsetOrdering(S), FiniteSubsetsOf(S))
  BY FS_StrictSubsetOrderingWellFounded
<1>2. FiniteSubsetsOf(S) = SUBSET S
  BY FS_FiniteSubsetsOfFinite
<1>3. C \subseteq FiniteSubsetsOf(S) /\ C # {}
  <2>1. \A x \in S : Below(x) \in SUBSET S
    OBVIOUS
  <2>2. PICK x \in S : TRUE
    OBVIOUS
  <2>3. Below(x) \in C
    OBVIOUS
  <2> HIDE DEF Below
  <2>. QED
    BY <1>2, <2>1, <2>3
<1>4. PICK M \in C : \A N \in C : <<N, M>> \notin StrictSubsetOrdering(S)
  <2> HIDE DEF C
  <2>. QED
    BY <1>1, <1>3, WFMin
<1>5. PICK x \in S : M = Below(x)
  BY <1>4
<1>6. ASSUME NEW y \in S, ~(x <= y) PROVE FALSE
  <2>0. x \in Nat /\ y \in Nat /\ y < x
    BY <1>6
  <2>1. Below(y) \in C /\ Below(y) \subseteq Below(x) /\ x \notin Below(y) /\ x \in Below(x)
    <3>1. Below(y) \in C
      OBVIOUS
    <3>2. ASSUME NEW z \in S, z <= y PROVE z <= x
      BY <2>0, <3>2
    <3>3. \A v, z : z \in Below(v) <=> z \in S /\ z <= v
      OBVIOUS
    <3>4. ~(x <= y) /\ x <= x
      BY <2>0
    <3> HIDE DEF Below, C
    <3>. QED
      BY <3>1, <3>2, <3>3, <3>4
  <2>2. <<Below(y), Below(x)>> \in StrictSubsetOrdering(S)
    <3>1. <<Below(y), Below(x)>> \in (SUBSET S) \X (SUBSET S)
      OBVIOUS
    <3> HIDE DEF Below
    <3>. QED
      BY <2>1, <3>1 DEF StrictSubsetOrdering
  <2>. QED
    BY <1>4, <1>5, <2>1, <2>2
<1>. QED
  BY <1>6

\* Sorted lists exactly the elements of a finite set, in increasing order:
\* the number of smaller elements is a bijection onto 0 .. Cardinality - 1.
LEMMA SortedProperties ==
  ASSUME NEW S \in SUBSET Nat, IsFiniteSet(S)
  PROVE  /\ Sorted(S) \in Seq(S)
         /\ ToSet(Sorted(S)) = S
         /\ \A a, b \in DOMAIN Sorted(S) : a < b => Sorted(S)[a] < Sorted(S)[b]
<1> DEFINE Smaller(x) == {y \in S : y < x}
           n          == Cardinality(S)
           rank       == [x \in S |-> Cardinality(Smaller(x)) + 1]
<1>1. n \in Nat
  BY FS_CardinalityType
<1>2. ASSUME NEW x \in S
      PROVE  IsFiniteSet(Smaller(x)) /\ Cardinality(Smaller(x)) \in Nat /\ Cardinality(Smaller(x)) < n
  <2>1. Smaller(x) \in SUBSET S /\ Smaller(x) # S
    <3>1. x \notin Smaller(x)
      OBVIOUS
    <3>. QED
      BY <3>1
  <2>2. IsFiniteSet(Smaller(x)) /\ Cardinality(Smaller(x)) <= n /\ Cardinality(Smaller(x)) # n
    <3> HIDE DEF Smaller
    <3>. QED
      BY <2>1, FS_Subset
  <2>3. Cardinality(Smaller(x)) \in Nat
    BY <2>2, FS_CardinalityType
  <2>. QED
    BY <1>1, <2>2, <2>3
<1>3. ASSUME NEW x \in S, NEW y \in S, x < y PROVE rank[x] < rank[y]
  <2>1. Smaller(x) \cup {x} \in SUBSET Smaller(y) /\ x \notin Smaller(x)
    <3>1. x \in Nat /\ y \in Nat
      OBVIOUS
    <3>2. ASSUME NEW z \in S, z < x PROVE z < y
      BY <1>3, <3>1, <3>2
    <3>3. \A v, z : z \in Smaller(v) <=> z \in S /\ z < v
      OBVIOUS
    <3>4. ~(x < x)
      BY <3>1
    <3> HIDE DEF Smaller
    <3>. QED
      BY <1>3, <3>2, <3>3, <3>4
  <2>2. Cardinality(Smaller(x) \cup {x}) = Cardinality(Smaller(x)) + 1
    <3> HIDE DEF Smaller
    <3>. QED
      BY <1>2, <2>1, FS_AddElement
  <2>3. Cardinality(Smaller(x) \cup {x}) <= Cardinality(Smaller(y))
    <3> HIDE DEF Smaller
    <3>. QED
      BY <1>2, <2>1, FS_Subset
  <2>. QED
    BY <1>2, <2>2, <2>3
<1>4. rank \in [S -> 1 .. n]
  BY <1>1, <1>2
<1>5. \A x, y \in S : rank[x] = rank[y] => x = y
  <2> SUFFICES ASSUME NEW x \in S, NEW y \in S, rank[x] = rank[y], x # y PROVE FALSE
    OBVIOUS
  <2>1. x < y \/ y < x
    OBVIOUS
  <2>2. rank[x] \in 1 .. n /\ rank[y] \in 1 .. n
    BY <1>4
  <2> HIDE DEF rank, n
  <2>. QED
    BY <1>1, <1>3, <2>1, <2>2
<1>6. \A k \in 1 .. n : \E x \in S : rank[x] = k
  <2>1. IsFiniteSet(1 .. n) /\ Cardinality(1 .. n) = n
    <3> HIDE DEF n
    <3>. QED
      BY <1>1, UpTo
  <2>2. rank \in Injection(S, 1 .. n)
    <3> HIDE DEF rank, n
    <3>. QED
      BY <1>4, <1>5, Fun_IsInj
  <2>3. rank \in Surjection(S, 1 .. n)
    <3> HIDE DEF rank
    <3>. QED
      BY <2>1, <2>2, FS_Injection
  <2> HIDE DEF rank, n
  <2>. QED
    BY <2>3, Fun_SurjectionProperties
<1> DEFINE T == Sorted(S)
<1>7. DOMAIN T = 1 .. n /\ \A k \in 1 .. n : T[k] \in S /\ rank[T[k]] = k
  <2>1. DOMAIN T = 1 .. n /\ \A k \in 1 .. n : T[k] = CHOOSE x \in S : Cardinality(Smaller(x)) = k - 1
    BY DEF Sorted
  <2>2. ASSUME NEW k \in 1 .. n PROVE T[k] \in S /\ rank[T[k]] = k
    <3>1. \E x \in S : Cardinality(Smaller(x)) = k - 1
      <4>1. PICK x \in S : rank[x] = k
        BY <1>6
      <4>2. Cardinality(Smaller(x)) + 1 = k
        BY <4>1
      <4>. QED
        BY <1>1, <1>2, <4>2
    <3>2. T[k] \in S /\ Cardinality(Smaller(T[k])) = k - 1
      <4> HIDE DEF T, Smaller
      <4>. QED
        BY <2>1, <3>1
    <3>3. rank[T[k]] = Cardinality(Smaller(T[k])) + 1
      BY <3>2
    <3>. QED
      BY <1>1, <3>2, <3>3
  <2>. QED
    BY <2>1, <2>2
<1>8. T \in Seq(S)
  <2> DEFINE F(k) == CHOOSE x \in S : Cardinality(Smaller(x)) = k - 1
  <2>1. T = [k \in 1 .. n |-> F(k)]
    BY DEF Sorted
  <2> HIDE DEF T, n, rank, F
  <2>2. \A k \in 1 .. n : F(k) \in S
    BY <1>7, <2>1
  <2>. QED
    BY <1>1, <2>1, <2>2
<1>9. ToSet(T) = S
  <2>1. ToSet(T) = {T[k] : k \in 1 .. n}
    <3> HIDE DEF T, n
    <3>. QED
      BY <1>7 DEF ToSet
  <2>2. ASSUME NEW x \in S PROVE \E k \in 1 .. n : x = T[k]
    <3>1. rank[x] \in 1 .. n
      BY <1>4
    <3> HIDE DEF T, n, rank
    <3>. QED
      BY <1>5, <1>7, <3>1
  <2> HIDE DEF T, n, rank
  <2>. QED
    BY <1>7, <2>1, <2>2
<1>10. ASSUME NEW a \in DOMAIN T, NEW b \in DOMAIN T, a < b PROVE T[a] < T[b]
  <2>1. a \in 1 .. n /\ b \in 1 .. n /\ T[a] \in S /\ T[b] \in S /\ rank[T[a]] = a /\ rank[T[b]] = b
    BY <1>7
  <2>2. \A x, y \in S : x < y \/ x = y \/ y < x
    OBVIOUS
  <2>3. T[a] # T[b]
    BY <1>1, <1>10, <2>1
  <2>4. ASSUME T[b] < T[a] PROVE FALSE
    <3>1. rank[T[b]] < rank[T[a]]
      <4> HIDE DEF T, n, rank
      <4>. QED
        BY <1>3, <2>1, <2>4
    <3>2. b < a /\ a \in Int /\ b \in Int
      <4> HIDE DEF T, n, rank
      <4>. QED
        BY <1>1, <2>1, <3>1
    <3>. QED
      BY <1>10, <3>2
  <2> HIDE DEF T, n, rank
  <2>. QED
    BY <2>1, <2>2, <2>3, <2>4
<1>. QED
  BY <1>8, <1>9, <1>10

-----------------------------------------------------------------------------
\* The graph of the nodes being normalised

Node == [id : Nat, deps : Seq(Nat), objective : Nat]

\* What Refused looks for, without counting.
Clean ==
  /\ nodes # <<>>
  /\ \A i, j \in DOMAIN nodes : nodes[i].id = nodes[j].id => i = j
  /\ \A i \in DOMAIN nodes : /\ nodes[i].id \notin ToSet(nodes[i].deps)
                             /\ ToSet(nodes[i].deps) \subseteq Ids

\* Comparing the number of ids with the number of nodes finds every duplicate.
LEMMA RefusedIsUnclean ==
  ASSUME nodes \in Seq(Node)
  PROVE  Refused <=> ~Clean
<1> DEFINE P == DOMAIN nodes
           f == [i \in P |-> nodes[i].id]
<1>1. P = 1 .. Len(nodes) /\ Len(nodes) \in Nat
  OBVIOUS
<1>2. IsFiniteSet(P) /\ Cardinality(P) = Len(nodes)
  BY <1>1, UpTo
<1>3. f \in Surjection(P, Ids)
  <2>1. f \in [P -> Ids] /\ \A t \in Ids : \E s \in P : f[s] = t
    BY DEF Ids
  <2> HIDE DEF f, P
  <2>. QED
    BY <2>1, Fun_IsSurj
<1>4. Cardinality(Ids) = Cardinality(P) <=> f \in Injection(P, Ids)
  <2> HIDE DEF f, P
  <2>. QED
    BY <1>2, <1>3, FS_Surjection
<1>5. f \in Injection(P, Ids) <=> \A i, j \in P : nodes[i].id = nodes[j].id => i = j
  <2>1. f \in [P -> Ids] /\ \A i \in P : f[i] = nodes[i].id
    BY DEF Ids
  <2>2. f \in Injection(P, Ids) => \A i, j \in P : f[i] = f[j] => i = j
    <3> HIDE DEF f, P
    <3>. QED
      BY Fun_InjectionProperties
  <2>3. (\A i, j \in P : f[i] = f[j] => i = j) => f \in Injection(P, Ids)
    <3> HIDE DEF f, P
    <3>. QED
      BY <2>1, Fun_IsInj
  <2> HIDE DEF f, P
  <2>. QED
    BY <2>1, <2>2, <2>3
<1>6. Cardinality(Ids) = Len(nodes) <=> \A i, j \in P : nodes[i].id = nodes[j].id => i = j
  <2> HIDE DEF f, P
  <2>. QED
    BY <1>2, <1>4, <1>5
<1>. QED
  BY <1>6 DEF Refused, Clean

\* Where ids are unique, the positions looked up by id are the nodes that carry it.
LEMMA DependsAre ==
  ASSUME nodes \in Seq(Node), Clean, NEW i \in DOMAIN nodes
  PROVE  /\ Depends(i) = {j \in DOMAIN nodes : nodes[j].id \in ToSet(nodes[i].deps)}
         /\ i \notin Depends(i)
<1>1. ASSUME NEW id \in ToSet(nodes[i].deps)
      PROVE  /\ PositionOf(id) \in DOMAIN nodes
             /\ nodes[PositionOf(id)].id = id
  <2>1. \E j \in DOMAIN nodes : nodes[j].id = id
    BY DEF Clean, Ids
  <2>. QED
    BY <2>1 DEF PositionOf
<1>2. ASSUME NEW j \in DOMAIN nodes, nodes[j].id \in ToSet(nodes[i].deps)
      PROVE  PositionOf(nodes[j].id) = j
  <2> HIDE DEF PositionOf
  <2>. QED
    BY <1>1, <1>2 DEF Clean
<1>3. \A j : j \in Depends(i) <=> \E id \in ToSet(nodes[i].deps) : j = PositionOf(id)
  BY DEF Depends
<1>4. \A j : j \in Depends(i) <=> j \in DOMAIN nodes /\ nodes[j].id \in ToSet(nodes[i].deps)
  BY <1>1, <1>2, <1>3
<1>5. i \notin Depends(i)
  BY <1>4 DEF Clean
<1>. QED
  BY <1>4, <1>5

\* Sets of positions are finite.
LEMMA PositionsFinite ==
  ASSUME nodes \in Seq(Node), NEW B \in SUBSET DOMAIN nodes
  PROVE  /\ DOMAIN nodes = 1 .. Len(nodes) /\ Len(nodes) \in Nat
         /\ B \in SUBSET Nat /\ IsFiniteSet(B) /\ Cardinality(B) \in Nat
         /\ Cardinality(B) <= Len(nodes)
         /\ Cardinality(B) = Len(nodes) => B = DOMAIN nodes
<1>1. DOMAIN nodes = 1 .. Len(nodes) /\ Len(nodes) \in Nat
  OBVIOUS
<1>2. IsFiniteSet(1 .. Len(nodes)) /\ Cardinality(1 .. Len(nodes)) = Len(nodes)
  BY <1>1, UpTo
<1>3. B \in SUBSET (1 .. Len(nodes))
  BY <1>1
<1>4. /\ IsFiniteSet(B) /\ Cardinality(B) <= Len(nodes)
      /\ Cardinality(1 .. Len(nodes)) = Cardinality(B) => 1 .. Len(nodes) = B
  BY <1>2, <1>3, FS_Subset
<1>5. Cardinality(B) \in Nat
  BY <1>4, FS_CardinalityType
<1>. QED
  BY <1>1, <1>2, <1>3, <1>4, <1>5

\* What can go when the nodes in B have gone, and the one that goes first.
Free(B)     == {i \in (DOMAIN nodes) \ B : Depends(i) \subseteq B}
Takes(B, i) == i \in Free(B) /\ \A j \in Free(B) : i <= j

\* Sets of nodes that contain what their members depend on.
Closed(B) == \A i \in B : Depends(i) \subseteq B

\* Counting down the indegrees finds the nodes that c was the last to hold back.
LEMMA NextFree ==
  ASSUME nodes \in Seq(Node), Clean, NEW B \in SUBSET DOMAIN nodes, Closed(B),
         NEW c \in Free(B), NEW deg \in [DOMAIN nodes -> Nat],
         \A i \in DOMAIN nodes : deg[i] = Cardinality(Depends(i) \ B),
         NEW left \in [DOMAIN nodes -> Int],
         \A i \in DOMAIN nodes : left[i] = deg[i] - (IF c \in Depends(i) THEN 1 ELSE 0)
  PROVE  /\ left \in [DOMAIN nodes -> Nat]
         /\ \A i \in DOMAIN nodes : left[i] = Cardinality(Depends(i) \ (B \cup {c}))
         /\ Free(B \cup {c}) = (Free(B) \ {c}) \cup {i \in DOMAIN nodes : deg[i] > 0 /\ left[i] = 0}
         /\ Closed(B \cup {c})
<1>1. c \in DOMAIN nodes /\ c \notin B /\ Depends(c) \subseteq B
  BY DEF Free
<1>2. ASSUME NEW i \in DOMAIN nodes
      PROVE  /\ IsFiniteSet(Depends(i) \ B)
             /\ IsFiniteSet(Depends(i) \ (B \cup {c}))
             /\ left[i] = Cardinality(Depends(i) \ (B \cup {c})) /\ left[i] \in Nat
             /\ deg[i] = 0 <=> Depends(i) \subseteq B
             /\ left[i] = 0 <=> Depends(i) \subseteq B \cup {c}
  <2>1. Depends(i) \ B \in SUBSET DOMAIN nodes /\ Depends(i) \ (B \cup {c}) \in SUBSET DOMAIN nodes
    BY DependsAre
  <2>2. IsFiniteSet(Depends(i) \ B) /\ IsFiniteSet(Depends(i) \ (B \cup {c}))
    BY <2>1, PositionsFinite
  <2>3. Depends(i) \ (B \cup {c}) = (Depends(i) \ B) \ {c}
    OBVIOUS
  <2>4. Cardinality((Depends(i) \ B) \ {c}) =
          IF c \in Depends(i) \ B THEN Cardinality(Depends(i) \ B) - 1 ELSE Cardinality(Depends(i) \ B)
    BY <2>2, FS_RemoveElement
  <2>5. left[i] = Cardinality(Depends(i) \ (B \cup {c}))
    <3>1. deg[i] \in Nat /\ deg[i] = Cardinality(Depends(i) \ B)
      OBVIOUS
    <3>2. left[i] = IF c \in Depends(i) THEN deg[i] - 1 ELSE deg[i]
      BY <3>1
    <3>3. c \in Depends(i) \ B <=> c \in Depends(i)
      BY <1>1
    <3>. QED
      BY <2>3, <2>4, <3>1, <3>2, <3>3
  <2>6. left[i] \in Nat
    BY <2>2, <2>5, FS_CardinalityType
  <2>7. /\ deg[i] = 0 <=> Depends(i) \ B = {}
        /\ left[i] = 0 <=> Depends(i) \ (B \cup {c}) = {}
    BY <2>2, <2>5, FS_EmptySet
  <2>. QED
    BY <2>2, <2>5, <2>6, <2>7
<1>3. left \in [DOMAIN nodes -> Nat]
  BY <1>2
<1>4. Closed(B \cup {c})
  BY <1>1 DEF Closed
<1>5. ASSUME NEW i \in DOMAIN nodes
      PROVE  i \in Free(B \cup {c}) <=> (i \in Free(B) /\ i # c) \/ (deg[i] > 0 /\ left[i] = 0)
  <2>1. deg[i] > 0 <=> ~(Depends(i) \subseteq B)
    <3>1. deg[i] \in Nat
      OBVIOUS
    <3>2. deg[i] = 0 <=> Depends(i) \subseteq B
      BY <1>2
    <3>. QED
      BY <3>1, <3>2
  <2>2. deg[i] > 0 => i \notin B /\ i # c
    BY <1>1, <2>1 DEF Closed
  <2>3. i \in Free(B \cup {c}) <=> i \notin B /\ i # c /\ Depends(i) \subseteq B \cup {c}
    BY DEF Free
  <2>4. i \in Free(B) <=> i \notin B /\ Depends(i) \subseteq B
    BY DEF Free
  <2>. QED
    BY <1>2, <2>1, <2>2, <2>3, <2>4
<1>6. Free(B \cup {c}) \subseteq DOMAIN nodes /\ Free(B) \subseteq DOMAIN nodes
  BY DEF Free
<1>. QED
  BY <1>2, <1>3, <1>4, <1>5, <1>6

-----------------------------------------------------------------------------
\* The loop

Popped    == ToSet(ordered)
Before(k) == {ordered[j] : j \in 1 .. k - 1}

\* The loop has popped a prefix of the first order, its indegrees count what
\* has not been popped, and the heap holds the nodes that can go.
Looping ==
  /\ ordered \in Seq(DOMAIN nodes)
  /\ Cardinality(Popped) = Len(ordered)
  /\ Closed(Popped)
  /\ indegree \in [DOMAIN nodes -> Nat]
  /\ \A i \in DOMAIN nodes : indegree[i] = Cardinality(Depends(i) \ Popped)
  /\ ready = Free(Popped)
  /\ \A k \in DOMAIN ordered : Takes(Before(k), ordered[k])

\* In the second pass the nodes are popped as they stand.
InPlace == pass = 2 => \A k \in DOMAIN ordered : ordered[k] = k

\* A pop takes the first of the nodes that can go.
LEMMA PopTakes ==
  ASSUME nodes \in Seq(Node), ready \subseteq DOMAIN nodes, ready # {}
  PROVE  LET current == CHOOSE i \in ready : \A j \in ready : i <= j
         IN  current \in ready /\ \A j \in ready : current <= j
<1>1. ready \in SUBSET Nat /\ IsFiniteSet(ready)
  BY PositionsFinite
<1>2. \E i \in ready : \A j \in ready : i <= j
  BY <1>1, LeastExists
<1>. QED
  BY <1>2

\* The graph does not change while it is popped.
LEMMA SameGraph ==
  ASSUME nodes' = nodes
  PROVE  /\ Clean' <=> Clean
         /\ \A B : Free(B)' = Free(B) /\ (Closed(B)' <=> Closed(B))
         /\ \A B, i : Takes(B, i)' <=> Takes(B, i)
         /\ \A i : Depends(i)' = Depends(i)
<1>0. \A id : PositionOf(id)' = PositionOf(id)
  BY DEF PositionOf
<1>1. \A i : Depends(i)' = Depends(i)
  BY <1>0 DEF Depends
<1>2. \A B : Free(B)' = Free(B) /\ (Closed(B)' <=> Closed(B))
  BY <1>1, Zenon DEF Free, Closed
<1>3. \A B, i : Takes(B, i)' <=> Takes(B, i)
  BY <1>2, Zenon DEF Takes
<1>4. Clean' <=> Clean
  BY DEF Clean, Ids
<1>. QED
  BY <1>1, <1>2, <1>3, <1>4

LEMMA PopKeepsLoop ==
  ASSUME nodes \in Seq(Node), Clean, Looping, Pop
  PROVE  Looping'
<1> DEFINE c == CHOOSE i \in ready : \A j \in ready : i <= j
           left == [i \in DOMAIN nodes |-> indegree[i] - (IF c \in Depends(i) THEN 1 ELSE 0)]
<1>1. /\ ready # {} /\ nodes' = nodes
      /\ ordered' = Append(ordered, c)
      /\ indegree' = left
      /\ ready' = (ready \ {c}) \cup {i \in DOMAIN nodes : indegree[i] > 0 /\ left[i] = 0}
  BY DEF Pop
<1>2. c \in Free(Popped) /\ \A j \in Free(Popped) : c <= j
  <2>1. ready \subseteq DOMAIN nodes /\ ready = Free(Popped)
    BY DEF Looping, Free
  <2>. QED
    BY <1>1, <2>1, PopTakes
<1> HIDE DEF c
<1>3. Popped \in SUBSET DOMAIN nodes /\ c \in DOMAIN nodes /\ c \notin Popped
  BY <1>2 DEF Looping, Popped, ToSet, Free
<1>4. /\ left \in [DOMAIN nodes -> Nat]
      /\ \A i \in DOMAIN nodes : left[i] = Cardinality(Depends(i) \ (Popped \cup {c}))
      /\ Free(Popped \cup {c}) = (Free(Popped) \ {c}) \cup {i \in DOMAIN nodes : indegree[i] > 0 /\ left[i] = 0}
      /\ Closed(Popped \cup {c})
  <2>1. /\ left \in [DOMAIN nodes -> Int]
        /\ \A i \in DOMAIN nodes : left[i] = indegree[i] - (IF c \in Depends(i) THEN 1 ELSE 0)
    BY DEF Looping
  <2> HIDE DEF left
  <2>2. /\ indegree \in [DOMAIN nodes -> Nat] /\ Closed(Popped)
        /\ \A i \in DOMAIN nodes : indegree[i] = Cardinality(Depends(i) \ Popped)
    BY DEF Looping
  <2> HIDE DEF Popped
  <2>. QED
    BY <1>2, <1>3, <2>1, <2>2, NextFree
<1> HIDE DEF left
<1>5. /\ ordered' \in Seq(DOMAIN nodes) /\ Len(ordered') = Len(ordered) + 1
      /\ DOMAIN ordered' = 1 .. Len(ordered) + 1 /\ DOMAIN ordered = 1 .. Len(ordered)
      /\ Len(ordered) \in Nat
      /\ \A k \in 1 .. Len(ordered) : ordered'[k] = ordered[k]
      /\ ordered'[Len(ordered) + 1] = c
  BY <1>1, <1>3 DEF Looping
<1>6. Popped' = Popped \cup {c}
  BY <1>5 DEF Popped, ToSet
<1>7. ASSUME NEW k \in DOMAIN ordered PROVE Before(k)' = Before(k)
  <2>1. \A j \in 1 .. k - 1 : ordered'[j] = ordered[j]
    BY <1>5
  <2>. QED
    BY <2>1 DEF Before
<1>8. ASSUME NEW k, k = Len(ordered) + 1 PROVE Before(k)' = Popped
  <2>1. 1 .. k - 1 = DOMAIN ordered /\ \A j \in 1 .. k - 1 : ordered'[j] = ordered[j]
    BY <1>5, <1>8
  <2>. QED
    BY <2>1 DEF Before, Popped, ToSet
<1>9. Cardinality(Popped \cup {c}) = Len(ordered) + 1
  <2>1. IsFiniteSet(Popped)
    BY <1>3, PositionsFinite
  <2>. QED
    BY <1>3, <2>1, FS_AddElement DEF Looping
<1>10. /\ \A B : Free(B)' = Free(B) /\ (Closed(B)' <=> Closed(B))
       /\ \A B, i : Takes(B, i)' <=> Takes(B, i)
       /\ \A i : Depends(i)' = Depends(i)
  BY <1>1, SameGraph
<1>11. \A k \in DOMAIN ordered' : Takes(Before(k), ordered[k])'
  <2> TAKE k \in DOMAIN ordered'
  <2>1. CASE k \in DOMAIN ordered
    <3>1. Takes(Before(k), ordered[k])
      BY <2>1 DEF Looping
    <3>2. Before(k)' = Before(k) /\ ordered'[k] = ordered[k]
      BY <1>5, <1>7, <2>1
    <3>. QED
      BY <1>10, <3>1, <3>2 DEF Takes
  <2>2. CASE k = Len(ordered) + 1
    <3>1. Before(k)' = Popped /\ ordered'[k] = c
      BY <1>5, <1>8, <2>2
    <3>. QED
      BY <1>2, <1>10, <3>1 DEF Takes
  <2>. QED
    BY <1>5, <2>1, <2>2
<1>. QED
  BY <1>1, <1>4, <1>5, <1>6, <1>9, <1>10, <1>11 DEF Looping

\* Nothing is popped twice, and everything only after what it depends on.
LEMMA PoppedInOrder ==
  ASSUME nodes \in Seq(Node), Looping
  PROVE  /\ DOMAIN ordered = 1 .. Len(ordered) /\ Len(ordered) \in Nat
         /\ \A k \in DOMAIN ordered : /\ ordered[k] \in DOMAIN nodes
                                      /\ ordered[k] \notin Before(k)
                                      /\ Depends(ordered[k]) \subseteq Before(k)
         /\ \A j, k \in DOMAIN ordered : ordered[j] = ordered[k] => j = k
         /\ \A j, k \in DOMAIN ordered : ordered[j] \in Depends(ordered[k]) => j < k
<1>1. DOMAIN ordered = 1 .. Len(ordered) /\ Len(ordered) \in Nat
  BY DEF Looping
<1>2. \A k \in DOMAIN ordered : /\ ordered[k] \in DOMAIN nodes
                                /\ ordered[k] \notin Before(k)
                                /\ Depends(ordered[k]) \subseteq Before(k)
  BY DEF Looping, Takes, Free
<1>3. ASSUME NEW j \in DOMAIN ordered, NEW k \in DOMAIN ordered, j < k PROVE ordered[j] # ordered[k]
  <2>1. j \in 1 .. k - 1
    BY <1>1, <1>3
  <2>. QED
    BY <1>2, <2>1 DEF Before
<1>4. \A j, k \in DOMAIN ordered : j < k \/ j = k \/ k < j
  BY <1>1
<1>5. \A j, k \in DOMAIN ordered : ordered[j] = ordered[k] => j = k
  BY <1>3, <1>4
<1>6. ASSUME NEW j \in DOMAIN ordered, NEW k \in DOMAIN ordered, ordered[j] \in Depends(ordered[k])
      PROVE  j < k
  <2>1. PICK i \in 1 .. k - 1 : ordered[i] = ordered[j]
    BY <1>2, <1>6 DEF Before
  <2>2. i \in DOMAIN ordered
    BY <1>1, <2>1
  <2>3. i = j
    BY <1>5, <2>1, <2>2
  <2>. QED
    BY <1>1, <2>1, <2>3
<1>. QED
  BY <1>1, <1>2, <1>5, <1>6

\* A loop that has popped as many nodes as there are has popped them all.
LEMMA AllPopped ==
  ASSUME nodes \in Seq(Node), Looping, Len(ordered) = Len(nodes)
  PROVE  Popped = DOMAIN nodes /\ DOMAIN ordered = DOMAIN nodes
<1>1. Popped \in SUBSET DOMAIN nodes
  BY PoppedInOrder DEF Popped, ToSet
<1>2. Cardinality(Popped) = Len(nodes)
  BY DEF Looping
<1>. QED
  BY <1>1, <1>2, PoppedInOrder, PositionsFinite

\* What the renumbering makes of the nodes.
LEMMA RenumberedNodes ==
  ASSUME nodes \in Seq(Node), Looping, Len(ordered) = Len(nodes)
  PROVE  /\ Renumbered \in Seq(Node) /\ Len(Renumbered) = Len(nodes)
         /\ DOMAIN Renumbered = DOMAIN nodes
         /\ \A k \in DOMAIN nodes :
              /\ Renumbered[k].id = k
              /\ Renumbered[k].objective = nodes[ordered[k]].objective
              /\ ToSet(Renumbered[k].deps) = {j \in DOMAIN nodes : ordered[j] \in Depends(ordered[k])}
              /\ ToSet(Renumbered[k].deps) \subseteq 1 .. k - 1
              /\ \A a, b \in DOMAIN Renumbered[k].deps : a < b => Renumbered[k].deps[a] < Renumbered[k].deps[b]
<1> DEFINE Back(k) == {j \in DOMAIN ordered : ordered[j] \in Depends(ordered[k])}
           row(k)  == [id |-> k, objective |-> nodes[ordered[k]].objective, deps |-> Sorted(Back(k))]
<1>1. DOMAIN ordered = DOMAIN nodes /\ DOMAIN nodes = 1 .. Len(nodes) /\ Len(nodes) \in Nat
  BY AllPopped
<1>2. Renumbered = [k \in 1 .. Len(nodes) |-> row(k)]
  BY <1>1 DEF Renumbered
<1>3. ASSUME NEW k \in DOMAIN nodes
      PROVE  /\ Sorted(Back(k)) \in Seq(Nat) /\ ToSet(Sorted(Back(k))) = Back(k)
             /\ \A a, b \in DOMAIN Sorted(Back(k)) : a < b => Sorted(Back(k))[a] < Sorted(Back(k))[b]
             /\ Back(k) \subseteq 1 .. k - 1
             /\ Back(k) = {j \in DOMAIN nodes : ordered[j] \in Depends(ordered[k])}
  <2>1. Back(k) \in SUBSET DOMAIN nodes
    BY <1>1
  <2>2. Back(k) \in SUBSET Nat /\ IsFiniteSet(Back(k))
    <3> HIDE DEF Back
    <3>. QED
      BY <2>1, PositionsFinite
  <2>3. /\ Sorted(Back(k)) \in Seq(Back(k)) /\ ToSet(Sorted(Back(k))) = Back(k)
        /\ \A a, b \in DOMAIN Sorted(Back(k)) : a < b => Sorted(Back(k))[a] < Sorted(Back(k))[b]
    <3> HIDE DEF Back
    <3>. QED
      BY <2>2, SortedProperties
  <2>4. Sorted(Back(k)) \in Seq(Nat)
    <3> HIDE DEF Back
    <3>. QED
      BY <2>2, <2>3
  <2>5. ASSUME NEW j \in Back(k) PROVE j \in 1 .. k - 1
    <3>1. j < k
      BY <1>1, PoppedInOrder
    <3>. QED
      BY <1>1, <2>1, <3>1
  <2>6. Back(k) = {j \in DOMAIN nodes : ordered[j] \in Depends(ordered[k])}
    BY <1>1
  <2>. QED
    BY <2>3, <2>4, <2>5, <2>6
<1>4. ASSUME NEW k \in 1 .. Len(nodes) PROVE row(k) \in Node
  <2>1. k \in Nat /\ ordered[k] \in DOMAIN nodes
    BY <1>1, PoppedInOrder
  <2>2. nodes[ordered[k]].objective \in Nat
    <3>1. nodes[ordered[k]] \in Node
      BY <2>1
    <3>. QED
      BY <3>1 DEF Node
  <2>3. Sorted(Back(k)) \in Seq(Nat)
    BY <1>1, <1>3
  <2> HIDE DEF Back
  <2>. QED
    BY <2>1, <2>2, <2>3 DEF Node
<1>5. Renumbered \in Seq(Node) /\ Len(Renumbered) = Len(nodes) /\ DOMAIN Renumbered = DOMAIN nodes
  <2> HIDE DEF row
  <2>. QED
    BY <1>1, <1>2, <1>4
<1>6. ASSUME NEW k \in DOMAIN nodes
      PROVE  /\ Renumbered[k].id = k
             /\ Renumbered[k].objective = nodes[ordered[k]].objective
             /\ Renumbered[k].deps = Sorted(Back(k))
  <2>1. Renumbered[k] = row(k)
    <3> HIDE DEF row
    <3>. QED
      BY <1>1, <1>2
  <2> HIDE DEF Back
  <2>. QED
    BY <2>1
<1> HIDE DEF Back, row
<1>. QED
  BY <1>3, <1>5, <1>6

-----------------------------------------------------------------------------
\* The first pass against the reference

Message == [id : Nat, deps : Seq(Nat)]

\* The first pass works on the answer itself.
Copy(d)  == [i \in DOMAIN d |-> [id |-> d[i].id, deps |-> d[i].deps, objective |-> i]]
Original == nodes = Copy(draft)

LEMMA CopyNodes ==
  ASSUME NEW d \in Seq(Message)
  PROVE  /\ Copy(d) \in Seq(Node) /\ Len(Copy(d)) = Len(d) /\ DOMAIN Copy(d) = DOMAIN d
         /\ \A i \in DOMAIN d : /\ Copy(d)[i].id = d[i].id
                                /\ Copy(d)[i].deps = d[i].deps
                                /\ Copy(d)[i].objective = i
<1> DEFINE copy(i) == [id |-> d[i].id, deps |-> d[i].deps, objective |-> i]
<1>1. DOMAIN d = 1 .. Len(d) /\ Len(d) \in Nat
  OBVIOUS
<1>2. ASSUME NEW i \in DOMAIN d PROVE copy(i) \in Node
  <2>1. d[i] \in Message /\ i \in Nat
    BY <1>1
  <2>. QED
    BY <2>1 DEF Message, Node
<1>3. \A i \in DOMAIN d : /\ copy(i).id = d[i].id /\ copy(i).deps = d[i].deps
                          /\ copy(i).objective = i
  OBVIOUS
<1>4. Copy(d) = [i \in DOMAIN d |-> copy(i)]
  BY DEF Copy
<1> HIDE DEF copy
<1>. QED
  BY <1>1, <1>2, <1>3, <1>4

LEMMA OriginalNodes ==
  ASSUME draft \in Seq(Message), Original
  PROVE  /\ nodes \in Seq(Node) /\ Len(nodes) = Len(draft) /\ DOMAIN nodes = DOMAIN draft
         /\ \A i \in DOMAIN draft : /\ nodes[i].id = draft[i].id
                                    /\ nodes[i].deps = draft[i].deps
                                    /\ nodes[i].objective = i
BY CopyNodes DEF Original

LEMMA OriginalDepends ==
  ASSUME draft \in Seq(Message), Original, Clean
  PROVE  \A i \in DOMAIN draft : Depends(i) = Needs(draft, i)
<1> SUFFICES ASSUME NEW i \in DOMAIN draft PROVE Depends(i) = Needs(draft, i)
  OBVIOUS
<1>1. Depends(i) = {j \in DOMAIN nodes : nodes[j].id \in ToSet(nodes[i].deps)}
  BY OriginalNodes, DependsAre
<1>. QED
  BY <1>1, OriginalNodes DEF Needs

\* An answer that Refused turns down is not well-formed.
LEMMA UncleanIsMalformed ==
  ASSUME draft \in Seq(Message), Original, ~Clean
  PROVE  ~WellFormed(draft)
<1>1. CASE nodes = <<>>
  <2>1. draft = <<>>
    BY <1>1, OriginalNodes
  <2>. QED
    BY <2>1 DEF WellFormed
<1>2. ASSUME NEW i \in DOMAIN nodes, NEW j \in DOMAIN nodes, nodes[i].id = nodes[j].id, i # j
      PROVE  ~WellFormed(draft)
  BY <1>2, OriginalNodes DEF WellFormed
<1>3. ASSUME NEW i \in DOMAIN nodes, nodes[i].id \in ToSet(nodes[i].deps)
      PROVE  ~WellFormed(draft)
  <2>1. i \in Needs(draft, i) /\ i \in DOMAIN draft
    BY <1>3, OriginalNodes DEF Needs
  <2>2. {i} \in (SUBSET DOMAIN draft) \ {{}} /\ \A j \in {i} : Needs(draft, j) \cap {i} # {}
    BY <2>1
  <2>. QED
    BY <2>2 DEF WellFormed
<1>4. ASSUME NEW i \in DOMAIN nodes, ~(ToSet(nodes[i].deps) \subseteq Ids)
      PROVE  ~WellFormed(draft)
  <2>1. Ids = {draft[j].id : j \in DOMAIN draft}
    BY OriginalNodes DEF Ids
  <2>. QED
    BY <1>4, <2>1, OriginalNodes DEF WellFormed
<1>. QED
  BY <1>1, <1>2, <1>3, <1>4 DEF Clean

\* If the loop runs dry early, the nodes left over hold each other back.
LEMMA StuckIsMalformed ==
  ASSUME draft \in Seq(Message), Original, Clean, Looping, ready = {}, Len(ordered) # Len(nodes)
  PROVE  ~WellFormed(draft)
<1> DEFINE S == DOMAIN nodes \ Popped
<1>1. nodes \in Seq(Node) /\ DOMAIN nodes = DOMAIN draft
  BY OriginalNodes
<1>2. S # {} /\ S \in SUBSET DOMAIN draft
  <2>1. Popped \subseteq DOMAIN nodes
    BY <1>1, PoppedInOrder DEF Popped, ToSet
  <2>2. Popped # DOMAIN nodes
    <3>1. DOMAIN nodes = 1 .. Len(nodes) /\ Len(nodes) \in Nat
      BY <1>1
    <3>2. Cardinality(DOMAIN nodes) = Len(nodes)
      BY <3>1, UpTo
    <3>. QED
      BY <3>2 DEF Looping
  <2>. QED
    BY <1>1, <2>1, <2>2
<1>3. ASSUME NEW i \in S PROVE Needs(draft, i) \cap S # {}
  <2>1. ~(Depends(i) \subseteq Popped)
    BY DEF Looping, Free
  <2>2. Depends(i) \subseteq DOMAIN nodes
    BY <1>1, DependsAre
  <2>3. Depends(i) = Needs(draft, i)
    BY <1>2, OriginalDepends
  <2>. QED
    BY <2>1, <2>2, <2>3
<1> HIDE DEF S
<1>. QED
  BY <1>2, <1>3 DEF WellFormed

\* If the loop pops every node, the answer is well-formed and this is its
\* first order.
LEMMA DrainedIsFirstOrder ==
  ASSUME draft \in Seq(Message), Original, Clean, Looping, Len(ordered) = Len(nodes)
  PROVE  WellFormed(draft) /\ FirstOrder(draft, ordered)
<1>1. /\ nodes \in Seq(Node) /\ DOMAIN nodes = DOMAIN draft /\ Len(nodes) = Len(draft)
      /\ \A i \in DOMAIN draft : nodes[i].id = draft[i].id /\ nodes[i].deps = draft[i].deps
  BY OriginalNodes
<1>2. \A i \in DOMAIN draft : Depends(i) = Needs(draft, i)
  BY OriginalDepends
<1>3. /\ Popped = DOMAIN draft /\ DOMAIN ordered = DOMAIN draft
      /\ DOMAIN ordered = 1 .. Len(ordered) /\ Len(ordered) \in Nat
  BY <1>1, AllPopped, PoppedInOrder
<1>4. ASSUME NEW S \in (SUBSET DOMAIN draft) \ {{}}
      PROVE  \E i \in S : Needs(draft, i) \cap S = {}
  <2> DEFINE K == {k \in DOMAIN ordered : ordered[k] \in S}
  <2>1. K \in SUBSET DOMAIN nodes /\ K # {}
    <3>1. PICK i \in S : i \in Popped
      BY <1>3
    <3>2. PICK k \in DOMAIN ordered : ordered[k] = i
      BY <3>1 DEF Popped, ToSet
    <3>. QED
      BY <1>1, <1>3, <3>2
  <2>2. PICK k \in K : \A j \in K : k <= j
    <3>1. K \in SUBSET Nat /\ IsFiniteSet(K)
      <4> HIDE DEF K
      <4>. QED
        BY <1>1, <2>1, PositionsFinite
    <3> HIDE DEF K
    <3>. QED
      BY <2>1, <3>1, LeastExists
  <2>3. ordered[k] \in S /\ Depends(ordered[k]) \subseteq Before(k) /\ ordered[k] \in DOMAIN draft
    BY <1>1, PoppedInOrder
  <2>4. ASSUME NEW i \in Before(k), i \in S PROVE FALSE
    <3>1. PICK j \in 1 .. k - 1 : i = ordered[j]
      BY DEF Before
    <3>2. j \in K /\ j < k /\ j \in Int /\ k \in Int
      BY <1>3, <2>4, <3>1
    <3>. QED
      BY <2>2, <3>2
  <2>. QED
    BY <1>2, <2>3, <2>4
<1>5. WellFormed(draft)
  <2>1. draft # <<>>
    BY <1>1 DEF Clean
  <2>2. \A i, j \in DOMAIN draft : draft[i].id = draft[j].id => i = j
    BY <1>1 DEF Clean
  <2>3. \A i \in DOMAIN draft : ToSet(draft[i].deps) \subseteq {draft[j].id : j \in DOMAIN draft}
    <3>1. Ids = {draft[j].id : j \in DOMAIN draft}
      BY <1>1 DEF Ids
    <3>. QED
      BY <1>1, <3>1 DEF Clean
  <2>. QED
    BY <1>4, <2>1, <2>2, <2>3 DEF WellFormed
<1>6. ASSUME NEW k \in DOMAIN ordered
      PROVE  LET before == {ordered[j] : j \in 1 .. k - 1}
                 free   == {i \in (DOMAIN draft) \ before : Needs(draft, i) \subseteq before}
             IN  ordered[k] \in free /\ \A i \in free : ordered[k] <= i
  <2>1. Takes(Before(k), ordered[k])
    BY DEF Looping
  <2>2. Free(Before(k)) = {i \in (DOMAIN draft) \ Before(k) : Needs(draft, i) \subseteq Before(k)}
    BY <1>1, <1>2 DEF Free
  <2>. QED
    BY <2>1, <2>2 DEF Takes, Before
<1>. QED
  BY <1>1, <1>5, <1>6 DEF FirstOrder

-----------------------------------------------------------------------------
\* What the first pass leaves, and the second pass keeps

Settles(d, ns) ==
  /\ WellFormed(d)
  /\ FirstOrder(d, [k \in DOMAIN ns |-> ns[k].objective])
  /\ \A k \in DOMAIN ns :
       /\ ns[k].id = k
       /\ {ns[j].objective : j \in ToSet(ns[k].deps)} = Needs(d, ns[k].objective)
       /\ \A a, b \in DOMAIN ns[k].deps : a < b => ns[k].deps[a] < ns[k].deps[b]
       /\ ToSet(ns[k].deps) \subseteq 1 .. k - 1

\* Settled nodes are not refused, and each depends on earlier ones.
LEMMA SettledDepends ==
  ASSUME nodes \in Seq(Node), draft \in Seq(Message), Settles(draft, nodes)
  PROVE  /\ Clean
         /\ \A k \in DOMAIN nodes : Depends(k) = ToSet(nodes[k].deps) /\ Depends(k) \subseteq 1 .. k - 1
<1>1. DOMAIN nodes = 1 .. Len(nodes) /\ Len(nodes) \in Nat
  OBVIOUS
<1>2. /\ \A k \in DOMAIN nodes : nodes[k].id = k /\ ToSet(nodes[k].deps) \subseteq 1 .. k - 1
      /\ draft # <<>> /\ Len([k \in DOMAIN nodes |-> nodes[k].objective]) = Len(draft)
  BY DEF Settles, WellFormed, FirstOrder
<1>3. nodes # <<>>
  <2>1. Len([k \in 1 .. Len(nodes) |-> nodes[k].objective]) = Len(nodes)
    BY <1>1
  <2>2. Len(draft) # 0
    BY <1>2
  <2>. QED
    BY <1>1, <1>2, <2>1, <2>2
<1>4. ASSUME NEW k \in DOMAIN nodes, NEW id \in ToSet(nodes[k].deps)
      PROVE  id \in DOMAIN nodes /\ id # k
  <2>1. id \in 1 .. k - 1 /\ k \in 1 .. Len(nodes)
    BY <1>1, <1>2
  <2>. QED
    BY <1>1, <2>1
<1>5. Ids = DOMAIN nodes
  BY <1>2 DEF Ids
<1>6. Clean
  BY <1>2, <1>3, <1>4, <1>5 DEF Clean
<1>7. ASSUME NEW k \in DOMAIN nodes PROVE Depends(k) = ToSet(nodes[k].deps)
  <2>1. Depends(k) = {j \in DOMAIN nodes : nodes[j].id \in ToSet(nodes[k].deps)}
    BY <1>6, DependsAre
  <2>. QED
    BY <1>2, <1>4, <2>1
<1>. QED
  BY <1>2, <1>6, <1>7

\* The first pass settles the nodes.
LEMMA FirstPassSettles ==
  ASSUME draft \in Seq(Message), Original, Clean, Looping, Len(ordered) = Len(nodes)
  PROVE  Settles(draft, Renumbered)
<1>1. /\ nodes \in Seq(Node) /\ DOMAIN nodes = DOMAIN draft /\ Len(nodes) = Len(draft)
      /\ \A i \in DOMAIN draft : nodes[i].objective = i
      /\ DOMAIN nodes = 1 .. Len(nodes) /\ Len(nodes) \in Nat
  BY OriginalNodes
<1>2. /\ DOMAIN Renumbered = DOMAIN nodes /\ Len(Renumbered) = Len(nodes)
      /\ \A k \in DOMAIN nodes :
           /\ Renumbered[k].id = k
           /\ Renumbered[k].objective = nodes[ordered[k]].objective
           /\ ToSet(Renumbered[k].deps) = {j \in DOMAIN nodes : ordered[j] \in Depends(ordered[k])}
           /\ ToSet(Renumbered[k].deps) \subseteq 1 .. k - 1
           /\ \A a, b \in DOMAIN Renumbered[k].deps : a < b => Renumbered[k].deps[a] < Renumbered[k].deps[b]
  BY <1>1, RenumberedNodes
<1>3. /\ DOMAIN ordered = DOMAIN nodes /\ Popped = DOMAIN nodes
      /\ \A k \in DOMAIN nodes : ordered[k] \in DOMAIN nodes
  BY <1>1, AllPopped, PoppedInOrder
<1> HIDE DEF Renumbered
<1>4. \A k \in DOMAIN nodes : Renumbered[k].objective = ordered[k]
  BY <1>1, <1>2, <1>3
<1>5. [k \in DOMAIN Renumbered |-> Renumbered[k].objective] = ordered
  <2>1. ordered = [k \in DOMAIN nodes |-> ordered[k]]
    BY <1>3 DEF Looping
  <2>. QED
    BY <1>2, <1>4, <2>1
<1>6. ASSUME NEW k \in DOMAIN nodes
      PROVE  {Renumbered[j].objective : j \in ToSet(Renumbered[k].deps)} = Needs(draft, Renumbered[k].objective)
  <2>1. {Renumbered[j].objective : j \in ToSet(Renumbered[k].deps)} = {ordered[j] : j \in ToSet(Renumbered[k].deps)}
    BY <1>2, <1>4
  <2>2. ASSUME NEW i \in Depends(ordered[k]) PROVE \E j \in DOMAIN nodes : ordered[j] = i
    <3>1. i \in Popped
      BY <1>1, <1>3, DependsAre
    <3>. QED
      BY <1>3, <3>1 DEF Popped, ToSet
  <2>3. {ordered[j] : j \in ToSet(Renumbered[k].deps)} = Depends(ordered[k])
    BY <1>2, <2>2
  <2>4. Depends(ordered[k]) = Needs(draft, ordered[k])
    BY <1>1, <1>3, OriginalDepends
  <2>. QED
    BY <1>4, <2>1, <2>3, <2>4
<1>7. WellFormed(draft) /\ FirstOrder(draft, ordered)
  BY DrainedIsFirstOrder
<1>. QED
  BY <1>2, <1>5, <1>6, <1>7 DEF Settles

\* The second pass pops the nodes in place and leaves them settled.
LEMMA SecondPassSettles ==
  ASSUME draft \in Seq(Message), nodes \in Seq(Node), Settles(draft, nodes), Looping,
         Len(ordered) = Len(nodes), \A k \in DOMAIN ordered : ordered[k] = k
  PROVE  Settles(draft, Renumbered)
<1>1. /\ DOMAIN Renumbered = DOMAIN nodes
      /\ \A k \in DOMAIN nodes :
           /\ Renumbered[k].id = k
           /\ Renumbered[k].objective = nodes[ordered[k]].objective
           /\ ToSet(Renumbered[k].deps) = {j \in DOMAIN nodes : ordered[j] \in Depends(ordered[k])}
           /\ ToSet(Renumbered[k].deps) \subseteq 1 .. k - 1
           /\ \A a, b \in DOMAIN Renumbered[k].deps : a < b => Renumbered[k].deps[a] < Renumbered[k].deps[b]
  BY RenumberedNodes
<1>2. DOMAIN ordered = DOMAIN nodes /\ \A k \in DOMAIN nodes : ordered[k] = k
  BY AllPopped
<1> HIDE DEF Renumbered
<1>3. \A k \in DOMAIN nodes : Renumbered[k].objective = nodes[k].objective
  BY <1>1, <1>2
<1>4. [k \in DOMAIN Renumbered |-> Renumbered[k].objective] = [k \in DOMAIN nodes |-> nodes[k].objective]
  BY <1>1, <1>3
<1>5. ASSUME NEW k \in DOMAIN nodes
      PROVE  ToSet(Renumbered[k].deps) = ToSet(nodes[k].deps) /\ ToSet(nodes[k].deps) \subseteq DOMAIN nodes
  <2>1. Depends(k) = ToSet(nodes[k].deps) /\ Depends(k) \subseteq DOMAIN nodes
    BY SettledDepends, DependsAre
  <2>2. ToSet(Renumbered[k].deps) = {j \in DOMAIN nodes : j \in Depends(k)}
    BY <1>1, <1>2
  <2>. QED
    BY <2>1, <2>2
<1>6. ASSUME NEW k \in DOMAIN nodes
      PROVE  {Renumbered[j].objective : j \in ToSet(Renumbered[k].deps)} = Needs(draft, Renumbered[k].objective)
  <2>1. {Renumbered[j].objective : j \in ToSet(Renumbered[k].deps)} = {nodes[j].objective : j \in ToSet(nodes[k].deps)}
    BY <1>3, <1>5
  <2>2. {nodes[j].objective : j \in ToSet(nodes[k].deps)} = Needs(draft, nodes[k].objective)
    BY DEF Settles
  <2>. QED
    BY <1>3, <2>1, <2>2
<1>7. WellFormed(draft) /\ FirstOrder(draft, [k \in DOMAIN nodes |-> nodes[k].objective])
  BY DEF Settles
<1>. QED
  BY <1>1, <1>4, <1>6, <1>7 DEF Settles

\* In the second pass the next node in line is always the first that can go.
LEMMA NextInLine ==
  ASSUME draft \in Seq(Message), nodes \in Seq(Node), Settles(draft, nodes), Looping,
         \A k \in DOMAIN ordered : ordered[k] = k, Len(ordered) # Len(nodes)
  PROVE  Len(ordered) + 1 \in Free(Popped) /\ \A i \in Free(Popped) : Len(ordered) + 1 <= i
<1> DEFINE m == Len(ordered)
           n == Len(nodes)
<1>1. /\ DOMAIN ordered = 1 .. m /\ m \in Nat
      /\ DOMAIN nodes = 1 .. n /\ n \in Nat /\ m # n
  BY PoppedInOrder
<1>2. Popped = 1 .. m
  BY <1>1 DEF Popped, ToSet
<1>3. m < n
  <2>1. Popped \in SUBSET DOMAIN nodes
    BY PoppedInOrder DEF Popped, ToSet
  <2>2. Cardinality(Popped) <= n /\ Cardinality(Popped) = m
    BY <2>1, PositionsFinite DEF Looping
  <2> HIDE DEF m, n
  <2>. QED
    BY <1>1, <2>2
<1> HIDE DEF m, n
<1>4. m + 1 \in DOMAIN nodes /\ m + 1 \notin Popped
  BY <1>1, <1>2, <1>3
<1>5. Depends(m + 1) \subseteq Popped
  <2>1. Depends(m + 1) \subseteq 1 .. (m + 1) - 1
    BY <1>4, SettledDepends
  <2>2. (m + 1) - 1 = m
    BY <1>1
  <2>. QED
    BY <1>2, <2>1, <2>2
<1>6. ASSUME NEW i \in Free(Popped) PROVE m + 1 <= i
  <2>1. i \in 1 .. n /\ i \notin 1 .. m
    BY <1>1, <1>2 DEF Free
  <2>. QED
    BY <1>1, <2>1
<1>7. m + 1 \in Free(Popped)
  BY <1>4, <1>5 DEF Free
<1>. QED
  BY <1>6, <1>7 DEF m

-----------------------------------------------------------------------------
\* The inductive invariant

\* What each pass starts from, what the loop has done, and what is stored.
Sound ==
  /\ nodes \in Seq(Node)
  /\ at \in {"check", "loop"} => (pass = 1 /\ Original) \/ (pass = 2 /\ Settles(draft, nodes))
  /\ at = "loop" => Clean /\ Looping /\ InPlace
  /\ at # "loop" => indegree = <<>> /\ ready = {} /\ ordered = <<>>
  /\ at \in {"save", "run"} => Settles(draft, nodes)
  /\ RejectedIsMalformed

IInv == TypeOK /\ Sound

LEMMA DraftType == TypeOK => draft \in Seq(Message)
<1>1. <<>> \in Seq(Message)
  OBVIOUS
<1>. QED
  BY <1>1, DraftsAssumption DEF TypeOK, Message

LEMMA InitIInv == Init => IInv
<1> SUFFICES ASSUME Init PROVE IInv
  OBVIOUS
<1>1. <<>> \in Seq(Node) /\ DOMAIN <<>> = {}
  OBVIOUS
<1>2. TypeOK
  <2>1. ToSet(<<>>) = {}
    BY DEF ToSet
  <2>2. /\ at = "idle" /\ running \in BOOLEAN /\ available \in BOOLEAN
        /\ draft = <<>> /\ pass = 0 /\ nodes = <<>>
        /\ indegree = <<>> /\ ready = {} /\ ordered = <<>>
    BY DEF Init
  <2>. QED
    BY <1>1, <2>1, <2>2 DEF TypeOK
<1>3. Sound
  BY <1>1 DEF Init, Sound, RejectedIsMalformed
<1>. QED
  BY <1>2, <1>3 DEF IInv

\* Steps that drop the message, and steps that leave the planner's state alone.
LEMMA ForgetIInv ==
  ASSUME IInv, Forget, at' \in {"idle", "escaped"}, running' \in BOOLEAN, available' = available
  PROVE  IInv'
<1>1. <<>> \in Seq(Node) /\ DOMAIN <<>> = {}
  OBVIOUS
<1>. QED
  BY <1>1 DEF Forget, IInv, TypeOK, Sound, RejectedIsMalformed, ToSet

LEMMA IdleIInv ==
  ASSUME IInv, UNCHANGED <<available, draft, pass, nodes, loop>>, running' \in BOOLEAN, at # "loop",
         at' \in {"scroll", "intake", "plan"} \/ (at = "save" /\ at' = "run")
  PROVE  IInv'
<1>1. TypeOK'
  BY DEF IInv, TypeOK, loop
<1>2. Sound'
  <2>1. indegree' = indegree /\ ready' = ready /\ ordered' = ordered /\ nodes' = nodes /\ draft' = draft
    BY DEF loop
  <2>2. at' \in {"save", "run"} => Settles(draft, nodes)
    BY DEF IInv, Sound
  <2>3. at' \notin {"check", "loop", "rejected"} /\ at # "loop"
    OBVIOUS
  <2>. QED
    BY <2>1, <2>2, <2>3 DEF IInv, Sound, RejectedIsMalformed
<1>. QED
  BY <1>1, <1>2 DEF IInv

LEMMA AnswerIInv ==
  ASSUME IInv, NEW d \in Drafts, PlannerAnswers(d)
  PROVE  IInv'
<1>1. d \in Seq(Message) /\ DOMAIN d = 1 .. Len(d) /\ Len(d) \in Nat
  BY DraftsAssumption DEF Message
<1>2. /\ at = "plan" /\ at' = "check" /\ pass' = 1 /\ draft' = d
      /\ nodes' = Copy(d)
      /\ running' = running /\ available' = available
      /\ indegree' = indegree /\ ready' = ready /\ ordered' = ordered
  BY DEF PlannerAnswers, loop, Copy
<1>3. Original'
  BY <1>2 DEF Original
<1>4. /\ nodes' \in Seq(Node) /\ DOMAIN nodes' = DOMAIN d
      /\ \A i \in DOMAIN nodes' : nodes'[i].objective \in DOMAIN d
  BY <1>1, <1>2, CopyNodes
<1>5. indegree = <<>> /\ ready = {} /\ ordered = <<>>
  BY <1>2 DEF IInv, Sound
<1>6. TypeOK'
  <2>1. DOMAIN <<>> = {} /\ ToSet(<<>>) = {}
    BY DEF ToSet
  <2>. QED
    BY <1>2, <1>4, <1>5, <2>1 DEF IInv, TypeOK
<1>7. Sound'
  BY <1>2, <1>3, <1>4, <1>5 DEF Sound, RejectedIsMalformed
<1>. QED
  BY <1>6, <1>7 DEF IInv

LEMMA CheckIInv ==
  ASSUME IInv, Check
  PROVE  IInv'
<1>1. /\ at = "check" /\ running' = running /\ available' = available /\ draft' = draft
      /\ pass' = pass /\ nodes' = nodes
  BY DEF Check
<1>2. draft \in Seq(Message) /\ nodes \in Seq(Node)
  BY DraftType DEF IInv, Sound
<1>3. (pass = 1 /\ Original) \/ (pass = 2 /\ Settles(draft, nodes))
  BY <1>1 DEF IInv, Sound
<1>4. CASE Refused
  <2>1. at' = "rejected" /\ indegree' = indegree /\ ready' = ready /\ ordered' = ordered
    BY <1>4 DEF Check, loop
  <2>2. ~Clean
    BY <1>2, <1>4, RefusedIsUnclean
  <2>3. ~WellFormed(draft)
    BY <1>2, <1>3, <2>2, SettledDepends, UncleanIsMalformed
  <2>4. TypeOK'
    BY <1>1, <2>1 DEF IInv, TypeOK
  <2>5. Sound'
    <3>1. ~WellFormed(draft')
      BY <1>1, <2>3
    <3>2. indegree = <<>> /\ ready = {} /\ ordered = <<>>
      BY <1>1 DEF IInv, Sound
    <3>. QED
      BY <1>1, <1>2, <2>1, <3>1, <3>2 DEF Sound, RejectedIsMalformed
  <2>. QED
    BY <2>4, <2>5 DEF IInv
<1>5. CASE ~Refused
  <2>1. /\ at' = "loop" /\ ordered' = <<>>
        /\ indegree' = [i \in DOMAIN nodes |-> Indegree(i)]
        /\ ready' = {i \in DOMAIN nodes : Indegree(i) = 0}
    BY <1>5 DEF Check
  <2>2. Clean
    BY <1>2, <1>5, RefusedIsUnclean
  <2>3. ASSUME NEW i \in DOMAIN nodes
        PROVE  Indegree(i) \in Nat /\ (Indegree(i) = 0 <=> Depends(i) = {})
    <3>1. Depends(i) \in SUBSET DOMAIN nodes
      BY <1>2, <2>2, DependsAre
    <3>2. IsFiniteSet(Depends(i)) /\ Cardinality(Depends(i)) \in Nat
      BY <1>2, <3>1, PositionsFinite
    <3>. QED
      BY <3>2, FS_EmptySet DEF Indegree
  <2>4. Popped' = {}
    BY <2>1 DEF Popped, ToSet
  <2>5. /\ Clean' /\ \A B : Free(B)' = Free(B) /\ (Closed(B)' <=> Closed(B))
        /\ \A i : Depends(i)' = Depends(i)
    BY <1>1, <2>2, SameGraph
  <2>6. Looping'
    <3>1. <<>> \in Seq(DOMAIN nodes) /\ Len(<<>>) = 0 /\ DOMAIN <<>> = {}
      OBVIOUS
    <3>2. Closed({}) /\ Cardinality({}) = 0
      BY FS_EmptySet DEF Closed
    <3>3. Free({}) = {i \in DOMAIN nodes : Indegree(i) = 0}
      BY <2>3 DEF Free
    <3>4. indegree' \in [DOMAIN nodes -> Nat]
      BY <2>1, <2>3
    <3>5. ASSUME NEW i \in DOMAIN nodes PROVE indegree'[i] = Cardinality(Depends(i) \ {})
      <4>1. Depends(i) \ {} = Depends(i)
        OBVIOUS
      <4>. QED
        BY <2>1, <4>1 DEF Indegree
    <3>6. ordered' \in Seq(DOMAIN nodes') /\ Cardinality(Popped') = Len(ordered') /\ DOMAIN ordered' = {}
      BY <1>1, <2>1, <2>4, <3>1, <3>2
    <3>7. Closed(Popped)' /\ ready' = Free(Popped)'
      BY <2>1, <2>4, <2>5, <3>2, <3>3
    <3>8. \A i \in DOMAIN nodes' : indegree'[i] = Cardinality(Depends(i)' \ Popped')
      BY <1>1, <2>4, <2>5, <3>5
    <3>9. indegree' \in [DOMAIN nodes' -> Nat]
      BY <1>1, <3>4
    <3>. QED
      BY <3>6, <3>7, <3>8, <3>9 DEF Looping
  <2>7. TypeOK'
    <3>1. \A i \in DOMAIN indegree' : indegree'[i] \in Nat
      BY <2>1, <2>3
    <3>2. DOMAIN indegree' = DOMAIN nodes /\ ready' \subseteq DOMAIN nodes /\ ToSet(ordered)' = {}
      BY <2>1, <2>4 DEF Popped
    <3>. QED
      BY <1>1, <2>1, <3>1, <3>2 DEF IInv, TypeOK
  <2>8. InPlace'
    BY <2>1 DEF InPlace
  <2>9. Sound'
    <3>1. (pass' = 1 /\ Original') \/ (pass' = 2 /\ Settles(draft', nodes'))
      BY <1>1, <1>3 DEF Original
    <3>. QED
      BY <1>1, <1>2, <2>1, <2>5, <2>6, <2>8, <3>1 DEF Sound, RejectedIsMalformed
  <2>. QED
    BY <2>7, <2>9 DEF IInv
<1>. QED
  BY <1>4, <1>5

LEMMA PopIInv ==
  ASSUME IInv, Pop
  PROVE  IInv'
<1> DEFINE c == CHOOSE i \in ready : \A j \in ready : i <= j
<1>1. /\ at = "loop" /\ ready # {} /\ ordered' = Append(ordered, c)
      /\ at' = at /\ running' = running /\ available' = available /\ draft' = draft
      /\ pass' = pass /\ nodes' = nodes
  BY DEF Pop
<1>2. /\ draft \in Seq(Message) /\ nodes \in Seq(Node)
      /\ (pass = 1 /\ Original) \/ (pass = 2 /\ Settles(draft, nodes))
      /\ Clean /\ Looping /\ InPlace
  BY <1>1, DraftType DEF IInv, Sound
<1>3. Looping' /\ Clean'
  BY <1>1, <1>2, PopKeepsLoop, SameGraph
<1>4. c \in ready /\ \A j \in ready : c <= j
  <2>1. ready \subseteq DOMAIN nodes
    BY DEF IInv, TypeOK
  <2>. QED
    BY <1>1, <1>2, <2>1, PopTakes
<1> HIDE DEF c
<1>5. InPlace'
  <2> SUFFICES ASSUME pass = 2 PROVE \A k \in DOMAIN ordered' : ordered'[k] = k
    BY <1>1 DEF InPlace
  <2>1. Settles(draft, nodes) /\ \A k \in DOMAIN ordered : ordered[k] = k
    BY <1>2 DEF InPlace
  <2>2. ready = Free(Popped) /\ ready \in SUBSET Nat
    BY <1>2, PositionsFinite DEF Looping, IInv, TypeOK
  <2>3. Len(ordered) # Len(nodes)
    <3>1. Len(ordered) = Len(nodes) => Popped = DOMAIN nodes
      BY <1>2, AllPopped
    <3>. QED
      BY <1>4, <2>2, <3>1 DEF Free
  <2>4. Len(ordered) + 1 \in Free(Popped) /\ \A i \in Free(Popped) : Len(ordered) + 1 <= i
    BY <1>2, <2>1, <2>3, NextInLine
  <2>5. c = Len(ordered) + 1
    <3>1. c <= Len(ordered) + 1 /\ Len(ordered) + 1 <= c
      BY <1>4, <2>2, <2>4
    <3>2. c \in Nat /\ Len(ordered) \in Nat
      BY <1>2, <1>4, <2>2, PoppedInOrder
    <3>. QED
      BY <3>1, <3>2
  <2>6. ordered \in Seq(DOMAIN nodes) /\ c \in DOMAIN nodes
    BY <1>2, <1>4, <2>2 DEF Looping, Free
  <2>. QED
    BY <1>1, <2>1, <2>5, <2>6
<1>6. TypeOK'
  <2>1. ready' \subseteq DOMAIN nodes' /\ ToSet(ordered') \subseteq DOMAIN nodes'
    BY <1>1, <1>3 DEF Looping, Free, ToSet
  <2>2. DOMAIN indegree' \subseteq DOMAIN nodes' /\ \A i \in DOMAIN indegree' : indegree'[i] \in Nat
    BY <1>3 DEF Looping
  <2>. QED
    BY <1>1, <2>1, <2>2 DEF IInv, TypeOK
<1>7. Sound'
  <2>1. (pass' = 1 /\ Original') \/ (pass' = 2 /\ Settles(draft', nodes'))
    BY <1>1, <1>2 DEF Original
  <2>. QED
    BY <1>1, <1>2, <1>3, <1>5, <2>1 DEF Sound, RejectedIsMalformed
<1>. QED
  BY <1>6, <1>7 DEF IInv

LEMMA DrainedIInv ==
  ASSUME IInv, Drained
  PROVE  IInv'
<1>1. /\ at = "loop" /\ ready = {} /\ running' = running /\ available' = available /\ draft' = draft
      /\ indegree' = <<>> /\ ready' = {} /\ ordered' = <<>>
  BY DEF Drained
<1>2. /\ draft \in Seq(Message) /\ nodes \in Seq(Node)
      /\ (pass = 1 /\ Original) \/ (pass = 2 /\ Settles(draft, nodes))
      /\ Clean /\ Looping /\ InPlace
  BY <1>1, DraftType DEF IInv, Sound
<1>3. DOMAIN <<>> = {} /\ ToSet(<<>>) = {}
  BY DEF ToSet
<1>4. CASE Len(ordered) # Len(nodes)
  <2>1. at' = "rejected" /\ pass' = pass /\ nodes' = nodes
    BY <1>4 DEF Drained
  <2>2. ASSUME pass = 2 PROVE FALSE
    <3>1. Len(ordered) + 1 \in Free(Popped)
      BY <1>2, <1>4, <2>2, NextInLine DEF InPlace
    <3>. QED
      BY <1>1, <1>2, <3>1 DEF Looping
  <2>3. ~WellFormed(draft)
    BY <1>1, <1>2, <1>4, <2>2, StuckIsMalformed
  <2>4. TypeOK'
    BY <1>1, <1>3, <2>1 DEF IInv, TypeOK
  <2>5. Sound'
    <3>1. ~WellFormed(draft')
      BY <1>1, <2>3
    <3>. QED
      BY <1>1, <1>2, <2>1, <3>1 DEF Sound, RejectedIsMalformed
  <2>. QED
    BY <2>4, <2>5 DEF IInv
<1>5. CASE Len(ordered) = Len(nodes)
  <2>1. nodes' = Renumbered /\ pass' = 2 /\ at' \in {"check", "save"}
    BY <1>5 DEF Drained
  <2>2. Settles(draft, Renumbered)
    BY <1>2, <1>5, FirstPassSettles, SecondPassSettles DEF InPlace
  <2>3. /\ Renumbered \in Seq(Node) /\ DOMAIN Renumbered = DOMAIN nodes
        /\ \A k \in DOMAIN nodes : /\ Renumbered[k].objective = nodes[ordered[k]].objective
                                   /\ ordered[k] \in DOMAIN nodes
    BY <1>2, <1>5, RenumberedNodes, AllPopped, PoppedInOrder
  <2> HIDE DEF Renumbered
  <2>4. \A k \in DOMAIN nodes' : nodes'[k].objective \in DOMAIN draft'
    BY <1>1, <2>1, <2>3 DEF IInv, TypeOK
  <2>5. TypeOK'
    BY <1>1, <1>3, <2>1, <2>4 DEF IInv, TypeOK
  <2>6. Sound'
    <3>1. Settles(draft', nodes')
      BY <1>1, <2>1, <2>2
    <3>. QED
      BY <1>1, <2>1, <2>3, <3>1 DEF Sound, RejectedIsMalformed
  <2>. QED
    BY <2>5, <2>6 DEF IInv
<1>. QED
  BY <1>4, <1>5

LEMMA NextIInv == IInv /\ [Next]_vars => IInv'
<1> SUFFICES ASSUME IInv, [Next]_vars PROVE IInv'
  OBVIOUS
<1>0. running \in BOOLEAN
  BY DEF IInv, TypeOK
<1>1. ASSUME Send PROVE IInv'
  BY <1>1, IdleIInv DEF Send
<1>2. ASSUME Scroll PROVE IInv'
  <2>1. ASSUME ReEnable PROVE IInv'
    BY <1>2, <2>1, ForgetIInv DEF ReEnable, Scroll
  <2>2. ASSUME Escapes PROVE IInv'
    BY <1>0, <1>2, <2>2, ForgetIInv DEF Escapes, Scroll
  <2>3. ASSUME at' = "intake", UNCHANGED <<running, draft, pass, nodes, loop>> PROVE IInv'
    BY <1>0, <1>2, <2>3, IdleIInv DEF Scroll
  <2>. QED
    BY <1>2, <2>1, <2>2, <2>3 DEF Scroll
<1>3. ASSUME Intake PROVE IInv'
  <2>1. ASSUME ReEnable PROVE IInv'
    BY <1>3, <2>1, ForgetIInv DEF ReEnable, Intake
  <2>2. ASSUME at' = "plan", UNCHANGED <<running, draft, pass, nodes, loop>> PROVE IInv'
    BY <1>0, <1>3, <2>2, IdleIInv DEF Intake
  <2>. QED
    BY <1>3, <2>1, <2>2 DEF Intake
<1>4. ASSUME PlannerFails \/ Rejected \/ RunEnds \/ Reload PROVE IInv'
  BY <1>4, ForgetIInv DEF PlannerFails, Rejected, RunEnds, Reload, ReEnable
<1>5. ASSUME NEW d \in Drafts, PlannerAnswers(d) PROVE IInv'
  BY <1>5, AnswerIInv
<1>6. ASSUME Check PROVE IInv'
  BY <1>6, CheckIInv
<1>7. ASSUME Pop PROVE IInv'
  BY <1>7, PopIInv
<1>8. ASSUME Drained PROVE IInv'
  BY <1>8, DrainedIInv
<1>9. ASSUME Save PROVE IInv'
  <2>1. ASSUME Escapes PROVE IInv'
    BY <1>0, <1>9, <2>1, ForgetIInv DEF Escapes, Save
  <2>2. ASSUME at' = "run", UNCHANGED <<running, draft, pass, nodes, loop>> PROVE IInv'
    BY <1>0, <1>9, <2>2, IdleIInv DEF Save
  <2>. QED
    BY <1>9, <2>1, <2>2 DEF Save
<1>10. ASSUME UNCHANGED vars PROVE IInv'
  <2>1. /\ at' = at /\ running' = running /\ available' = available /\ draft' = draft
        /\ pass' = pass /\ nodes' = nodes
        /\ indegree' = indegree /\ ready' = ready /\ ordered' = ordered
    BY <1>10 DEF vars, loop
  <2>2. TypeOK'
    BY <2>1 DEF IInv, TypeOK
  <2>3. Clean' <=> Clean
    BY <2>1, SameGraph
  <2>4. Looping => Looping'
    <3>1. /\ \A B : Free(B)' = Free(B) /\ (Closed(B)' <=> Closed(B))
          /\ \A B, i : Takes(B, i)' <=> Takes(B, i)
          /\ \A i : Depends(i)' = Depends(i)
      BY <2>1, SameGraph
    <3>2. Popped' = Popped /\ \A k : Before(k)' = Before(k)
      BY <2>1 DEF Popped, Before
    <3>. QED
      BY <2>1, <3>1, <3>2 DEF Looping
  <2>5. Sound'
    BY <2>1, <2>3, <2>4 DEF IInv, Sound, Original, InPlace, RejectedIsMalformed
  <2>. QED
    BY <2>2, <2>5 DEF IInv
<1>. QED
  BY <1>1, <1>2, <1>3, <1>4, <1>5, <1>6, <1>7, <1>8, <1>9, <1>10 DEF Next, Handler

-----------------------------------------------------------------------------
\* The theorems

\* The page, the planner's loop and its nodes stay in their types whatever the
\* language model answers (dashboard._send and normalize_plan_nodes).
THEOREM TypeCorrect == Spec => []TypeOK
<1>1. IInv => TypeOK
  BY DEF IInv
<1>. QED
  BY <1>1, InitIInv, NextIInv, PTL DEF Spec

\* normalize_plan_nodes, run twice, rejects exactly the malformed answers, and
\* stores the others in their first topological order with every dependency
\* pointing backwards.
THEOREM PlansAreReference == Spec => []PlanIsReference
<1>1. IInv => PlanIsReference
  <2> SUFFICES ASSUME IInv PROVE PlanIsReference
    OBVIOUS
  <2>1. RejectedIsMalformed
    BY DEF IInv, Sound
  <2>2. AcceptedIsFirstOrder
    BY DEF IInv, Sound, AcceptedIsFirstOrder, Settles
  <2>. QED
    BY <2>1, <2>2 DEF PlanIsReference
<1>. QED
  BY <1>1, InitIInv, NextIInv, PTL DEF Spec
=============================================================================
