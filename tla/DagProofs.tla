----------------------------- MODULE DagProofs -----------------------------
(***************************************************************************)
(* What the definitions of Dag compute, for every finite dependency graph, *)
(* and that the loops of DagAlgorithms compute the same.  Peeling and      *)
(* LengthOf are recursions, over subsets of the ids and along              *)
(* dependencies; that functions satisfying them exist, and what they       *)
(* return, is shown by taking a smallest subset for which it would fail    *)
(* (SmallestSubset), or by counting (CountingUp).  The loops are           *)
(* recursions over the number of steps taken (Iterates): an invariant of   *)
(* the steps, and a measure that every step moves, say what they return    *)
(* and that the steps they are given are enough.                           *)
(***************************************************************************)
EXTENDS DagAlgorithms, FiniteSetTheorems, SequenceTheorems, TLAPS

LEMMA SmallestSubset ==
    ASSUME NEW D, IsFiniteSet(D), NEW Bad \in SUBSET (SUBSET D), Bad # {}
    PROVE  \E T \in Bad : \A R \in Bad : R \subseteq T => R = T
<1>1. IsWellFoundedOn(StrictSubsetOrdering(D), SUBSET D)
  BY FS_StrictSubsetOrderingWellFounded, FS_FiniteSubsetsOfFinite
<1>2. PICK T \in Bad : \A R \in Bad : ~(<<R, T>> \in StrictSubsetOrdering(D))
  BY <1>1, WFMin
<1> QED
  BY <1>2 DEF StrictSubsetOrdering

\* Induction up to n, on the set of the numbers for which something holds.
LEMMA CountingUp ==
    ASSUME NEW n \in Nat, NEW S \in SUBSET (0 .. n), 0 \in S,
           \A k \in 0 .. n : k + 1 \in 0 .. n /\ k \in S => k + 1 \in S
    PROVE  n \in S
<1> DEFINE Bad == {0 .. k : k \in (0 .. n) \ S}
<1> SUFFICES ASSUME n \notin S PROVE FALSE
  OBVIOUS
<1>1. Bad \in SUBSET (SUBSET (0 .. n)) /\ Bad # {} /\ IsFiniteSet(0 .. n)
  <2>1. IsFiniteSet(0 .. n)
    BY FS_Interval
  <2>2. n \in (0 .. n) \ S
    OBVIOUS
  <2>3. 0 .. n \in Bad
    BY <2>2
  <2>4. \A k \in 0 .. n : 0 .. k \subseteq 0 .. n
    OBVIOUS
  <2> QED
    BY <2>1, <2>3, <2>4
<1>2. PICK T \in Bad : \A R \in Bad : R \subseteq T => R = T
  <2> DEFINE D == 0 .. n
  <2>1. Bad \in SUBSET (SUBSET D) /\ Bad # {} /\ IsFiniteSet(D)
    BY <1>1
  <2> HIDE DEF Bad, D
  <2> QED
    BY <2>1, SmallestSubset
<1>3. PICK k \in (0 .. n) \ S : T = 0 .. k
  OBVIOUS
<1>4. k - 1 \in (0 .. n) \ S /\ (k - 1) + 1 = k
  OBVIOUS
<1>5. 0 .. (k - 1) \in Bad
  BY <1>4
<1>6. 0 .. (k - 1) \subseteq 0 .. k /\ k \in 0 .. k /\ k \notin 0 .. (k - 1)
  BY <1>4
<1> QED
  BY <1>2, <1>3, <1>5, <1>6

-----------------------------------------------------------------------------
\* What the recursion of Peeling asks of the value at rest.
Peeled(g, rest, f) ==
    IF rest = {} THEN <<>>
    ELSE IF Free(g, rest) = {} THEN <<rest>>
    ELSE <<Free(g, rest)>> \o f[rest \ Free(g, rest)]

\* f follows the recursion on the subsets of D.
Peels(g, D, f) == f = [rest \in SUBSET D |-> Peeled(g, rest, f)]

LEMMA PeelsAt ==
    ASSUME NEW g, NEW D, NEW f, Peels(g, D, f), NEW rest \in SUBSET D
    PROVE  f[rest] = Peeled(g, rest, f)
  BY DEF Peels

\* Two functions that follow it agree where both are defined.
LEMMA PeelsUnique ==
    ASSUME NEW g, NEW C, NEW D, IsFiniteSet(D), C \subseteq D,
           NEW e, Peels(g, C, e), NEW f, Peels(g, D, f)
    PROVE  \A rest \in SUBSET C : e[rest] = f[rest]
<1> DEFINE Bad == {rest \in SUBSET C : e[rest] # f[rest]}
<1> SUFFICES ASSUME Bad # {} PROVE FALSE
  OBVIOUS
<1>1. PICK T \in Bad : \A R \in Bad : R \subseteq T => R = T
  <2>1. Bad \in SUBSET (SUBSET D)
    OBVIOUS
  <2> HIDE DEF Bad
  <2> QED
    BY <2>1, SmallestSubset
<1>2. T \in SUBSET C /\ T \in SUBSET D /\ e[T] # f[T]
  OBVIOUS
<1>3. e[T] = Peeled(g, T, e) /\ f[T] = Peeled(g, T, f)
  BY <1>2, PeelsAt
<1>4. T # {} /\ Free(g, T) # {}
  BY <1>2, <1>3 DEF Peeled
<1>5. /\ T \ Free(g, T) \in SUBSET C /\ T \ Free(g, T) \subseteq T
      /\ T \ Free(g, T) # T
  BY <1>2, <1>4 DEF Free
<1>6. e[T \ Free(g, T)] = f[T \ Free(g, T)]
  BY <1>1, <1>5
<1> QED
  BY <1>2, <1>3, <1>4, <1>6 DEF Peeled

LEMMA PeelsExists ==
    ASSUME NEW g, NEW D, IsFiniteSet(D)
    PROVE  \E f : Peels(g, D, f)
<1> DEFINE Bad == {C \in SUBSET D : ~ \E f : Peels(g, C, f)}
<1> SUFFICES ASSUME Bad # {} PROVE FALSE
  OBVIOUS
<1>1. PICK T \in Bad : \A R \in Bad : R \subseteq T => R = T
  <2>1. Bad \in SUBSET (SUBSET D)
    OBVIOUS
  <2> HIDE DEF Bad
  <2> QED
    BY <2>1, SmallestSubset
<1>2. T \in SUBSET D /\ IsFiniteSet(T) /\ ~ \E f : Peels(g, T, f)
  BY FS_Subset
<1> DEFINE Some(R) == CHOOSE f : Peels(g, R, f)
           below == [R \in SUBSET T |-> IF R = T THEN <<>> ELSE Some(R)[R]]
           f == [R \in SUBSET T |-> Peeled(g, R, below)]
<1>3. ASSUME NEW R \in SUBSET T, R # T PROVE Peels(g, R, Some(R))
  <2>1. R \in SUBSET D /\ R \notin Bad
    BY <1>1, <1>2, <1>3
  <2>2. \E h : Peels(g, R, h)
    BY <2>1
  <2> QED
    BY <2>2
<1> HIDE DEF Bad, Some
<1>4. ASSUME NEW R \in SUBSET T, NEW S \in SUBSET R, R # T, S # T
      PROVE  Some(R)[S] = Some(S)[S]
  <2>1. Peels(g, R, Some(R)) /\ Peels(g, S, Some(S)) /\ IsFiniteSet(R)
    BY <1>2, <1>3, <1>4, FS_Subset
  <2>2. S \subseteq R
    OBVIOUS
  <2>3. \A rest \in SUBSET S : Some(S)[rest] = Some(R)[rest]
    BY <2>1, <2>2, PeelsUnique
  <2> QED
    BY <2>3
<1>5. ASSUME NEW R \in SUBSET T, R # T PROVE f[R] = Some(R)[R]
  <2>1. Some(R)[R] = Peeled(g, R, Some(R))
    BY <1>3, <1>5, PeelsAt
  <2>2. CASE R = {} \/ Free(g, R) = {}
    BY <2>1, <2>2 DEF Peeled
  <2>3. CASE R # {} /\ Free(g, R) # {}
    <3> DEFINE S == R \ Free(g, R)
    <3>1. S \in SUBSET R /\ S # T /\ S \in SUBSET T
      BY <1>5
    <3>2. below[S] = Some(R)[S]
      BY <1>4, <1>5, <3>1
    <3> QED
      BY <2>1, <2>3, <3>2 DEF Peeled
  <2> QED
    BY <2>2, <2>3
<1>6. ASSUME NEW R \in SUBSET T PROVE Peeled(g, R, below) = Peeled(g, R, f)
  <2>1. CASE R = {} \/ Free(g, R) = {}
    BY <2>1 DEF Peeled
  <2>2. CASE R # {} /\ Free(g, R) # {}
    <3> DEFINE S == R \ Free(g, R)
    <3>1. S \in SUBSET T /\ S # T
      BY <2>2 DEF Free
    <3>2. f[S] = Some(S)[S] /\ below[S] = Some(S)[S]
      BY <1>5, <3>1
    <3> HIDE DEF f, below
    <3> QED
      BY <2>2, <3>2 DEF Peeled
  <2> QED
    BY <2>1, <2>2
<1>7. Peels(g, T, f)
  <2>1. f = [R \in SUBSET T |-> Peeled(g, R, f)]
    <3> DEFINE h == [R \in SUBSET T |-> Peeled(g, R, f)]
    <3>1. \A R \in SUBSET T : f[R] = h[R]
      BY <1>6
    <3> QED
      BY <3>1
  <2> HIDE DEF f
  <2> QED
    BY <2>1 DEF Peels
<1> QED
  BY <1>2, <1>7

\* The recursive definition defines what it says.
LEMMA PeelingPeels ==
    ASSUME NEW g, IsFiniteSet(DOMAIN g)
    PROVE  Peels(g, DOMAIN g, Peeling(g))
<1>1. Peeling(g) = CHOOSE f : Peels(g, DOMAIN g, f)
  BY DEF Peeling, Peels, Peeled
<1>2. \E f : Peels(g, DOMAIN g, f)
  BY PeelsExists
<1> QED
  BY <1>1, <1>2

-----------------------------------------------------------------------------
LEMMA PartitionPrepends ==
    ASSUME NEW rest, NEW free \in SUBSET rest, NEW tail, Partition(tail, rest \ free)
    PROVE  Partition(<<free>> \o tail, rest)
<1> DEFINE layers == <<free>> \o tail
<1>1. tail \in Seq(SUBSET rest)
  BY DEF Partition
<1>2. /\ layers \in Seq(SUBSET rest)
      /\ DOMAIN layers = 1 .. Len(tail) + 1 /\ Len(tail) \in Nat
      /\ DOMAIN tail = 1 .. Len(tail)
      /\ layers[1] = free
      /\ \A i \in DOMAIN tail : layers[i + 1] = tail[i]
  BY <1>1
<1>3. \A i \in DOMAIN layers : i = 1 \/ (i - 1 \in DOMAIN tail /\ layers[i] = tail[i - 1])
  BY <1>2
<1>4. \A i \in DOMAIN tail : i + 1 \in DOMAIN layers /\ layers[i + 1] = tail[i]
  BY <1>2
<1> HIDE DEF layers
<1>5. ASSUME NEW t \in rest PROVE \E i \in DOMAIN layers : t \in layers[i]
  <2>1. CASE t \in free
    BY <1>2, <2>1
  <2>2. CASE t \notin free
    BY <1>4, <2>2 DEF Partition
  <2> QED
    BY <2>1, <2>2
<1>6. ASSUME NEW i \in DOMAIN layers, NEW j \in DOMAIN layers, i # j
      PROVE  layers[i] \cap layers[j] = {}
  <2>1. \A k \in DOMAIN tail : free \cap tail[k] = {}
    BY <1>1 DEF Partition
  <2>2. CASE i = 1
    BY <1>2, <1>3, <1>6, <2>1, <2>2
  <2>3. CASE j = 1
    BY <1>2, <1>3, <1>6, <2>1, <2>3
  <2>4. CASE i # 1 /\ j # 1
    <3>1. i - 1 # j - 1
      BY <1>2, <1>6
    <3> QED
      BY <1>3, <2>4, <3>1 DEF Partition
  <2> QED
    BY <2>2, <2>3, <2>4
<1> QED
  BY <1>2, <1>5, <1>6 DEF Partition, layers

LEMMA OrderedPrepends ==
    ASSUME NEW g, NEW rest, NEW free, free = Free(g, rest), NEW tail,
           Partition(tail, rest \ free), Ordered(tail, g)
    PROVE  Ordered(<<free>> \o tail, g)
<1> DEFINE layers == <<free>> \o tail
<1>1. tail \in Seq(SUBSET rest) /\ free \subseteq rest
  BY DEF Partition, Free
<1>2. /\ DOMAIN layers = 1 .. Len(tail) + 1 /\ Len(tail) \in Nat
      /\ DOMAIN tail = 1 .. Len(tail)
      /\ layers[1] = free
      /\ \A i \in DOMAIN tail : layers[i + 1] = tail[i]
      /\ \A i \in DOMAIN tail : tail[i] \subseteq rest
  BY <1>1
<1>3. \A i \in DOMAIN layers : i = 1 \/ (i - 1 \in DOMAIN tail /\ layers[i] = tail[i - 1])
  BY <1>2
<1>4. \A i \in DOMAIN layers : layers[i] \subseteq rest
  BY <1>1, <1>2, <1>3
<1> HIDE DEF layers
<1>5. ASSUME NEW i \in DOMAIN layers, NEW j \in DOMAIN layers, NEW t \in layers[i],
             g[t] \cap layers[j] # {}
      PROVE  j < i
  <2>1. i # 1
    <3>1. SUFFICES ASSUME i = 1 PROVE FALSE
      OBVIOUS
    <3>2. t \in Free(g, rest)
      BY <1>2, <1>5, <3>1
    <3> QED
      BY <1>4, <1>5, <3>2 DEF Free
  <2>2. CASE j = 1
    BY <1>2, <2>1, <2>2
  <2>3. CASE j # 1
    <3>1. /\ i - 1 \in DOMAIN tail /\ j - 1 \in DOMAIN tail
          /\ t \in tail[i - 1] /\ g[t] \cap tail[j - 1] # {}
      BY <1>3, <1>5, <2>1, <2>3
    <3>2. j - 1 < i - 1
      BY <3>1 DEF Ordered
    <3> QED
      BY <1>2, <3>2
  <2> QED
    BY <2>2, <2>3
<1> QED
  BY <1>5 DEF Ordered, layers

LEMMA PeelingLayers ==
    ASSUME NEW g, IsFiniteSet(DOMAIN g), NEW rest \in SUBSET DOMAIN g
    PROVE  /\ Partition(Peeling(g)[rest], rest)
           /\ ~Cyclic(g) => Ordered(Peeling(g)[rest], g)
<1> DEFINE Good(R) == /\ Partition(Peeling(g)[R], R)
                      /\ ~Cyclic(g) => Ordered(Peeling(g)[R], g)
           Bad == {R \in SUBSET DOMAIN g : ~Good(R)}
<1> SUFFICES ASSUME Bad # {} PROVE FALSE
  OBVIOUS
<1>1. PICK T \in Bad : \A R \in Bad : R \subseteq T => R = T
  <2>1. Bad \in SUBSET (SUBSET DOMAIN g)
    OBVIOUS
  <2> HIDE DEF Bad
  <2> QED
    BY <2>1, SmallestSubset
<1> HIDE DEF Good
<1>2. T \in SUBSET DOMAIN g /\ ~Good(T)
  OBVIOUS
<1>3. \A R \in SUBSET T : R # T => Good(R)
  BY <1>1, <1>2
<1> HIDE DEF Bad
<1>4. Peeling(g)[T] = Peeled(g, T, Peeling(g))
  BY <1>2, PeelingPeels, PeelsAt
<1>5. CASE T = {}
  <2>1. Peeling(g)[T] = <<>>
    BY <1>4, <1>5 DEF Peeled
  <2> QED
    BY <1>2, <1>5, <2>1 DEF Good, Partition, Ordered
<1>6. CASE T # {} /\ Free(g, T) = {}
  <2>1. Peeling(g)[T] = <<T>>
    BY <1>4, <1>6 DEF Peeled
  <2>2. Partition(<<T>>, T)
    BY DEF Partition
  <2>3. Cyclic(g)
    <3>1. \A t \in T : g[t] \cap T # {}
      BY <1>6 DEF Free
    <3> QED
      BY <1>2, <1>6, <3>1 DEF Cyclic
  <2> QED
    BY <1>2, <2>1, <2>2, <2>3 DEF Good
<1>7. CASE T # {} /\ Free(g, T) # {}
  <2> DEFINE R == T \ Free(g, T)
             tail == Peeling(g)[R]
  <2>1. Peeling(g)[T] = <<Free(g, T)>> \o tail
    BY <1>4, <1>7 DEF Peeled
  <2>2. Free(g, T) \in SUBSET T /\ R \in SUBSET T /\ R # T
    BY <1>7 DEF Free
  <2>3. Partition(tail, R) /\ (~Cyclic(g) => Ordered(tail, g))
    BY <1>3, <2>2 DEF Good
  <2> HIDE DEF tail
  <2>4. Partition(<<Free(g, T)>> \o tail, T)
    BY <2>2, <2>3, PartitionPrepends
  <2>5. ~Cyclic(g) => Ordered(<<Free(g, T)>> \o tail, g)
    BY <2>3, OrderedPrepends
  <2> QED
    BY <1>2, <2>1, <2>4, <2>5 DEF Good
<1> QED
  BY <1>5, <1>6, <1>7

(* topological_layers: every task of the list is in exactly one layer, and in a
   list without a ring after the layers of all the tasks it depends on. *)
THEOREM LayersPartition ==
    ASSUME NEW g, IsFiniteSet(DOMAIN g)
    PROVE  /\ Partition(Layers(g), DOMAIN g)
           /\ ~Cyclic(g) => Ordered(Layers(g), g)
  BY PeelingLayers DEF Layers

-----------------------------------------------------------------------------
(* LengthOf is a recursion along the dependencies.  Without a ring the ids can *)
(* be ranked by numbers that grow along them, so it is one over these ranks.   *)
Deps(g, t) == IF t \in DOMAIN g THEN g[t] ELSE {}

GraphIds(g) == DOMAIN g \cup UNION {g[t] : t \in DOMAIN g}

LengthFrom(g, t, f) == 1 + MaxOrZero({f[p] : p \in Deps(g, t)})

\* f follows the recursion of LengthOf on the ids of D.
Measures(g, D, f) == f = [t \in D |-> LengthFrom(g, t, f)]

\* D is closed under the dependencies of g, and these have smaller ranks.
Ranks(g, D, n, r) ==
    /\ r \in [D -> 0 .. n]
    /\ \A t \in D : Deps(g, t) \subseteq D /\ \A d \in Deps(g, t) : r[d] < r[t]

\* The layer in which an id is peeled is such a rank.
LEMMA AcyclicRanks ==
    ASSUME NEW g, IsFiniteSet(DOMAIN g), ~Cyclic(g)
    PROVE  \E n \in Nat : \E r : Ranks(g, GraphIds(g), n, r)
<1> DEFINE layers == Layers(g)
           n == Len(layers)
           D == GraphIds(g)
           In(t) == CHOOSE i \in DOMAIN layers : t \in layers[i]
           r == [t \in D |-> IF t \in DOMAIN g THEN In(t) ELSE 0]
<1>1. Partition(layers, DOMAIN g) /\ Ordered(layers, g)
  BY LayersPartition
<1> HIDE DEF layers
<1>2. n \in Nat /\ DOMAIN layers = 1 .. n
  BY <1>1 DEF Partition
<1>3. \A t \in DOMAIN g : In(t) \in 1 .. n /\ t \in layers[In(t)]
  BY <1>1, <1>2 DEF Partition
<1> HIDE DEF In
<1>4. \A t \in D : \/ t \in DOMAIN g /\ r[t] = In(t) /\ r[t] \in 1 .. n
                   \/ t \notin DOMAIN g /\ r[t] = 0
  BY <1>3
<1>5. r \in [D -> 0 .. n]
  BY <1>2, <1>3
<1> HIDE DEF r, n
<1>6. ASSUME NEW t \in D, NEW d \in Deps(g, t) PROVE d \in D /\ r[d] < r[t]
  <2>1. t \in DOMAIN g /\ d \in g[t] /\ d \in D
    BY DEF Deps, GraphIds
  <2>2. r[t] = In(t) /\ r[t] \in 1 .. n /\ n \in Nat
    BY <1>2, <1>4, <2>1
  <2>3. CASE d \in DOMAIN g
    <3>1. In(d) \in DOMAIN layers /\ In(t) \in DOMAIN layers
          /\ t \in layers[In(t)] /\ d \in layers[In(d)]
      BY <1>2, <1>3, <2>1, <2>3
    <3>2. In(d) < In(t)
      BY <1>1, <2>1, <3>1 DEF Ordered
    <3> QED
      BY <1>4, <2>1, <2>2, <2>3, <3>2
  <2>4. CASE d \notin DOMAIN g
    BY <1>4, <2>1, <2>2, <2>4
  <2> QED
    BY <2>1, <2>3, <2>4
<1> HIDE DEF D
<1>7. Ranks(g, D, n, r)
  BY <1>5, <1>6 DEF Ranks
<1> QED
  BY <1>2, <1>7 DEF D

\* Ids that grow along the dependencies leave no ring.
LEMMA GrowingIsAcyclic ==
    ASSUME NEW g, NEW n \in Nat, DOMAIN g \subseteq 0 .. n,
           \A t \in DOMAIN g : \A d \in g[t] : d < t
    PROVE  IsFiniteSet(DOMAIN g) /\ ~Cyclic(g)
<1>1. IsFiniteSet(DOMAIN g)
  <2>1. IsFiniteSet(0 .. n)
    BY FS_Interval
  <2> QED
    BY <2>1, FS_Subset
<1>2. ASSUME NEW ring \in SUBSET DOMAIN g, \A t \in ring : g[t] \cap ring # {}
      PROVE  ring = {}
  <2> DEFINE S == {k \in 0 .. n : \A t \in ring : ~(t <= k)}
  <2>0. \A t \in ring : t \in Nat /\ t <= n
    OBVIOUS
  <2>1. ASSUME NEW t \in ring PROVE \E d \in ring : d < t /\ d \in Nat /\ t \in Nat
    BY <1>2, <2>0
  <2>2. 0 \in S
    BY <2>0, <2>1
  <2>3. ASSUME NEW k \in 0 .. n, k + 1 \in 0 .. n, k \in S PROVE k + 1 \in S
    <3>1. ASSUME NEW t \in ring, t <= k + 1 PROVE FALSE
      <4>1. PICK d \in ring : d < t /\ d \in Nat /\ t \in Nat
        BY <2>1
      <4>2. d <= k
        BY <3>1, <4>1
      <4> QED
        BY <2>3, <4>2
    <3> QED
      BY <2>3, <3>1
  <2>4. S \in SUBSET (0 .. n)
    OBVIOUS
  <2> HIDE DEF S
  <2>5. n \in S
    BY <2>2, <2>3, <2>4, CountingUp
  <2> QED
    BY <2>0, <2>5 DEF S
<1> QED
  BY <1>1, <1>2 DEF Cyclic

LEMMA LengthFromCongruent ==
    ASSUME NEW g, NEW h, NEW t, NEW e, NEW f, Deps(g, t) = Deps(h, t),
           \A p \in Deps(g, t) : e[p] = f[p]
    PROVE  LengthFrom(g, t, e) = LengthFrom(h, t, f)
<1>1. {e[p] : p \in Deps(g, t)} = {f[p] : p \in Deps(h, t)}
  OBVIOUS
<1> QED
  BY <1>1 DEF LengthFrom

\* A function follows the recursion: build it rank by rank.
LEMMA MeasuresExist ==
    ASSUME NEW g, NEW n \in Nat, NEW D, NEW r, Ranks(g, D, n, r)
    PROVE  \E f : Measures(g, D, f)
<1> DEFINE Below(k) == {t \in D : r[t] < k}
           S == {k \in 0 .. (n + 1) : \E f : Measures(g, Below(k), f)}
<1>0. \A t \in D : r[t] \in Nat /\ r[t] <= n
  BY DEF Ranks
<1>1. 0 \in S
  <2> DEFINE f == [t \in {} |-> 0]
  <2>1. Below(0) = {}
    <3>1. \A i \in Nat : ~(i < 0)
      OBVIOUS
    <3> QED
      BY <1>0, <3>1, Zenon
  <2>2. Measures(g, {}, f)
    BY DEF Measures
  <2>3. 0 \in 0 .. (n + 1)
    OBVIOUS
  <2> QED
    BY <2>1, <2>2, <2>3
<1>2. ASSUME NEW k \in 0 .. (n + 1), k + 1 \in 0 .. (n + 1), k \in S
      PROVE  k + 1 \in S
  <2>1. PICK f : Measures(g, Below(k), f)
    BY <1>2
  <2>2. \A t \in Below(k) : f[t] = LengthFrom(g, t, f)
    BY <2>1 DEF Measures
  <2> DEFINE e == [t \in Below(k + 1) |-> IF r[t] = k THEN LengthFrom(g, t, f) ELSE f[t]]
  <2>3. \A t \in Below(k + 1) : r[t] = k \/ t \in Below(k)
    BY <1>0
  <2>4. \A t \in Below(k) : t \in Below(k + 1) /\ r[t] # k /\ e[t] = f[t]
    BY <1>0
  <2>5. \A t \in Below(k + 1) : Deps(g, t) \subseteq Below(k)
    <3> SUFFICES ASSUME NEW t \in Below(k + 1), NEW p \in Deps(g, t)
                 PROVE  p \in D /\ r[p] < k
      OBVIOUS
    <3>1. t \in D /\ r[t] < k + 1 /\ p \in D /\ r[p] < r[t]
      BY DEF Ranks
    <3>2. r[t] \in Nat /\ r[p] \in Nat /\ k \in Nat
      BY <1>0, <3>1
    <3> QED
      BY <3>1, <3>2
  <2>6. \A t \in Below(k + 1) : e[t] = LengthFrom(g, t, e)
    <3> SUFFICES ASSUME NEW t \in Below(k + 1) PROVE e[t] = LengthFrom(g, t, e)
      OBVIOUS
    <3>1. e[t] = LengthFrom(g, t, f)
      BY <2>2, <2>3
    <3> HIDE DEF e
    <3>2. \A p \in Deps(g, t) : e[p] = f[p]
      BY <2>4, <2>5
    <3> QED
      BY <3>1, <3>2, LengthFromCongruent
  <2>7. Measures(g, Below(k + 1), e)
    <3> DEFINE h == [t \in Below(k + 1) |-> LengthFrom(g, t, e)]
    <3>1. e = h
      BY <2>6
    <3> HIDE DEF e
    <3> QED
      BY <3>1 DEF Measures
  <2> QED
    BY <1>2, <2>7
<1>3. n + 1 \in S
  <2>1. S \in SUBSET (0 .. (n + 1)) /\ n + 1 \in Nat
    OBVIOUS
  <2> HIDE DEF S
  <2> QED
    BY <1>1, <1>2, <2>1, CountingUp
<1>4. Below(n + 1) = D
  <2>1. \A i \in Nat : i <= n => i < n + 1
    OBVIOUS
  <2> QED
    BY <1>0, <2>1, Zenon
<1> QED
  BY <1>3, <1>4

SameDeps(g, h, D) == \A t \in D : Deps(g, t) = Deps(h, t)

\* D has the same dependencies in g and h, and f and e measure them.
Alike(g, h, n, r, D, E, f, e) ==
    /\ D \subseteq E
    /\ Ranks(g, D, n, r) /\ SameDeps(g, h, D)
    /\ Measures(g, D, f) /\ Measures(h, E, e)

\* What it returns for an id of D depends on the dependencies within D only.
LEMMA MeasuresAgree ==
    ASSUME NEW g, NEW h, NEW n \in Nat, NEW r, NEW D, NEW E, NEW f, NEW e,
           Alike(g, h, n, r, D, E, f, e)
    PROVE  \A t \in D : f[t] = e[t]
<1> USE DEF Alike
<1> DEFINE S == {k \in 0 .. (n + 1) : \A t \in D : r[t] < k => f[t] = e[t]}
<1>0. \A t \in D : r[t] \in Nat /\ r[t] <= n
  BY DEF Ranks
<1>1. 0 \in S
  BY <1>0
<1>2. ASSUME NEW k \in 0 .. (n + 1), k + 1 \in 0 .. (n + 1), k \in S
      PROVE  k + 1 \in S
  <2>1. \A t \in D : r[t] < k => f[t] = e[t]
    BY <1>2
  <2>2. ASSUME NEW t \in D, r[t] < k + 1 PROVE f[t] = e[t]
    <3>1. /\ f[t] = LengthFrom(g, t, f) /\ e[t] = LengthFrom(h, t, e)
          /\ Deps(g, t) = Deps(h, t)
      BY DEF Measures, SameDeps
    <3>2. ASSUME NEW p \in Deps(g, t) PROVE f[p] = e[p]
      <4>1. p \in D /\ r[p] < r[t]
        BY DEF Ranks
      <4>2. r[p] \in Nat /\ r[t] \in Nat /\ k \in Nat
        BY <1>0, <4>1
      <4> QED
        BY <2>1, <2>2, <4>1, <4>2
    <3> QED
      BY <3>1, <3>2, LengthFromCongruent
  <2> QED
    BY <1>2, <2>2
<1>3. n + 1 \in S
  <2>1. S \in SUBSET (0 .. (n + 1)) /\ n + 1 \in Nat
    OBVIOUS
  <2> HIDE DEF S
  <2> QED
    BY <1>1, <1>2, <2>1, CountingUp
<1>4. \A t \in D : r[t] < n + 1
  BY <1>0
<1> QED
  BY <1>3, <1>4

\* LengthOf is such a function.
LEMMA LengthOfMeasures ==
    ASSUME NEW g, NEW n \in Nat, NEW r, Ranks(g, GraphIds(g), n, r)
    PROVE  Measures(g, GraphIds(g), LengthOf(g))
<1>1. LengthOf(g) = CHOOSE f : Measures(g, GraphIds(g), f)
  BY DEF LengthOf, Measures, LengthFrom, Deps, GraphIds
<1>2. \E f : Measures(g, GraphIds(g), f)
  BY MeasuresExist
<1> QED
  BY <1>1, <1>2

(* chain_length of a new task does not change when a list without a ring is the
   start of a longer one without a ring: appending tasks does not move the check
   of max_depth for those that were there. *)
THEOREM ChainLengthStable ==
    ASSUME NEW g, NEW h, IsFiniteSet(DOMAIN h), ~Cyclic(h),
           DOMAIN g \subseteq DOMAIN h, \A t \in DOMAIN g : h[t] = g[t],
           \A t \in DOMAIN g : g[t] \subseteq DOMAIN g,
           NEW deps, deps \subseteq DOMAIN g
    PROVE  ChainLength(deps, g) = ChainLength(deps, h)
<1>0. PICK n \in Nat : \E r : Ranks(h, GraphIds(h), n, r)
  BY AcyclicRanks
<1>1. PICK r : Ranks(h, GraphIds(h), n, r)
  BY <1>0
<1>2. GraphIds(g) = DOMAIN g /\ DOMAIN g \subseteq GraphIds(h)
  BY DEF GraphIds
<1> DEFINE q == [t \in DOMAIN g |-> r[t]]
<1>3. Ranks(g, DOMAIN g, n, q)
  <2>1. \A t \in DOMAIN g : r[t] \in 0 .. n /\ \A d \in g[t] : r[d] < r[t]
    BY <1>1, <1>2 DEF Ranks, Deps
  <2>2. q \in [DOMAIN g -> 0 .. n]
    BY <2>1
  <2>3. \A t \in DOMAIN g : \A d \in g[t] : q[d] < q[t]
    BY <2>1
  <2> HIDE DEF q
  <2> QED
    BY <2>2, <2>3 DEF Ranks, Deps
<1> HIDE DEF q
<1>4. Measures(g, DOMAIN g, LengthOf(g)) /\ Measures(h, GraphIds(h), LengthOf(h))
  BY <1>1, <1>2, <1>3, LengthOfMeasures
<1>5. \A t \in DOMAIN g : LengthOf(g)[t] = LengthOf(h)[t]
  <2>1. SameDeps(g, h, DOMAIN g)
    BY DEF SameDeps, Deps
  <2>2. Alike(g, h, n, q, DOMAIN g, GraphIds(h), LengthOf(g), LengthOf(h))
    BY <1>2, <1>3, <1>4, <2>1 DEF Alike
  <2> QED
    BY ONLY n \in Nat, <2>2, MeasuresAgree
<1>6. {IF d \in DOMAIN g THEN LengthOf(g)[d] ELSE 1 : d \in deps}
        = {IF d \in DOMAIN h THEN LengthOf(h)[d] ELSE 1 : d \in deps}
  BY <1>5
<1> QED
  BY <1>6 DEF ChainLength
-----------------------------------------------------------------------------
(* The layers are in dependency order exactly when there is no ring, so that
   submit's check (detect_cycle) and the batch's layers (topological_layers)
   never disagree about a list. *)
THEOREM CyclicExactlyWhenStuck ==
    ASSUME NEW g, IsFiniteSet(DOMAIN g)
    PROVE  Cyclic(g) <=> ~Ordered(Layers(g), g)
<1>1. Partition(Layers(g), DOMAIN g) /\ (~Cyclic(g) => Ordered(Layers(g), g))
  BY LayersPartition
<1>2. ASSUME Ordered(Layers(g), g), NEW ring \in SUBSET DOMAIN g,
             \A t \in ring : g[t] \cap ring # {}
      PROVE  ring = {}
  <2> DEFINE layers == Layers(g)
             n == Len(layers)
             S == {k \in 0 .. n : \A i \in 1 .. k : layers[i] \cap ring = {}}
  <2>1. /\ n \in Nat /\ DOMAIN layers = 1 .. n
        /\ \A t \in DOMAIN g : \E i \in 1 .. n : t \in layers[i]
        /\ \A i, j \in 1 .. n : \A t \in layers[i] : g[t] \cap layers[j] # {} => j < i
    <3>1. layers \in Seq(SUBSET DOMAIN g)
      BY <1>1 DEF Partition
    <3>2. n \in Nat /\ DOMAIN layers = 1 .. n
      BY <3>1
    <3> QED
      BY <1>1, <1>2, <3>2 DEF Partition, Ordered
  <2> HIDE DEF layers, n
  <2>2. 0 \in S
    BY <2>1
  <2>3. ASSUME NEW k \in 0 .. n, k + 1 \in 0 .. n, k \in S PROVE k + 1 \in S
    <3>1. ASSUME NEW t \in layers[k + 1] \cap ring PROVE FALSE
      <4>1. PICK d \in g[t] \cap ring : TRUE
        BY <1>2
      <4>2. PICK j \in 1 .. n : d \in layers[j]
        BY <2>1
      <4>3. j < k + 1
        BY <2>1, <2>3, <4>1, <4>2
      <4>4. j \in 1 .. k
        BY <4>3
      <4> QED
        BY <2>3, <4>1, <4>2, <4>4
    <3>2. \A i \in 1 .. (k + 1) : i = k + 1 \/ i \in 1 .. k
      OBVIOUS
    <3> QED
      BY <2>3, <3>1, <3>2
  <2>4. n \in S
    <3>1. S \in SUBSET (0 .. n)
      OBVIOUS
    <3> HIDE DEF S
    <3> QED
      BY <2>1, <2>2, <2>3, <3>1, CountingUp
  <2> QED
    BY <2>1, <2>4
<1> QED
  BY <1>1, <1>2 DEF Cyclic

(* submit's comment "a new task with a fresh id cannot itself close a loop": a
   list to which a task is added has a ring exactly when it had one before, so
   that detect_cycle may look at the list without the new task. *)
THEOREM FreshTaskClosesNoRing ==
    ASSUME NEW g, NEW id, id \notin GraphIds(g), NEW deps, id \notin deps
    PROVE  LET longer == [t \in DOMAIN g \cup {id} |-> IF t = id THEN deps ELSE g[t]]
           IN  Cyclic(longer) <=> Cyclic(g)
<1> DEFINE longer == [t \in DOMAIN g \cup {id} |-> IF t = id THEN deps ELSE g[t]]
<1>1. /\ DOMAIN longer = DOMAIN g \cup {id} /\ longer[id] = deps
      /\ \A t \in DOMAIN g : longer[t] = g[t] /\ t # id /\ id \notin g[t]
  BY DEF GraphIds
<1> HIDE DEF longer
<1>2. ASSUME Cyclic(g) PROVE Cyclic(longer)
  <2>1. PICK ring \in SUBSET DOMAIN g : ring # {} /\ \A t \in ring : g[t] \cap ring # {}
    BY <1>2 DEF Cyclic
  <2>2. ring \in SUBSET DOMAIN longer /\ \A t \in ring : longer[t] \cap ring # {}
    BY <1>1, <2>1
  <2> QED
    BY <2>1, <2>2 DEF Cyclic
<1>3. ASSUME Cyclic(longer) PROVE Cyclic(g)
  <2>1. PICK ring \in SUBSET DOMAIN longer :
            ring # {} /\ \A t \in ring : longer[t] \cap ring # {}
    BY <1>3 DEF Cyclic
  <2> DEFINE old == ring \ {id}
  <2>2. old \in SUBSET DOMAIN g
    BY <1>1
  <2>3. ASSUME NEW t \in old PROVE g[t] \cap old # {}
    BY <1>1, <2>1, <2>2
  <2>4. old # {}
    <3>1. PICK t \in ring : TRUE
      BY <2>1
    <3>2. CASE t = id
      BY <1>1, <2>1, <3>2
    <3> QED
      BY <3>1, <3>2
  <2> HIDE DEF old
  <2> QED
    BY <2>2, <2>3, <2>4 DEF Cyclic
<1> QED
  BY <1>2, <1>3 DEF longer

-----------------------------------------------------------------------------
LEMMA MaxOfBounded ==
    ASSUME NEW m \in Nat, NEW T \in SUBSET (0 .. m)
    PROVE  /\ MaxOrZero(T) \in T \cup {0}
           /\ MaxOrZero(T) \in 0 .. m
           /\ \A x \in T : x <= MaxOrZero(T)
<1> DEFINE S == {k \in 0 .. m : \E x \in T \cup {0} : \A y \in T : y <= k => y <= x}
<1>1. 0 \in S
  OBVIOUS
<1>2. ASSUME NEW k \in 0 .. m, k + 1 \in 0 .. m, k \in S PROVE k + 1 \in S
  <2>1. PICK x \in T \cup {0} : \A y \in T : y <= k => y <= x
    BY <1>2
  <2>2. \A y \in T : y <= k + 1 => y <= k \/ y = k + 1
    OBVIOUS
  <2>3. CASE k + 1 \in T
    <3>1. \A y \in T : y <= k + 1 => y <= k + 1
      OBVIOUS
    <3> QED
      BY <1>2, <2>3, <3>1
  <2>4. CASE k + 1 \notin T
    BY <1>2, <2>1, <2>2, <2>4
  <2> QED
    BY <2>3, <2>4
<1>3. m \in S
  <2>1. S \in SUBSET (0 .. m)
    OBVIOUS
  <2> HIDE DEF S
  <2> QED
    BY <1>1, <1>2, <2>1, CountingUp
<1>4. PICK x \in T \cup {0} : \A y \in T : y <= x
  <2>1. \A y \in T : y <= m
    OBVIOUS
  <2> QED
    BY <1>3, <2>1
<1>5. MaxOrZero(T) \in T \cup {0} /\ \A y \in T : y <= MaxOrZero(T)
  BY <1>4 DEF MaxOrZero
<1>6. T \cup {0} \subseteq 0 .. m
  OBVIOUS
<1> QED
  BY <1>5, <1>6

\* A length is at most one more than the rank.
LEMMA LengthIsBounded ==
    ASSUME NEW g, NEW n \in Nat, NEW D, NEW r, NEW f,
           Ranks(g, D, n, r), Measures(g, D, f)
    PROVE  \A t \in D : /\ {f[p] : p \in Deps(g, t)} \in SUBSET (0 .. r[t])
                        /\ f[t] = 1 + MaxOrZero({f[p] : p \in Deps(g, t)})
                        /\ f[t] \in 1 .. (r[t] + 1)
<1> DEFINE Fine(t) == f[t] \in 1 .. (r[t] + 1)
           S == {k \in 0 .. (n + 1) : \A t \in D : r[t] < k => Fine(t)}
<1>0. \A t \in D : r[t] \in Nat /\ r[t] <= n
  BY DEF Ranks
<1>1. ASSUME NEW t \in D, \A p \in D : r[p] < r[t] => Fine(p)
      PROVE  /\ {f[p] : p \in Deps(g, t)} \in SUBSET (0 .. r[t])
             /\ f[t] = 1 + MaxOrZero({f[p] : p \in Deps(g, t)})
             /\ Fine(t)
  <2>1. ASSUME NEW p \in Deps(g, t) PROVE f[p] \in 0 .. r[t]
    <3>1. p \in D /\ r[p] < r[t]
      BY DEF Ranks
    <3>2. f[p] \in 1 .. (r[p] + 1) /\ r[p] \in Nat /\ r[t] \in Nat
      BY <1>0, <1>1, <3>1
    <3> QED
      BY <3>1, <3>2
  <2>2. f[t] = 1 + MaxOrZero({f[p] : p \in Deps(g, t)})
    BY DEF Measures, LengthFrom
  <2> DEFINE T == {f[p] : p \in Deps(g, t)}
  <2>3. T \in SUBSET (0 .. r[t])
    BY <2>1
  <2> HIDE DEF T
  <2>4. MaxOrZero(T) \in 0 .. r[t]
    BY <1>0, <2>3, MaxOfBounded
  <2>5. f[t] \in 1 .. (r[t] + 1)
    <3>1. f[t] = 1 + MaxOrZero(T) /\ r[t] \in Nat
      BY <1>0, <2>2 DEF T
    <3> QED
      BY <2>4, <3>1
  <2> QED
    BY <2>2, <2>3, <2>5 DEF T
<1>2. 0 \in S
  BY <1>0
<1>3. ASSUME NEW k \in 0 .. (n + 1), k + 1 \in 0 .. (n + 1), k \in S PROVE k + 1 \in S
  <2>1. ASSUME NEW t \in D, r[t] < k + 1 PROVE Fine(t)
    <3>1. \A p \in D : r[p] < r[t] => r[p] < k
      BY <1>0, <2>1
    <3>2. \A p \in D : r[p] < r[t] => Fine(p)
      BY <1>3, <3>1
    <3> HIDE DEF Fine
    <3> QED
      BY <1>1, <3>2
  <2> HIDE DEF Fine
  <2> QED
    BY <1>3, <2>1
<1>4. n + 1 \in S
  <2>1. S \in SUBSET (0 .. (n + 1)) /\ n + 1 \in Nat
    OBVIOUS
  <2> HIDE DEF S
  <2> QED
    BY <1>2, <1>3, <2>1, CountingUp
<1>5. \A t \in D : Fine(t)
  <2>1. \A t \in D : r[t] < n + 1
    BY <1>0
  <2> HIDE DEF Fine
  <2> QED
    BY <1>4, <2>1
<1> QED
  BY <1>1, <1>5

\* A chain of dependencies, from a task up; its last id need not be listed.
Chain(Id, g, s) ==
    /\ s \in Seq(Id)
    /\ Len(s) > 0
    /\ \A i \in 1 .. (Len(s) - 1) : s[i + 1] \in Deps(g, s[i])

\* A chain of two ids or more without its first ...
LEMMA ChainTail ==
    ASSUME NEW Id, NEW g, NEW s, Chain(Id, g, s), Len(s) # 1
    PROVE  Chain(Id, g, Tail(s)) /\ Tail(s)[1] \in Deps(g, s[1]) /\ Len(s) = 1 + Len(Tail(s))
<1>1. /\ s \in Seq(Id) /\ Len(s) > 0 /\ Len(s) \in Nat
      /\ \A i \in 1 .. (Len(s) - 1) : s[i + 1] \in Deps(g, s[i])
  BY DEF Chain
<1>2. /\ Tail(s) \in Seq(Id) /\ Len(Tail(s)) = Len(s) - 1 /\ Len(s) >= 2
      /\ \A i \in 1 .. (Len(s) - 1) : Tail(s)[i] = s[i + 1]
  <2>1. Len(s) >= 2
    <3>1. PICK l \in Nat : l = Len(s)
      BY <1>1
    <3>2. l > 0 /\ l # 1
      BY <1>1, <3>1
    <3> QED
      BY <3>1, <3>2
  <2>2. s # <<>>
    BY <1>1
  <2> QED
    BY <1>1, <2>1, <2>2
<1>3. Len(Tail(s)) > 0
  BY <1>1, <1>2
<1>4. \A i \in 1 .. (Len(s) - 2) : i + 1 \in 1 .. (Len(s) - 1) /\ i \in 1 .. (Len(s) - 1)
  BY <1>1
<1>5. Tail(s)[1] \in Deps(g, s[1])
  BY <1>1, <1>2
<1>6. \A i \in 1 .. (Len(Tail(s)) - 1) : Tail(s)[i + 1] \in Deps(g, Tail(s)[i])
  <2> SUFFICES ASSUME NEW i \in 1 .. (Len(s) - 2)
               PROVE  Tail(s)[i + 1] \in Deps(g, Tail(s)[i])
    BY <1>1, <1>2
  <2>1. Tail(s)[i] = s[i + 1] /\ Tail(s)[i + 1] = s[(i + 1) + 1]
    BY <1>2, <1>4
  <2> QED
    BY <1>1, <1>4, <2>1
<1> QED
  BY <1>1, <1>2, <1>3, <1>5, <1>6 DEF Chain

\* ... and with one more in front.
LEMMA ChainPrepends ==
    ASSUME NEW Id, NEW g, NEW t \in Id, NEW s, Chain(Id, g, s), s[1] \in Deps(g, t)
    PROVE  /\ Chain(Id, g, <<t>> \o s)
           /\ (<<t>> \o s)[1] = t /\ Len(<<t>> \o s) = 1 + Len(s)
<1> DEFINE r == <<t>> \o s
<1>1. /\ s \in Seq(Id) /\ Len(s) > 0 /\ Len(s) \in Nat
      /\ \A i \in 1 .. (Len(s) - 1) : s[i + 1] \in Deps(g, s[i])
  <2>1. /\ s \in Seq(Id) /\ Len(s) > 0
        /\ \A i \in 1 .. (Len(s) - 1) : s[i + 1] \in Deps(g, s[i])
    BY Zenon DEF Chain
  <2>2. Len(s) \in Nat
    BY ONLY <2>1
  <2> QED
    BY ONLY <2>1, <2>2
<1>2. /\ r \in Seq(Id) /\ Len(r) = 1 + Len(s) /\ r[1] = t /\ Len(r) > 0
      /\ \A i \in 1 .. Len(s) : r[i + 1] = s[i]
  BY <1>1
<1> HIDE DEF r
<1>3. ASSUME NEW i \in 1 .. (Len(r) - 1) PROVE r[i + 1] \in Deps(g, r[i])
  <2>1. CASE i = 1
    BY <1>1, <1>2, <2>1
  <2>2. CASE i # 1
    <3>1. i - 1 \in 1 .. (Len(s) - 1) /\ (i - 1) + 1 = i /\ i \in 1 .. Len(s) /\ i - 1 \in 1 .. Len(s)
      BY <1>1, <1>2, <2>2
    <3>2. r[i + 1] = s[i] /\ r[i] = s[i - 1] /\ s[i] \in Deps(g, s[i - 1])
      BY <1>1, <1>2, <3>1
    <3> QED
      BY <3>2
  <2> QED
    BY <2>1, <2>2
<1> QED
  BY <1>2, <1>3 DEF Chain, r

\* f says how long the longest chain up from t is.
Longest(Id, g, f, t) ==
    /\ \A s : Chain(Id, g, s) /\ s[1] = t => Len(s) <= f[t]
    /\ \E s : Chain(Id, g, s) /\ s[1] = t /\ Len(s) = f[t]

\* What the recursion returns is the length of a longest chain.
LEMMA LengthIsLongestChain ==
    ASSUME NEW Id, NEW g, NEW n \in Nat, NEW D \in SUBSET Id, NEW r, NEW f,
           Ranks(g, D, n, r), Measures(g, D, f)
    PROVE  \A t \in D : Longest(Id, g, f, t)
<1> DEFINE S == {k \in 0 .. (n + 1) : \A t \in D : r[t] < k => Longest(Id, g, f, t)}
           Below(t) == {f[p] : p \in Deps(g, t)}
<1>0. /\ \A t \in D : r[t] \in Nat /\ r[t] <= n
      /\ \A t \in D : /\ Below(t) \in SUBSET (0 .. r[t])
                      /\ f[t] = 1 + MaxOrZero(Below(t))
                      /\ f[t] \in 1 .. (r[t] + 1)
  <2>1. \A t \in D : r[t] \in Nat /\ r[t] <= n
    BY DEF Ranks
  <2> QED
    BY <2>1, LengthIsBounded
<1>1. ASSUME NEW t \in D, \A p \in D : r[p] < r[t] => Longest(Id, g, f, p)
      PROVE  Longest(Id, g, f, t)
  <2> DEFINE T == Below(t)
             m == MaxOrZero(T)
  <2> HIDE DEF Below
  <2>1. T \in SUBSET (0 .. r[t]) /\ f[t] = 1 + m /\ r[t] \in Nat /\ t \in Id
    BY <1>0
  <2> HIDE DEF T
  <2>2. m \in T \cup {0} /\ m \in 0 .. r[t] /\ \A x \in T : x <= m
    BY <2>1, MaxOfBounded
  <2> HIDE DEF m
  <2>3. \A p \in Deps(g, t) : p \in D /\ r[p] < r[t] /\ f[p] \in T
    BY DEF Ranks, T, Below
  <2>6. \A p \in Deps(g, t) : Longest(Id, g, f, p)
    BY <1>1, <2>3
  <2> USE DEF Longest
  <2>4. ASSUME NEW s, Chain(Id, g, s), s[1] = t PROVE Len(s) <= f[t]
    <3>1. CASE Len(s) = 1
      BY <2>1, <2>2, <3>1
    <3>2. CASE Len(s) # 1
      <4>1. /\ Chain(Id, g, Tail(s)) /\ Tail(s)[1] \in Deps(g, t)
            /\ Len(s) = 1 + Len(Tail(s))
        BY <2>4, <3>2, ChainTail
      <4>2. Len(Tail(s)) <= f[Tail(s)[1]] /\ f[Tail(s)[1]] <= m
        BY <2>2, <2>3, <2>6, <4>1
      <4>3. Len(Tail(s)) \in Nat /\ f[Tail(s)[1]] \in 0 .. r[t]
        <5>1. Tail(s) \in Seq(Id)
          BY <4>1 DEF Chain
        <5>2. Len(Tail(s)) \in Nat
          BY <5>1
        <5> QED
          BY <2>1, <2>3, <4>1, <5>2
      <4> QED
        BY <2>1, <2>2, <4>1, <4>2, <4>3
    <3> QED
      BY <3>1, <3>2
  <2>5. \E s : Chain(Id, g, s) /\ s[1] = t /\ Len(s) = f[t]
    <3>1. CASE Deps(g, t) = {}
      <4>1. m = 0
        BY <2>2, <3>1 DEF T, Below
      <4>2. Chain(Id, g, <<t>>) /\ <<t>>[1] = t /\ Len(<<t>>) = 1
        BY <2>1 DEF Chain
      <4> QED
        BY <2>1, <4>1, <4>2
    <3>2. CASE Deps(g, t) # {}
      <4>1. PICK q \in Deps(g, t) : TRUE
        BY <3>2
      <4>2. f[q] \in Nat /\ f[q] >= 1
        <5>1. r[q] \in Nat /\ f[q] \in 1 .. (r[q] + 1)
          BY <1>0, <2>3, <4>1
        <5> QED
          BY ONLY <5>1
      <4>3. f[q] \in T /\ f[q] <= m
        BY <2>2, <2>3, <4>1
      <4>4. m # 0
        BY ONLY <4>2, <4>3
      <4>5. PICK p \in Deps(g, t) : f[p] = m
        BY <2>2, <4>4 DEF T, Below
      <4>6. PICK s : Chain(Id, g, s) /\ s[1] = p /\ Len(s) = m
        BY <2>6, <4>5
      <4>7. /\ Chain(Id, g, <<t>> \o s) /\ (<<t>> \o s)[1] = t
            /\ Len(<<t>> \o s) = 1 + m
        BY <2>1, <4>6, ChainPrepends
      <4> QED
        BY <2>1, <4>7
    <3> QED
      BY <3>1, <3>2
  <2> QED
    BY <2>4, <2>5
<1>2. 0 \in S
  BY <1>0
<1>3. ASSUME NEW k \in 0 .. (n + 1), k + 1 \in 0 .. (n + 1), k \in S PROVE k + 1 \in S
  <2>1. ASSUME NEW t \in D, r[t] < k + 1 PROVE Longest(Id, g, f, t)
    <3>1. \A p \in D : r[p] < r[t] => r[p] < k
      BY <1>0, <2>1
    <3>2. \A p \in D : r[p] < r[t] => Longest(Id, g, f, p)
      BY <1>3, <3>1
    <3> QED
      BY <1>1, <3>2
  <2> QED
    BY <1>3, <2>1
<1>4. n + 1 \in S
  <2>1. S \in SUBSET (0 .. (n + 1)) /\ n + 1 \in Nat
    OBVIOUS
  <2> HIDE DEF S
  <2> QED
    BY <1>2, <1>3, <2>1, CountingUp
<1>5. \A t \in D : Longest(Id, g, f, t)
  <2>1. \A t \in D : r[t] < n + 1
    BY <1>0
  <2> QED
    BY <1>4, <2>1
<1> QED
  BY <1>5

(* chain_length: on any finite list without a ring, which is what detect_cycle
   has established when submit calls it, it is one more than the longest chain
   up from a dependency of the new task, or 1 without any. *)
THEOREM ChainLengthIsLongest ==
    ASSUME NEW Id, NEW g, GraphIds(g) \subseteq Id,
           IsFiniteSet(DOMAIN g), ~Cyclic(g), NEW deps \in SUBSET Id
    PROVE  /\ \A s : Chain(Id, g, s) /\ s[1] \in deps => 1 + Len(s) <= ChainLength(deps, g)
           /\ deps = {} => ChainLength(deps, g) = 1
           /\ deps # {} =>
                 \E s : Chain(Id, g, s) /\ s[1] \in deps /\ 1 + Len(s) = ChainLength(deps, g)
<1> DEFINE D == GraphIds(g)
           f == LengthOf(g)
           L(d) == IF d \in DOMAIN g THEN f[d] ELSE 1
           T == {L(d) : d \in deps}
           m == MaxOrZero(T)
<1>n. PICK n \in Nat : \E r : Ranks(g, D, n, r)
  BY AcyclicRanks
<1>0. PICK r : Ranks(g, D, n, r)
  BY <1>n
<1>1. Measures(g, D, f)
  BY <1>0, LengthOfMeasures
<1>2. ChainLength(deps, g) = 1 + m
  BY DEF ChainLength
<1> HIDE DEF f
<1>3. \A t \in D : /\ f[t] \in 1 .. (n + 1)
                   /\ \A s : Chain(Id, g, s) /\ s[1] = t => Len(s) <= f[t]
                   /\ \E s : Chain(Id, g, s) /\ s[1] = t /\ Len(s) = f[t]
  <2>1. D \in SUBSET Id
    OBVIOUS
  <2> HIDE DEF D
  <2>2. \A t \in D : f[t] \in 1 .. (r[t] + 1) /\ r[t] \in 0 .. n
    BY <1>0, <1>1, LengthIsBounded DEF Ranks
  <2>3. \A t \in D : Longest(Id, g, f, t)
    BY <1>0, <1>1, <2>1, LengthIsLongestChain
  <2>4. \A k \in 0 .. n : 1 .. (k + 1) \subseteq 1 .. (n + 1)
    OBVIOUS
  <2> QED
    BY <2>2, <2>3, <2>4 DEF Longest
<1>4. ASSUME NEW d \in deps
      PROVE  /\ L(d) \in 1 .. (n + 1)
             /\ \A s : Chain(Id, g, s) /\ s[1] = d => Len(s) <= L(d)
             /\ \E s : Chain(Id, g, s) /\ s[1] = d /\ Len(s) = L(d)
  <2>1. CASE d \in DOMAIN g
    <3>1. d \in D /\ L(d) = f[d] /\ d \in Id
      BY <2>1 DEF GraphIds
    <3>2. f[d] \in 1 .. (n + 1)
      BY <1>3, <3>1
    <3> HIDE DEF D, L
    <3> QED
      BY <1>3, <3>1, <3>2
  <2>2. CASE d \notin DOMAIN g
    <3>1. L(d) = 1 /\ Deps(g, d) = {} /\ d \in Id
      <4>1. L(d) = 1
        BY <2>2
      <4>2. Deps(g, d) = {}
        BY <2>2 DEF Deps
      <4>3. d \in Id
        BY ONLY d \in deps, deps \in SUBSET Id
      <4> QED
        BY <4>1, <4>2, <4>3
    <3>2. Chain(Id, g, <<d>>) /\ <<d>>[1] = d /\ Len(<<d>>) = 1
      BY <3>1 DEF Chain
    <3>3. ASSUME NEW s, Chain(Id, g, s), s[1] = d PROVE Len(s) = 1
      BY <3>1, <3>3, ChainTail
    <3> HIDE DEF L
    <3>4. L(d) \in 1 .. (n + 1)
      BY <3>1
    <3>5. \A s : Chain(Id, g, s) /\ s[1] = d => Len(s) <= L(d)
      <4> SUFFICES ASSUME NEW s, Chain(Id, g, s), s[1] = d PROVE Len(s) <= L(d)
        OBVIOUS
      <4>1. Len(s) = 1
        BY <3>3
      <4> QED
        BY <3>1, <4>1
    <3> QED
      BY <3>1, <3>2, <3>4, <3>5
  <2> QED
    BY <2>1, <2>2
<1> HIDE DEF L
<1>5. T \in SUBSET (0 .. (n + 1)) /\ n + 1 \in Nat
  BY <1>4
<1>6. m \in T \cup {0} /\ m \in 0 .. (n + 1) /\ \A x \in T : x <= m
  <2> HIDE DEF T
  <2> QED
    BY <1>5, MaxOfBounded
<1> HIDE DEF m
<1>7. ASSUME NEW s, Chain(Id, g, s), s[1] \in deps PROVE 1 + Len(s) <= 1 + m
  <2>1. Len(s) <= L(s[1]) /\ L(s[1]) <= m /\ L(s[1]) \in 1 .. (n + 1)
    BY <1>4, <1>6, <1>7
  <2>2. Len(s) \in Nat
    BY <1>7 DEF Chain
  <2> QED
    BY <1>6, <2>1, <2>2
<1>8. deps = {} => m = 0
  BY <1>6
<1>9. ASSUME deps # {}
      PROVE  \E s : Chain(Id, g, s) /\ s[1] \in deps /\ 1 + Len(s) = 1 + m
  <2>1. PICK c \in deps : TRUE
    BY <1>9
  <2>2. L(c) \in 1 .. (n + 1) /\ L(c) <= m
    BY <1>4, <1>6, <2>1
  <2>3. m # 0
    BY <1>6, <2>2
  <2>4. PICK d \in deps : L(d) = m
    BY <1>6, <2>3
  <2>5. PICK s : Chain(Id, g, s) /\ s[1] = d /\ Len(s) = m
    BY <1>4, <2>4
  <2> QED
    BY <2>5
<1> QED
  BY <1>2, <1>6, <1>7, <1>8, <1>9

-----------------------------------------------------------------------------
(* The loops of DagAlgorithms are recursions over the number of steps taken. *)
\* A function follows this definition by recursion ...
Iterates(run, start, step) ==
    run = [n \in Nat |-> IF n = 0 THEN start ELSE step[run[n - 1]]]

\* ... and there is one that does.
LEMMA RunsExist ==
    ASSUME NEW S, NEW start \in S, NEW step \in [S -> S]
    PROVE  \E run : Iterates(run, start, step)
<1> DEFINE Follows(f, k) == /\ f[0] = start
                            /\ \A i \in 0 .. k : f[i] \in S
                            /\ \A i \in 0 .. k : i # 0 => f[i] = step[f[i - 1]]
<1>1. ASSUME NEW k \in Nat PROVE \E f : Follows(f, k)
  <2> DEFINE T == {j \in 0 .. k : \E f : Follows(f, j)}
  <2>1. 0 \in T
    <3>1. Follows([i \in {0} |-> start], 0)
      OBVIOUS
    <3> HIDE DEF Follows
    <3> QED
      BY <3>1
  <2>2. ASSUME NEW j \in 0 .. k, j + 1 \in 0 .. k, j \in T PROVE j + 1 \in T
    <3>1. PICK f : Follows(f, j)
      BY <2>2
    <3> DEFINE h == [i \in 0 .. (j + 1) |-> IF i = j + 1 THEN step[f[j]] ELSE f[i]]
    <3>2. h[0] = start /\ \A i \in 0 .. j : h[i] = f[i]
      BY <3>1
    <3>3. h[j + 1] = step[h[j]] /\ h[j + 1] \in S
      BY <3>1
    <3>4. \A i \in 0 .. (j + 1) : i = j + 1 \/ (i \in 0 .. j /\ (i # 0 => i - 1 \in 0 .. j))
      OBVIOUS
    <3> HIDE DEF h
    <3>5. Follows(h, j + 1)
      BY <3>1, <3>2, <3>3, <3>4
    <3> HIDE DEF Follows
    <3> QED
      BY <2>2, <3>5
  <2> HIDE DEF Follows
  <2>3. T \in SUBSET (0 .. k)
    OBVIOUS
  <2> HIDE DEF T
  <2>4. k \in T
    BY <2>1, <2>2, <2>3, CountingUp
  <2> QED
    BY <2>4 DEF T
<1>2. ASSUME NEW j \in Nat, NEW k \in Nat, j <= k, NEW f, NEW h, Follows(f, j), Follows(h, k)
      PROVE  f[j] = h[j]
  <2> DEFINE T == {i \in 0 .. j : f[i] = h[i]}
  <2>1. 0 \in T
    BY <1>2
  <2>2. ASSUME NEW i \in 0 .. j, i + 1 \in 0 .. j, i \in T PROVE i + 1 \in T
    <3>1. i + 1 \in 0 .. k /\ i + 1 # 0 /\ (i + 1) - 1 = i
      BY <1>2, <2>2
    <3>2. f[i + 1] = step[f[i]] /\ h[i + 1] = step[h[i]]
      BY <1>2, <2>2, <3>1
    <3> QED
      BY <2>2, <3>2
  <2>3. T \in SUBSET (0 .. j)
    OBVIOUS
  <2> HIDE DEF T, Follows
  <2>4. j \in T
    BY <2>1, <2>2, <2>3, CountingUp
  <2> QED
    BY <2>4 DEF T
<1> DEFINE Some(k) == CHOOSE f : Follows(f, k)
           run == [n \in Nat |-> Some(n)[n]]
<1>3. \A k \in Nat : Follows(Some(k), k)
  <2> HIDE DEF Follows
  <2> QED
    BY <1>1
<1> HIDE DEF Some
<1>4. ASSUME NEW n \in Nat PROVE run[n] = IF n = 0 THEN start ELSE step[run[n - 1]]
  <2>1. CASE n = 0
    BY <1>3, <2>1
  <2>2. CASE n # 0
    <3>1. n - 1 \in Nat /\ n - 1 <= n /\ n \in 0 .. n
      BY <2>2
    <3>2. run[n] = Some(n)[n] /\ run[n - 1] = Some(n - 1)[n - 1]
      BY <3>1
    <3> HIDE DEF run
    <3>3. Follows(Some(n), n) /\ Follows(Some(n - 1), n - 1)
      BY <1>3, <3>1
    <3>4. Some(n)[n] = step[Some(n)[n - 1]]
      BY <2>2, <3>1, <3>3
    <3>5. Some(n - 1)[n - 1] = Some(n)[n - 1]
      <4> HIDE DEF Follows
      <4> QED
        BY <1>2, <3>1, <3>3
    <3> QED
      BY <2>2, <3>2, <3>4, <3>5
  <2> QED
    BY <2>1, <2>2
<1>5. Iterates(run, start, step)
  <2> DEFINE h == [n \in Nat |-> IF n = 0 THEN start ELSE step[run[n - 1]]]
  <2>1. \A n \in Nat : run[n] = h[n]
    BY <1>4
  <2>2. run = h
    BY <2>1
  <2> HIDE DEF run
  <2> QED
    BY <2>2 DEF Iterates
<1> QED
  BY <1>5

LEMMA StaysIn ==
    ASSUME NEW S, NEW run, run[0] \in S,
           \A n \in Nat : run[n] \in S => run[n + 1] \in S
    PROVE  \A n \in Nat : run[n] \in S
<1> SUFFICES ASSUME NEW n \in Nat PROVE run[n] \in S
  OBVIOUS
<1> DEFINE T == {k \in 0 .. n : run[k] \in S}
<1>1. 0 \in T /\ T \in SUBSET (0 .. n) /\ \A k \in 0 .. n : k + 1 \in 0 .. n /\ k \in T => k + 1 \in T
  OBVIOUS
<1> HIDE DEF T
<1>2. n \in T
  BY <1>1, CountingUp
<1> QED
  BY <1>2 DEF T

-----------------------------------------------------------------------------
(* topological_layers: Kahn's rounds empty the sets that Peeling peels.  A round
   that is not the last one empties at least one id, so that as many rounds as
   there are ids are enough. *)
\* A task list: finitely many ids, each with a list of ids.
TaskList(list, Id) ==
    /\ IsFiniteSet(DOMAIN list) /\ DOMAIN list \subseteq Id
    /\ \A t \in DOMAIN list : list[t] \in Seq(Id)

\* The counts that Kahn's rounds keep (in_degree) are 0 for the free ids.
LEMMA OccurrencesCount ==
    ASSUME NEW Id, NEW list, TaskList(list, Id), NEW t \in DOMAIN list, NEW R
    PROVE  /\ Occurrences(list, t, R) \in Nat
           /\ Occurrences(list, t, R) = 0 <=> GraphOf(list)[t] \cap R = {}
           /\ \A L : L \subseteq R =>
                 Occurrences(list, t, R \ L) = Occurrences(list, t, R) - Occurrences(list, t, L)
<1> DEFINE In(X) == {i \in DOMAIN list[t] : list[t][i] \in X}
<1>1. IsFiniteSet(DOMAIN list[t])
  <2>1. list[t] \in Seq(Id)
    BY DEF TaskList
  <2>2. DOMAIN list[t] = 1 .. Len(list[t]) /\ Len(list[t]) \in Nat
    BY <2>1
  <2> QED
    BY <2>2, FS_Interval
<1>2. \A X : IsFiniteSet(In(X)) /\ Cardinality(In(X)) \in Nat
  <2> SUFFICES ASSUME NEW X PROVE IsFiniteSet(In(X)) /\ Cardinality(In(X)) \in Nat
    OBVIOUS
  <2>1. In(X) \in SUBSET DOMAIN list[t]
    OBVIOUS
  <2> HIDE DEF In
  <2> QED
    BY <1>1, <2>1, FS_Subset, FS_CardinalityType
<1>3. \A X : Occurrences(list, t, X) = Cardinality(In(X))
  BY DEF Occurrences
<1>4. In(R) = {} <=> GraphOf(list)[t] \cap R = {}
  BY DEF GraphOf, ToSet
<1>5. ASSUME NEW L, L \subseteq R
      PROVE  Cardinality(In(R \ L)) = Cardinality(In(R)) - Cardinality(In(L))
  <2>1. In(R \ L) = In(R) \ In(L) /\ In(R) \cap In(L) = In(L)
    BY <1>5
  <2> HIDE DEF In
  <2> QED
    BY <1>2, <2>1, FS_Difference
<1> HIDE DEF In
<1>6. Cardinality(In(R)) = 0 <=> In(R) = {}
  BY <1>2, FS_EmptySet
<1> QED
  BY <1>2, <1>3, <1>4, <1>5, <1>6

\* States of the layering loop: the counters count the edges into what remains,
\* and peeling the rest completes the layers.
KahnStates(list) ==
    {s \in [remaining : SUBSET DOMAIN list, in_degree : [DOMAIN list -> Int],
            layers : Seq(SUBSET DOMAIN list)] :
        /\ \A t \in s.remaining : s.in_degree[t] = Occurrences(list, t, s.remaining)
        /\ s.layers \o Peeling(GraphOf(list))[s.remaining] = Layers(GraphOf(list))}

LEMMA KahnState ==
    ASSUME NEW list, NEW r \in SUBSET DOMAIN list, NEW d \in [DOMAIN list -> Int],
           NEW l \in Seq(SUBSET DOMAIN list),
           \A t \in r : d[t] = Occurrences(list, t, r),
           l \o Peeling(GraphOf(list))[r] = Layers(GraphOf(list))
    PROVE  [remaining |-> r, in_degree |-> d, layers |-> l] \in KahnStates(list)
  BY DEF KahnStates

LEMMA AppendThenConcat ==
    ASSUME NEW S, NEW a \in Seq(S), NEW x \in S, NEW b \in Seq(S)
    PROVE  Append(a, x) \o b = a \o (<<x>> \o b)
<1>1. Append(a, x) = a \o <<x>> /\ <<x>> \in Seq(S)
  BY AppendIsConcat
<1> DEFINE u == <<x>>
<1>2. (a \o u) \o b = a \o (u \o b)
  <2>1. u \in Seq(S)
    BY <1>1
  <2> HIDE DEF u
  <2> QED
    BY <2>1, ConcatAssociative
<1> QED
  BY <1>1, <1>2

LEMMA PeelingAt ==
    ASSUME NEW g, IsFiniteSet(DOMAIN g), NEW rest \in SUBSET DOMAIN g
    PROVE  /\ Peeling(g)[rest] \in Seq(SUBSET DOMAIN g)
           /\ Peeling(g)[rest] =
                 IF rest = {} THEN <<>>
                 ELSE IF Free(g, rest) = {} THEN <<rest>>
                 ELSE <<Free(g, rest)>> \o Peeling(g)[rest \ Free(g, rest)]
<1>1. Peeling(g)[rest] \in Seq(SUBSET rest) /\ SUBSET rest \subseteq SUBSET DOMAIN g
  BY PeelingLayers DEF Partition
<1>2. Peeling(g)[rest] \in Seq(SUBSET DOMAIN g)
  BY ONLY <1>1, SeqMonotonic
<1> QED
  BY <1>2, PeelingPeels, PeelsAt DEF Peeled

\* The first state is that of Peeling with all ids left.
LEMMA KahnStarts ==
    ASSUME NEW Id, NEW list, TaskList(list, Id)
    PROVE  KahnStart(list) \in KahnStates(list)
<1> DEFINE g == GraphOf(list)
<1>1. DOMAIN g = DOMAIN list /\ IsFiniteSet(DOMAIN g)
  BY DEF TaskList, GraphOf
<1>2. Peeling(g)[DOMAIN list] \in Seq(SUBSET DOMAIN list) /\ Layers(g) = Peeling(g)[DOMAIN list]
  BY <1>1, PeelingAt DEF Layers
<1>3. <<>> \o Peeling(g)[DOMAIN list] = Layers(g)
  BY <1>2, ConcatEmptySeq
<1>4. \A t \in DOMAIN list : Occurrences(list, t, DOMAIN list) \in Int
  BY OccurrencesCount
<1> DEFINE d == [t \in DOMAIN list |-> Occurrences(list, t, DOMAIN list)]
<1>5. /\ DOMAIN list \in SUBSET DOMAIN list /\ <<>> \in Seq(SUBSET DOMAIN list)
      /\ d \in [DOMAIN list -> Int]
      /\ \A t \in DOMAIN list : d[t] = Occurrences(list, t, DOMAIN list)
  BY <1>4
<1>6. KahnStart(list) = [remaining |-> DOMAIN list, in_degree |-> d, layers |-> <<>>]
  BY DEF KahnStart
<1> HIDE DEF d
<1> QED
  BY <1>3, <1>5, <1>6, KahnState

\* A round empties the ids that Peeling peels next, or all of them.
LEMMA KahnGoesOn ==
    ASSUME NEW Id, NEW list, TaskList(list, Id), NEW s \in KahnStates(list)
    PROVE  /\ KahnRound(list, s) \in KahnStates(list)
           /\ s.remaining # {} => /\ KahnRound(list, s).remaining \subseteq s.remaining
                                  /\ KahnRound(list, s).remaining # s.remaining
           /\ s.remaining = {} => KahnRound(list, s) = s
<1> DEFINE g == GraphOf(list)
           rest == s.remaining
           layer == {t \in rest : s.in_degree[t] = 0}
           left == rest \ layer
           P == Peeling(g)
           degree == [t \in DOMAIN list |->
                         IF t \in left THEN s.in_degree[t] - Occurrences(list, t, layer)
                         ELSE s.in_degree[t]]
<1>1. /\ rest \in SUBSET DOMAIN list /\ s.in_degree \in [DOMAIN list -> Int]
      /\ s.layers \in Seq(SUBSET DOMAIN list)
      /\ \A t \in rest : s.in_degree[t] = Occurrences(list, t, rest)
      /\ s.layers \o P[rest] = Layers(g)
      /\ s = [remaining |-> rest, in_degree |-> s.in_degree, layers |-> s.layers]
  BY DEF KahnStates
<1>2. DOMAIN g = DOMAIN list /\ IsFiniteSet(DOMAIN g)
  BY DEF TaskList, GraphOf
<1>3. layer = Free(g, rest)
  <2>1. \A t \in rest : Occurrences(list, t, rest) = 0 <=> g[t] \cap rest = {}
    BY <1>1, OccurrencesCount
  <2> QED
    BY <1>1, <2>1 DEF Free
<1>4. KahnRound(list, s) =
        IF rest = {} THEN s
        ELSE IF layer = {}
        THEN [remaining |-> {}, in_degree |-> s.in_degree, layers |-> Append(s.layers, rest)]
        ELSE [remaining |-> left, in_degree |-> degree, layers |-> Append(s.layers, layer)]
  BY DEF KahnRound
<1>5. CASE rest = {}
  BY <1>4, <1>5
<1>6. CASE rest # {} /\ layer = {}
  <2>1. P[rest] = <<rest>> /\ P[{}] = <<>>
    BY <1>1, <1>2, <1>3, <1>6, PeelingAt
  <2>2. Append(s.layers, rest) \in Seq(SUBSET DOMAIN list)
    BY <1>1, AppendProperties
  <2>3. Append(s.layers, rest) \o P[{}] = Layers(g)
    <3>1. Append(s.layers, rest) = s.layers \o <<rest>>
      BY <1>1, AppendIsConcat
    <3> HIDE DEF P, rest
    <3> QED
      BY <1>1, <2>1, <2>2, <3>1, ConcatEmptySeq
  <2>4. KahnRound(list, s) = [remaining |-> {}, in_degree |-> s.in_degree,
                              layers |-> Append(s.layers, rest)]
    BY <1>4, <1>6
  <2>5. KahnRound(list, s) \in KahnStates(list)
    <3> HIDE DEF layer, left, degree, rest
    <3> QED
      BY <1>1, <2>2, <2>3, <2>4, KahnState
  <2>6. KahnRound(list, s).remaining = {}
    BY <2>4
  <2> QED
    BY <1>6, <2>5, <2>6
<1>7. CASE rest # {} /\ layer # {}
  <2>1. P[rest] = <<layer>> \o P[left]
    <3>1. rest \in SUBSET DOMAIN g /\ Free(g, rest) # {} /\ rest # {}
      BY <1>1, <1>2, <1>3, <1>7
    <3>2. P[rest] = <<Free(g, rest)>> \o P[rest \ Free(g, rest)]
      <4> HIDE DEF g, rest
      <4> QED
        BY <1>2, <3>1, PeelingAt
    <3> QED
      BY <1>3, <3>2
  <2>2. /\ layer \in SUBSET DOMAIN list /\ left \in SUBSET DOMAIN list
        /\ P[left] \in Seq(SUBSET DOMAIN list)
    <3>1. layer \in SUBSET DOMAIN list /\ left \in SUBSET DOMAIN g
      BY <1>1, <1>2
    <3> HIDE DEF left, layer, P, g
    <3> QED
      BY <1>2, <3>1, PeelingAt DEF P
  <2>3. Append(s.layers, layer) \in Seq(SUBSET DOMAIN list)
    BY <1>1, <2>2, AppendProperties
  <2>4. Append(s.layers, layer) \o P[left] = Layers(g)
    <3> HIDE DEF layer, left, P, rest
    <3>1. Append(s.layers, layer) \o P[left] = s.layers \o (<<layer>> \o P[left])
      <4> DEFINE Q == SUBSET DOMAIN list
      <4>1. s.layers \in Seq(Q) /\ layer \in Q /\ P[left] \in Seq(Q)
        BY <1>1, <2>2
      <4> HIDE DEF Q
      <4>2. \A a, b \in Seq(Q) : Append(a, layer) \o b = a \o (<<layer>> \o b)
        BY <4>1, AppendThenConcat
      <4> QED
        BY <4>1, <4>2, Zenon
    <3> QED
      BY <1>1, <2>1, <3>1
  <2>5. /\ degree \in [DOMAIN list -> Int]
        /\ \A t \in left : degree[t] = Occurrences(list, t, left)
    <3>1. layer \subseteq rest
      OBVIOUS
    <3> HIDE DEF layer
    <3>2. \A t \in left : /\ t \in DOMAIN list /\ t \in rest
                          /\ degree[t] = Occurrences(list, t, rest) - Occurrences(list, t, layer)
      BY <1>1
    <3>3. \A t \in DOMAIN list : Occurrences(list, t, layer) \in Nat
      BY OccurrencesCount
    <3>4. degree \in [DOMAIN list -> Int]
      BY <1>1, <3>3
    <3> HIDE DEF rest, degree
    <3>5. \A t \in left : Occurrences(list, t, rest \ layer)
                            = Occurrences(list, t, rest) - Occurrences(list, t, layer)
      BY <3>1, <3>2, OccurrencesCount
    <3> QED
      BY <3>2, <3>4, <3>5
  <2>6. KahnRound(list, s) = [remaining |-> left, in_degree |-> degree,
                              layers |-> Append(s.layers, layer)]
    BY <1>4, <1>7
  <2>7. left \subseteq rest /\ left # rest
    BY <1>7
  <2>8. KahnRound(list, s) \in KahnStates(list)
    <3> HIDE DEF layer, left, degree, rest
    <3> QED
      BY <2>2, <2>3, <2>4, <2>5, <2>6, KahnState
  <2>9. KahnRound(list, s).remaining = left
    BY <2>6
  <2> QED
    BY <1>7, <2>7, <2>8, <2>9
<1> QED
  BY <1>5, <1>6, <1>7

\* Kahn is that recursion, and its states stay in KahnStates.
LEMMA KahnRuns ==
    ASSUME NEW Id, NEW list, TaskList(list, Id)
    PROVE  /\ Kahn(list)[0] = KahnStart(list)
           /\ \A n \in Nat : /\ Kahn(list)[n] \in KahnStates(list)
                             /\ Kahn(list)[n + 1] = KahnRound(list, Kahn(list)[n])
<1> DEFINE S == KahnStates(list)
           step == [s \in S |-> KahnRound(list, s)]
           Runs(f) == f = [n \in Nat |-> IF n = 0 THEN KahnStart(list)
                                         ELSE KahnRound(list, f[n - 1])]
<1>1. KahnStart(list) \in S /\ step \in [S -> S] /\ \A s \in S : step[s] = KahnRound(list, s)
  BY KahnStarts, KahnGoesOn
<1> HIDE DEF S, step
<1>2. PICK f : Iterates(f, KahnStart(list), step)
  BY <1>1, RunsExist
<1>3. f[0] = KahnStart(list) /\ \A n \in Nat : f[n + 1] = step[f[n]]
  BY <1>2 DEF Iterates
<1>4. \A n \in Nat : f[n] \in S
  BY <1>1, <1>3, StaysIn
<1>5. Runs(f)
  <2>1. \A n \in Nat : n # 0 => n - 1 \in Nat /\ step[f[n - 1]] = KahnRound(list, f[n - 1])
    BY <1>1, <1>4
  <2> QED
    BY <1>2, <2>1 DEF Iterates
<1>6. Runs(Kahn(list))
  <2>1. Kahn(list) = CHOOSE h : Runs(h)
    BY DEF Kahn
  <2> HIDE DEF Runs
  <2> QED
    BY <1>5, <2>1
<1>7. /\ Kahn(list)[0] = KahnStart(list)
      /\ \A n \in Nat : Kahn(list)[n + 1] = KahnRound(list, Kahn(list)[n])
  BY <1>6
<1>8. \A n \in Nat : Kahn(list)[n] \in S
  <2>1. \A n \in Nat : Kahn(list)[n] \in S => Kahn(list)[n + 1] \in S
    BY <1>1, <1>7
  <2> QED
    BY <1>1, <1>7, <2>1, StaysIn
<1> QED
  BY <1>7, <1>8 DEF S

(* topological_layers, for every finite task list, with repeated and unknown
   dependencies and with rings: its counters compute the layers of Dag, which
   are a partition of the ids, in dependency order when there is no ring. *)
THEOREM TopologicalLayersCorrect ==
    ASSUME NEW Id, NEW list, TaskList(list, Id)
    PROVE  LayersAnswer(list, TopologicalLayers(list))
<1> DEFINE g == GraphOf(list)
           c == Cardinality(DOMAIN list)
           run == Kahn(list)
           Left(n) == Cardinality(run[n].remaining)
           T == {n \in 0 .. c : run[n].remaining = {} \/ Left(n) + n <= c}
<1>1. DOMAIN g = DOMAIN list /\ IsFiniteSet(DOMAIN list) /\ c \in Nat
  BY FS_CardinalityType DEF TaskList, GraphOf
<1>2. /\ run[0].remaining = DOMAIN list
      /\ \A n \in Nat : run[n] \in KahnStates(list) /\ run[n + 1] = KahnRound(list, run[n])
  <2>1. run[0].remaining = DOMAIN list
    <3>1. run[0] = KahnStart(list)
      BY KahnRuns
    <3> HIDE DEF run
    <3> QED
      BY <3>1 DEF KahnStart
  <2> QED
    BY <2>1, KahnRuns
<1> HIDE DEF run
<1>3. \A n \in Nat : /\ IsFiniteSet(run[n].remaining) /\ Left(n) \in Nat
                     /\ run[n].remaining \in SUBSET DOMAIN list
                     /\ run[n].layers \in Seq(SUBSET DOMAIN list)
                     /\ run[n].layers \o Peeling(g)[run[n].remaining] = Layers(g)
  <2>1. \A n \in Nat : run[n].remaining \in SUBSET DOMAIN list
    BY <1>2 DEF KahnStates
  <2> QED
    BY <1>1, <1>2, <2>1, FS_Subset, FS_CardinalityType DEF KahnStates
<1>4. 0 \in T
  BY <1>1, <1>2, <1>3
<1>5. ASSUME NEW n \in 0 .. c, n + 1 \in 0 .. c, n \in T PROVE n + 1 \in T
  <2>1. n \in Nat /\ n + 1 \in Nat
    BY <1>1
  <2>2. CASE run[n].remaining = {}
    BY <1>2, <1>5, <2>1, <2>2, KahnGoesOn
  <2>3. CASE run[n].remaining # {}
    <3>1. /\ run[n + 1].remaining \in SUBSET run[n].remaining
          /\ run[n + 1].remaining # run[n].remaining
      BY <1>2, <2>1, <2>3, KahnGoesOn
    <3>2. Left(n + 1) <= Left(n) /\ Left(n + 1) # Left(n)
      BY <1>3, <2>1, <3>1, FS_Subset
    <3>3. Left(n) \in Nat /\ Left(n + 1) \in Nat /\ Left(n) + n <= c
      BY <1>3, <1>5, <2>1, <2>3
    <3> HIDE DEF Left, c
    <3>4. Left(n + 1) + (n + 1) <= c
      BY <1>1, <2>1, <3>2, <3>3
    <3> QED
      BY <1>5, <3>4
  <2> QED
    BY <2>2, <2>3
<1>6. T \in SUBSET (0 .. c)
  OBVIOUS
<1> HIDE DEF T
<1>7. c \in T
  BY <1>1, <1>4, <1>5, <1>6, CountingUp
<1>8. run[c].remaining = {}
  <2>1. CASE Left(c) + c <= c
    <3>1. Left(c) = 0
      <4>1. Left(c) \in Nat
        BY <1>1, <1>3
      <4> HIDE DEF Left, c
      <4> QED
        BY <1>1, <2>1, <4>1
    <3> QED
      BY <1>1, <1>3, <3>1, FS_EmptySet
  <2> QED
    BY <1>7, <2>1 DEF T
<1>9. run[c].layers = Layers(g)
  <2>1. Peeling(g)[{}] = <<>>
    BY <1>1, PeelingAt
  <2>2. run[c].layers \o <<>> = Layers(g) /\ run[c].layers \in Seq(SUBSET DOMAIN list)
    BY <1>1, <1>3, <1>8, <2>1
  <2> QED
    BY <2>2, ConcatEmptySeq
<1>10. TopologicalLayers(list) = Layers(g)
  BY <1>9 DEF TopologicalLayers, run
<1> HIDE DEF g
<1>11. Partition(Layers(g), DOMAIN list) /\ (~Cyclic(g) => Ordered(Layers(g), g))
  BY <1>1, LayersPartition
<1> QED
  BY <1>10, <1>11 DEF LayersAnswer, g

-----------------------------------------------------------------------------
(* ancestor_tasks: its walk pushes the places of a task's list once, when it
   meets the task, and pops one of them in every step. *)
LEMMA FrontAndLast ==
    ASSUME NEW S, NEW s \in Seq(S), s # <<>>
    PROVE  /\ Front(s) \in Seq(S) /\ Len(Front(s)) = Len(s) - 1 /\ Len(s) \in Nat \ {0}
           /\ \A i \in 1 .. Len(s) - 1 : Front(s)[i] = s[i]
           /\ Last(s) \in S /\ Last(s) = s[Len(s)]
           /\ ToSet(s) = ToSet(Front(s)) \cup {Last(s)}
<1>1. Len(s) \in Nat \ {0} /\ DOMAIN s = 1 .. Len(s) /\ \A i \in 1 .. Len(s) : s[i] \in S
  BY EmptySeq
<1>2. /\ Front(s) \in Seq(S) /\ Len(Front(s)) = Len(s) - 1
      /\ \A i \in 1 .. Len(s) - 1 : Front(s)[i] = s[i]
  <2> DEFINE m == Len(s) - 1
             f == SubSeq(s, 1, m)
  <2>1. m \in Nat /\ \A i \in 1 .. m : s[i] \in S
    BY <1>1
  <2>2. /\ f \in Seq(S) /\ Len(f) = IF 1 <= m THEN m - 1 + 1 ELSE 0
        /\ \A i \in 1 .. m - 1 + 1 : f[i] = s[1 + i - 1]
    <3> HIDE DEF m
    <3> QED
      BY <2>1, SubSeqProperties
  <2>3. Len(f) = m /\ \A i \in 1 .. m : f[i] = s[i]
    <3> HIDE DEF m, f
    <3> QED
      BY <2>1, <2>2
  <2> QED
    BY <2>2, <2>3 DEF Front
<1>3. DOMAIN Front(s) = 1 .. Len(s) - 1
  BY <1>2, LenProperties
<1>4. ToSet(s) = ToSet(Front(s)) \cup {Last(s)}
  <2>1. \A l \in Nat \ {0} : /\ \A i \in 1 .. l : i \in 1 .. l - 1 \/ i = l
                             /\ \A i \in 1 .. l - 1 : i \in 1 .. l
                             /\ l \in 1 .. l
    OBVIOUS
  <2>2. /\ ToSet(s) = {s[i] : i \in 1 .. Len(s)}
        /\ ToSet(Front(s)) = {s[i] : i \in 1 .. Len(s) - 1}
    BY <1>1, <1>2, <1>3 DEF ToSet
  <2>3. /\ \A i \in 1 .. Len(s) : i \in 1 .. Len(s) - 1 \/ i = Len(s)
        /\ \A i \in 1 .. Len(s) - 1 : i \in 1 .. Len(s)
        /\ Len(s) \in 1 .. Len(s)
    BY <1>1, <2>1
  <2> HIDE DEF Last
  <2>4. Last(s) = s[Len(s)]
    BY DEF Last
  <2> QED
    BY <2>2, <2>3, <2>4, Zenon
<1> QED
  BY <1>1, <1>2, <1>4 DEF Last

LEMMA ToSetOfConcat ==
    ASSUME NEW S, NEW a \in Seq(S), NEW b \in Seq(S)
    PROVE  ToSet(a \o b) = ToSet(a) \cup ToSet(b)
<1>1. /\ a \o b \in Seq(S) /\ Len(a \o b) = Len(a) + Len(b)
      /\ \A i \in 1 .. Len(a) + Len(b) :
            (a \o b)[i] = IF i <= Len(a) THEN a[i] ELSE b[i - Len(a)]
      /\ Len(a) \in Nat /\ Len(b) \in Nat
  BY ConcatProperties
<1>2. /\ DOMAIN a = 1 .. Len(a) /\ DOMAIN b = 1 .. Len(b)
      /\ DOMAIN (a \o b) = 1 .. Len(a) + Len(b)
  BY <1>1, LenProperties
<1>3. ToSet(a \o b) \subseteq ToSet(a) \cup ToSet(b)
  <2>1. \A i \in 1 .. Len(a) + Len(b) :
           IF i <= Len(a) THEN i \in 1 .. Len(a) ELSE i - Len(a) \in 1 .. Len(b)
    BY <1>1
  <2> QED
    BY <1>1, <1>2, <2>1 DEF ToSet
<1>4. ToSet(a) \subseteq ToSet(a \o b)
  <2>1. \A i \in 1 .. Len(a) : i \in 1 .. Len(a) + Len(b) /\ i <= Len(a)
    BY <1>1
  <2> QED
    BY <1>1, <1>2, <2>1 DEF ToSet
<1>5. ToSet(b) \subseteq ToSet(a \o b)
  <2>1. \A i \in 1 .. Len(b) : /\ i + Len(a) \in 1 .. Len(a) + Len(b)
                               /\ ~(i + Len(a) <= Len(a)) /\ (i + Len(a)) - Len(a) = i
    BY <1>1
  <2> QED
    BY <1>1, <1>2, <2>1 DEF ToSet
<1> QED
  BY <1>3, <1>4, <1>5

LEMMA PlacesFinite ==
    ASSUME NEW Id, NEW list, TaskList(list, Id)
    PROVE  IsFiniteSet(Places(list))
<1> DEFINE f == [t \in DOMAIN list |-> {t} \X (1 .. Len(list[t]) + 1)]
           All == {f[t] : t \in DOMAIN list}
<1>1. f \in Surjection(DOMAIN list, All)
  BY DEF Surjection
<1>2. IsFiniteSet(DOMAIN list)
  BY DEF TaskList
<1>3. \A T \in All : IsFiniteSet(T)
  <2> SUFFICES ASSUME NEW t \in DOMAIN list PROVE IsFiniteSet(f[t])
    OBVIOUS
  <2>1. list[t] \in Seq(Id)
    BY DEF TaskList
  <2>2. Len(list[t]) + 1 \in Nat
    BY <2>1
  <2>3. IsFiniteSet(1 .. Len(list[t]) + 1) /\ IsFiniteSet({t})
    <3>1. PICK l \in Nat : l = Len(list[t]) + 1
      BY <2>2
    <3>2. IsFiniteSet(1 .. l)
      BY FS_Interval
    <3> QED
      BY <3>1, <3>2, FS_Singleton
  <2>4. IsFiniteSet({t} \X (1 .. Len(list[t]) + 1))
    BY <2>3, FS_Product
  <2> QED
    BY <2>4
<1>4. Places(list) = UNION All
  BY DEF Places
<1> HIDE DEF All, f
<1>5. IsFiniteSet(All)
  BY <1>1, <1>2, FS_Surjection
<1> QED
  BY <1>3, <1>4, <1>5, FS_UNION

-----------------------------------------------------------------------------
\* What the walk has met so far.
Met(s) == s.seen \cup ToSet(s.frontier)

\* States of the walk: it has met the dependencies it started from and those of
\* every record seen, and nothing that an upward-closed set may leave out.
WalkStates(list, Id, deps) ==
    {s \in [frontier : Seq(Id), seen : SUBSET Id] :
        /\ ToSet(deps) \subseteq Met(s)
        /\ \A t \in s.seen \cap DOMAIN list : ToSet(list[t]) \subseteq Met(s)
        /\ \A C \in ClosedSets(GraphOf(list), ToSet(deps)) :
              Met(s) \cap DOMAIN list \subseteq C}

\* The walk starts at the dependencies it is given.
LEMMA WalkStarts ==
    ASSUME NEW Id, NEW list, TaskList(list, Id), NEW deps \in Seq(Id)
    PROVE  WalkStart(deps) \in WalkStates(list, Id, deps)
<1>1. /\ WalkStart(deps) \in [frontier : Seq(Id), seen : SUBSET Id]
      /\ WalkStart(deps).seen = {} /\ WalkStart(deps).frontier = deps
  BY DEF WalkStart
<1>2. Met(WalkStart(deps)) = ToSet(deps)
  BY <1>1 DEF Met
<1>3. \A C \in ClosedSets(GraphOf(list), ToSet(deps)) : ToSet(deps) \cap DOMAIN list \subseteq C
  BY DEF ClosedSets, GraphOf
<1> QED
  BY <1>1, <1>2, <1>3 DEF WalkStates

\* A step keeps all that a seen task depends on among what the walk has met.
LEMMA WalkGoesOn ==
    ASSUME NEW Id, NEW list, TaskList(list, Id), NEW deps \in Seq(Id),
           NEW s \in WalkStates(list, Id, deps)
    PROVE  WalkStep(list, s) \in WalkStates(list, Id, deps)
<1> DEFINE t == Last(s.frontier)
           rest == Front(s.frontier)
           g == GraphOf(list)
           next == WalkStep(list, s)
<1>1. /\ s.frontier \in Seq(Id) /\ s.seen \in SUBSET Id
      /\ ToSet(deps) \subseteq Met(s)
      /\ \A u \in s.seen \cap DOMAIN list : ToSet(list[u]) \subseteq Met(s)
      /\ \A C \in ClosedSets(g, ToSet(deps)) : Met(s) \cap DOMAIN list \subseteq C
  BY DEF WalkStates
<1>2. CASE s.frontier = <<>>
  BY <1>2 DEF WalkStep
<1>3. CASE s.frontier # <<>>
  <2>1. /\ rest \in Seq(Id) /\ t \in Id
        /\ ToSet(s.frontier) = ToSet(rest) \cup {t}
    BY <1>1, <1>3, FrontAndLast
  <2> HIDE DEF rest, t
  <2>2. CASE t \in s.seen
    <3>1. next = [s EXCEPT !.frontier = rest]
      BY <1>3, <2>2 DEF WalkStep, t, rest
    <3>2. /\ next.frontier = rest /\ next.seen = s.seen
          /\ next \in [frontier : Seq(Id), seen : SUBSET Id]
      <4>1. s \in [frontier : Seq(Id), seen : SUBSET Id]
        BY DEF WalkStates
      <4> HIDE DEF next
      <4> QED
        BY <2>1, <3>1, <4>1
    <3> HIDE DEF next
    <3>3. Met(next) = Met(s)
      BY <2>1, <2>2, <3>2 DEF Met
    <3> QED
      BY <1>1, <3>2, <3>3 DEF WalkStates, next, g
  <2>3. CASE t \notin s.seen
    <3> DEFINE more == IF t \in DOMAIN list THEN ToSet(list[t]) ELSE {}
    <3>1. /\ next.frontier \in Seq(Id) /\ next.seen = s.seen \cup {t}
          /\ ToSet(next.frontier) = ToSet(rest) \cup more
          /\ next = [frontier |-> next.frontier, seen |-> next.seen]
      <4>1. CASE t \in DOMAIN list
        <5>1. next = [frontier |-> rest \o list[t], seen |-> s.seen \cup {t}]
          BY <1>3, <2>3, <4>1 DEF WalkStep, t, rest
        <5>2. list[t] \in Seq(Id)
          BY <4>1 DEF TaskList
        <5>3. rest \o list[t] \in Seq(Id) /\ ToSet(rest \o list[t]) = ToSet(rest) \cup ToSet(list[t])
          BY <2>1, <5>2, ConcatProperties, ToSetOfConcat
        <5> HIDE DEF next
        <5> QED
          BY <4>1, <5>1, <5>3
      <4>2. CASE t \notin DOMAIN list
        <5>1. next = [frontier |-> rest, seen |-> s.seen \cup {t}]
          BY <1>3, <2>3, <4>2 DEF WalkStep, t, rest
        <5> HIDE DEF next
        <5> QED
          BY <2>1, <4>2, <5>1
      <4> QED
        BY <4>1, <4>2
    <3> HIDE DEF next
    <3>2. Met(next) = Met(s) \cup more
      BY <2>1, <3>1 DEF Met
    <3>3. \A u \in next.seen \cap DOMAIN list : ToSet(list[u]) \subseteq Met(next)
      BY <1>1, <3>1, <3>2
    <3>4. ASSUME NEW C \in ClosedSets(g, ToSet(deps))
          PROVE  Met(next) \cap DOMAIN list \subseteq C
      <4>1. Met(s) \cap DOMAIN list \subseteq C
        BY <1>1
      <4>2. CASE t \in DOMAIN list
        <5>1. t \in C
          BY <2>1, <4>1, <4>2 DEF Met
        <5>2. ToSet(list[t]) \cap DOMAIN list \subseteq C
          BY <4>2, <5>1 DEF ClosedSets, Edges, GraphOf
        <5> QED
          BY <3>2, <4>1, <5>2
      <4>3. CASE t \notin DOMAIN list
        BY <3>2, <4>1, <4>3
      <4> QED
        BY <4>2, <4>3
    <3>5. next \in [frontier : Seq(Id), seen : SUBSET Id]
      BY <1>1, <2>1, <3>1
    <3> HIDE DEF more
    <3> QED
      BY <1>1, <3>2, <3>3, <3>4, <3>5 DEF WalkStates, next, g
  <2> QED
    BY <2>2, <2>3
<1> QED
  BY <1>2, <1>3

\* Walk is that recursion, and its states stay in WalkStates.
LEMMA WalkRuns ==
    ASSUME NEW Id, NEW list, TaskList(list, Id), NEW deps \in Seq(Id)
    PROVE  /\ Walk(list, deps)[0] = WalkStart(deps)
           /\ \A n \in Nat : /\ Walk(list, deps)[n] \in WalkStates(list, Id, deps)
                             /\ Walk(list, deps)[n + 1] = WalkStep(list, Walk(list, deps)[n])
<1> DEFINE S == WalkStates(list, Id, deps)
           step == [s \in S |-> WalkStep(list, s)]
           Runs(f) == f = [n \in Nat |-> IF n = 0 THEN WalkStart(deps)
                                         ELSE WalkStep(list, f[n - 1])]
<1>1. WalkStart(deps) \in S /\ step \in [S -> S] /\ \A s \in S : step[s] = WalkStep(list, s)
  BY WalkStarts, WalkGoesOn
<1> HIDE DEF S, step
<1>2. PICK f : Iterates(f, WalkStart(deps), step)
  BY <1>1, RunsExist
<1>3. f[0] = WalkStart(deps) /\ \A n \in Nat : f[n + 1] = step[f[n]]
  BY <1>2 DEF Iterates
<1>4. \A n \in Nat : f[n] \in S
  BY <1>1, <1>3, StaysIn
<1>5. Runs(f)
  <2>1. \A n \in Nat : n # 0 => n - 1 \in Nat /\ step[f[n - 1]] = WalkStep(list, f[n - 1])
    BY <1>1, <1>4
  <2> QED
    BY <1>2, <2>1 DEF Iterates
<1>6. Runs(Walk(list, deps))
  <2>1. Walk(list, deps) = CHOOSE h : Runs(h)
    BY DEF Walk
  <2> HIDE DEF Runs
  <2> QED
    BY <1>5, <2>1
<1>7. /\ Walk(list, deps)[0] = WalkStart(deps)
      /\ \A n \in Nat : Walk(list, deps)[n + 1] = WalkStep(list, Walk(list, deps)[n])
  BY <1>6
<1>8. \A n \in Nat : Walk(list, deps)[n] \in S
  <2>1. \A n \in Nat : Walk(list, deps)[n] \in S => Walk(list, deps)[n + 1] \in S
    BY <1>1, <1>7
  <2> QED
    BY <1>1, <1>7, <2>1, StaysIn
<1> QED
  BY <1>7, <1>8 DEF S

\* The places of the dependencies of the ids of S.
PlacesOf(list, S) == {p \in Places(list) : p[1] \in S /\ p[2] <= Len(list[p[1]])}

\* Meeting one more task adds the places of its list.
LEMMA PlacesOfOneMore ==
    ASSUME NEW Id, NEW list, TaskList(list, Id), NEW S, NEW t \in DOMAIN list \ S
    PROVE  Cardinality(PlacesOf(list, S \cup {t})) = Cardinality(PlacesOf(list, S)) + Len(list[t])
<1> DEFINE new == {t} \X (1 .. Len(list[t]))
<1>1. list[t] \in Seq(Id) /\ Len(list[t]) \in Nat
  BY DEF TaskList
<1>2. PlacesOf(list, S \cup {t}) = PlacesOf(list, S) \cup new
  <2>1. \A i \in 1 .. Len(list[t]) + 1 : i <= Len(list[t]) <=> i \in 1 .. Len(list[t])
    BY <1>1
  <2>2. \A i \in 1 .. Len(list[t]) : i \in 1 .. Len(list[t]) + 1
    BY <1>1
  <2>3. PlacesOf(list, S \cup {t}) \subseteq PlacesOf(list, S) \cup new
    <3> SUFFICES ASSUME NEW u \in DOMAIN list, NEW i \in 1 .. Len(list[u]) + 1,
                        <<u, i>> \in PlacesOf(list, S \cup {t})
                 PROVE  <<u, i>> \in PlacesOf(list, S) \cup new
      BY DEF PlacesOf, Places
    <3>1. <<u, i>> \in Places(list) /\ u \in S \cup {t} /\ i <= Len(list[u])
      BY DEF PlacesOf
    <3>2. CASE u = t
      BY <2>1, <3>1, <3>2
    <3>3. CASE u # t
      BY <3>1, <3>3 DEF PlacesOf
    <3> QED
      BY <3>2, <3>3
  <2>4. new \subseteq PlacesOf(list, S \cup {t})
    <3>1. \A i \in 1 .. Len(list[t]) : <<t, i>> \in PlacesOf(list, S \cup {t})
      <4>1. \A i \in 1 .. Len(list[t]) : <<t, i>> \in Places(list)
        BY <2>2 DEF Places
      <4> QED
        BY <2>1, <2>2, <4>1 DEF PlacesOf
    <3>2. \A q \in new : \E i \in 1 .. Len(list[t]) : q = <<t, i>>
      OBVIOUS
    <3> HIDE DEF new
    <3> QED
      BY <3>1, <3>2
  <2>5. PlacesOf(list, S) \subseteq PlacesOf(list, S \cup {t})
    BY DEF PlacesOf
  <2> QED
    BY <2>3, <2>4, <2>5
<1>3. PlacesOf(list, S) \cap new = {}
  BY DEF PlacesOf
<1>4. IsFiniteSet(new) /\ Cardinality(new) = Len(list[t])
  <2>1. PICK l \in Nat : l = Len(list[t])
    BY <1>1
  <2>2. IsFiniteSet(1 .. l) /\ Cardinality(1 .. l) = l
    <3>1. 1 .. l = {} \/ 1 <= l
      OBVIOUS
    <3> QED
      BY <3>1, FS_Interval
  <2>3. IsFiniteSet({t}) /\ Cardinality({t}) = 1
    BY FS_Singleton
  <2>4. IsFiniteSet({t} \X (1 .. l)) /\ Cardinality({t} \X (1 .. l)) = Cardinality({t}) * Cardinality(1 .. l)
    BY <2>2, <2>3, FS_Product
  <2>5. 1 * l = l
    OBVIOUS
  <2> QED
    BY <2>1, <2>2, <2>3, <2>4, <2>5
<1>5. IsFiniteSet(PlacesOf(list, S)) /\ Cardinality(PlacesOf(list, S)) \in Nat
  <2>1. PlacesOf(list, S) \in SUBSET Places(list)
    BY DEF PlacesOf
  <2> QED
    BY <2>1, PlacesFinite, FS_Subset, FS_CardinalityType
<1> HIDE DEF new
<1>6. Cardinality(PlacesOf(list, S) \cup new)
        = Cardinality(PlacesOf(list, S)) + Cardinality(new) - Cardinality(PlacesOf(list, S) \cap new)
  BY <1>4, <1>5, FS_Union
<1>7. Cardinality(PlacesOf(list, S) \cap new) = 0
  BY <1>3, FS_EmptySet
<1> DEFINE a == Cardinality(PlacesOf(list, S))
           l == Len(list[t])
<1>8. Cardinality(PlacesOf(list, S) \cup new) = a + l - 0 /\ a \in Nat /\ l \in Nat
  BY <1>1, <1>4, <1>5, <1>6, <1>7
<1>9. a + l - 0 = a + l
  <2> HIDE DEF a, l
  <2> QED
    BY <1>8
<1> QED
  BY <1>2, <1>8, <1>9

\* A step takes one id off the frontier and adds only the places of a task
\* met for the first time.
LEMMA WalkPops ==
    ASSUME NEW Id, NEW list, TaskList(list, Id), NEW deps \in Seq(Id),
           NEW s \in WalkStates(list, Id, deps), s.frontier # <<>>
    PROVE  LET next == WalkStep(list, s)
           IN  Len(next.frontier) - Cardinality(PlacesOf(list, next.seen))
                 <= Len(s.frontier) - 1 - Cardinality(PlacesOf(list, s.seen))
<1> DEFINE t == Last(s.frontier)
           rest == Front(s.frontier)
           next == WalkStep(list, s)
           Count(S) == Cardinality(PlacesOf(list, S))
<1>1. /\ rest \in Seq(Id) /\ Len(rest) = Len(s.frontier) - 1 /\ Len(rest) \in Nat
      /\ s.seen \in SUBSET Id /\ s.frontier \in Seq(Id)
  BY FrontAndLast DEF WalkStates
<1>2. \A S : Count(S) \in Nat
  <2>1. \A S : PlacesOf(list, S) \in SUBSET Places(list)
    BY DEF PlacesOf
  <2> QED
    BY <2>1, PlacesFinite, FS_Subset, FS_CardinalityType
<1> SUFFICES Len(next.frontier) - Count(next.seen) <= Len(s.frontier) - 1 - Count(s.seen)
  OBVIOUS
<1> HIDE DEF t, rest
<1>3. CASE t \in s.seen
  <2>1. next = [s EXCEPT !.frontier = rest]
    BY <1>3 DEF WalkStep, t, rest
  <2>2. s \in [frontier : Seq(Id), seen : SUBSET Id]
    BY DEF WalkStates
  <2>3. next.frontier = rest /\ next.seen = s.seen
    <3> HIDE DEF next
    <3> QED
      BY <2>1, <2>2
  <2>4. Count(next.seen) = Count(s.seen)
    BY <2>3
  <2> HIDE DEF Count, next
  <2> QED
    BY <1>1, <1>2, <2>3, <2>4
<1>4. CASE t \in DOMAIN list \ s.seen
  <2>1. next = [frontier |-> rest \o list[t], seen |-> s.seen \cup {t}]
    BY <1>4 DEF WalkStep, t, rest
  <2>2. list[t] \in Seq(Id)
    BY <1>4 DEF TaskList
  <2>3. Len(next.frontier) = Len(rest) + Len(list[t])
    <3>1. Len(rest \o list[t]) = Len(rest) + Len(list[t])
      BY <1>1, <2>2, ConcatProperties
    <3> HIDE DEF next
    <3> QED
      BY <2>1, <3>1
  <2>4. Count(next.seen) = Count(s.seen) + Len(list[t])
    <3>1. next.seen = s.seen \cup {t}
      BY <2>1
    <3> HIDE DEF next
    <3> QED
      BY <1>4, <3>1, PlacesOfOneMore
  <2>5. /\ Len(next.frontier) = Len(rest) + Len(list[t]) /\ Len(s.frontier) - 1 = Len(rest)
        /\ Count(next.seen) = Count(s.seen) + Len(list[t])
        /\ Len(rest) \in Nat /\ Len(list[t]) \in Nat /\ Count(s.seen) \in Nat
    <3>1. Len(list[t]) \in Nat
      BY <2>2
    <3> HIDE DEF Count, next
    <3> QED
      BY <1>1, <1>2, <2>3, <2>4, <3>1
  <2>6. \A a, b, c \in Nat : (a + b) - (c + b) <= a - c
    OBVIOUS
  <2> HIDE DEF Count, next
  <2>7. (Len(rest) + Len(list[t])) - (Count(s.seen) + Len(list[t])) <= Len(rest) - Count(s.seen)
    BY ONLY <2>5, <2>6, Zenon
  <2> QED
    BY ONLY <2>5, <2>7, Zenon
<1>5. CASE t \notin DOMAIN list /\ t \notin s.seen
  <2>1. next = [frontier |-> rest, seen |-> s.seen \cup {t}]
    BY <1>5 DEF WalkStep, t, rest
  <2>2. PlacesOf(list, s.seen \cup {t}) = PlacesOf(list, s.seen)
    BY <1>5 DEF PlacesOf, Places
  <2>3. next.frontier = rest /\ Count(next.seen) = Count(s.seen)
    BY <2>1, <2>2
  <2> HIDE DEF Count, next
  <2> QED
    BY <1>1, <1>2, <2>3
<1> QED
  BY <1>3, <1>4, <1>5

(* ancestor_tasks, for every finite task list, with repeated and unknown
   dependencies and with rings: the walk ends, and what it has collected is the
   least set of listed ids that holds the new task's listed dependencies and is
   closed under listed dependencies. *)
THEOREM AncestorTasksCorrect ==
    ASSUME NEW Id, NEW list, TaskList(list, Id), NEW deps \in Seq(Id)
    PROVE  AncestorsAnswer(list, deps, AncestorTasks(deps, list))
<1> DEFINE g == GraphOf(list)
           run == Walk(list, deps)
           p == Cardinality(Places(list))
           m == Len(deps) + p
           Count(n) == Cardinality(PlacesOf(list, run[n].seen))
           Size(n) == Len(run[n].frontier)
           T == {n \in 0 .. m : run[n].frontier = <<>> \/ Size(n) + n <= Len(deps) + Count(n)}
<1>1. Len(deps) \in Nat /\ p \in Nat /\ m \in Nat /\ IsFiniteSet(Places(list))
  BY PlacesFinite, FS_CardinalityType
<1>2. /\ run[0].frontier = deps
      /\ \A n \in Nat : run[n] \in WalkStates(list, Id, deps) /\ run[n + 1] = WalkStep(list, run[n])
  <2>1. run[0] = WalkStart(deps)
    BY WalkRuns
  <2>2. run[0].frontier = deps
    <3> HIDE DEF run
    <3> QED
      BY <2>1 DEF WalkStart
  <2> QED
    BY <2>2, WalkRuns
<1> HIDE DEF run
<1>3. \A n \in Nat : /\ run[n].frontier \in Seq(Id) /\ Size(n) \in Nat
                     /\ Count(n) \in Nat /\ Count(n) <= p
  <2>1. \A n \in Nat : run[n].frontier \in Seq(Id)
    BY <1>2 DEF WalkStates
  <2>2. \A S : PlacesOf(list, S) \in SUBSET Places(list)
    BY DEF PlacesOf
  <2>3. \A S : Cardinality(PlacesOf(list, S)) \in Nat /\ Cardinality(PlacesOf(list, S)) <= p
    BY <1>1, <2>2, FS_Subset, FS_CardinalityType
  <2> QED
    BY <2>1, <2>3
<1>4. 0 \in T
  <2>1. Size(0) = Len(deps)
    BY <1>2
  <2> HIDE DEF Size, Count, m
  <2> QED
    BY <1>1, <1>3, <2>1
<1>5. ASSUME NEW n \in 0 .. m, n + 1 \in 0 .. m, n \in T PROVE n + 1 \in T
  <2>1. n \in Nat /\ n + 1 \in Nat
    BY <1>1
  <2>2. CASE run[n].frontier = <<>>
    <3>1. run[n + 1] = run[n]
      BY <1>2, <2>1, <2>2 DEF WalkStep
    <3> HIDE DEF m
    <3> QED
      BY <1>5, <2>2, <3>1
  <2>3. CASE run[n].frontier # <<>>
    <3>1. Size(n + 1) - Count(n + 1) <= Size(n) - 1 - Count(n)
      BY <1>2, <2>1, <2>3, WalkPops
    <3>2. /\ Size(n) \in Nat /\ Size(n + 1) \in Nat /\ Count(n) \in Nat /\ Count(n + 1) \in Nat
          /\ Size(n) + n <= Len(deps) + Count(n)
      BY <1>3, <1>5, <2>1, <2>3
    <3> HIDE DEF Size, Count, m
    <3>3. Size(n + 1) + (n + 1) <= Len(deps) + Count(n + 1)
      BY <1>1, <2>1, <3>1, <3>2
    <3> QED
      BY <1>5, <3>3
  <2> QED
    BY <2>2, <2>3
<1>6. T \in SUBSET (0 .. m)
  OBVIOUS
<1> HIDE DEF T
<1>7. m \in T
  <2> HIDE DEF m
  <2> QED
    BY <1>1, <1>4, <1>5, <1>6, CountingUp
<1>8. run[m].frontier = <<>>
  <2>1. CASE Size(m) + m <= Len(deps) + Count(m)
    <3>1. Size(m) = 0
      <4>1. Size(m) \in Nat /\ Count(m) \in Nat /\ Count(m) <= p
        BY <1>1, <1>3
      <4> HIDE DEF Size, Count, p
      <4> QED
        BY <1>1, <2>1, <4>1
    <3> QED
      BY <1>1, <1>3, <3>1, EmptySeq
  <2> QED
    BY <1>7, <2>1 DEF T
<1> DEFINE s == run[m]
<1>9. /\ s.seen \in SUBSET Id /\ ToSet(deps) \subseteq Met(s)
      /\ \A t \in s.seen \cap DOMAIN list : ToSet(list[t]) \subseteq Met(s)
      /\ \A C \in ClosedSets(g, ToSet(deps)) : Met(s) \cap DOMAIN list \subseteq C
  BY <1>1, <1>2 DEF WalkStates
<1>10. Met(s) = s.seen
  BY <1>8 DEF Met, ToSet
<1>11. AncestorTasks(deps, list) = s.seen \cap DOMAIN list
  BY DEF AncestorTasks, run
<1> HIDE DEF s, m
<1>12. s.seen \cap DOMAIN list \in ClosedSets(g, ToSet(deps))
  BY <1>9, <1>10 DEF ClosedSets, Edges, GraphOf
<1> QED
  BY <1>9, <1>10, <1>11, <1>12 DEF AncestorsAnswer

-----------------------------------------------------------------------------
(* detect_cycle, whose state is taken field by field. *)
Colors == {"WHITE", "GREY", "BLACK"}

DfsRecords(list, order, Id) ==
    [color : [DOMAIN list -> Colors], at : [DOMAIN list -> Nat \ {0}],
     stack : Seq(DOMAIN list), root : 1 .. Len(order) + 1, found : Seq(Id)]

\* A state of the search, by its fields.
DfsState(c, a, k, r, f) == [color |-> c, at |-> a, stack |-> k, root |-> r, found |-> f]

LEMMA DfsRecord ==
    ASSUME NEW Id, NEW list, NEW order, NEW s \in DfsRecords(list, order, Id)
    PROVE  /\ s = DfsState(s.color, s.at, s.stack, s.root, s.found)
           /\ s.color \in [DOMAIN list -> Colors] /\ s.at \in [DOMAIN list -> Nat \ {0}]
           /\ s.stack \in Seq(DOMAIN list) /\ s.root \in 1 .. Len(order) + 1
           /\ s.found \in Seq(Id)
  BY DEF DfsRecords, DfsState

LEMMA DfsFields ==
    ASSUME NEW c, NEW a, NEW k, NEW r, NEW f
    PROVE  LET s == DfsState(c, a, k, r, f)
           IN  s.color = c /\ s.at = a /\ s.stack = k /\ s.root = r /\ s.found = f
  BY DEF DfsState

\* The assignments of a step, and what they change.
Paint(c, t, x) == [c EXCEPT ![t] = x]
LookOn(a, t) == [a EXCEPT ![t] = @ + 1]
SetColor(s, t, x) == [s EXCEPT !.color[t] = x]
SetStack(s, x) == [s EXCEPT !.stack = x]
PassPlace(s, t) == [s EXCEPT !.at[t] = @ + 1]
PassRoot(s) == [s EXCEPT !.root = @ + 1]
Report(s, x) == [s EXCEPT !.found = x]

LEMMA SetsColor ==
    ASSUME NEW c, NEW a, NEW k, NEW r, NEW f, NEW t, NEW x
    PROVE  SetColor(DfsState(c, a, k, r, f), t, x) = DfsState(Paint(c, t, x), a, k, r, f)
  BY DEF DfsState, SetColor, Paint
LEMMA SetsStack ==
    ASSUME NEW c, NEW a, NEW k, NEW r, NEW f, NEW x
    PROVE  SetStack(DfsState(c, a, k, r, f), x) = DfsState(c, a, x, r, f)
  BY DEF DfsState, SetStack
LEMMA PassesPlace ==
    ASSUME NEW c, NEW a, NEW k, NEW r, NEW f, NEW t
    PROVE  PassPlace(DfsState(c, a, k, r, f), t) = DfsState(c, LookOn(a, t), k, r, f)
  BY DEF DfsState, PassPlace, LookOn
LEMMA PassesRoot ==
    ASSUME NEW c, NEW a, NEW k, NEW r, NEW f
    PROVE  PassRoot(DfsState(c, a, k, r, f)) = DfsState(c, a, k, r + 1, f)
  BY DEF DfsState, PassRoot
LEMMA Reports ==
    ASSUME NEW c, NEW a, NEW k, NEW r, NEW f, NEW x
    PROVE  Report(DfsState(c, a, k, r, f), x) = DfsState(c, a, k, r, x)
  BY DEF DfsState, Report

LEMMA Enters ==
    ASSUME NEW c, NEW a, NEW k, NEW r, NEW f, NEW node
    PROVE  Enter(DfsState(c, a, k, r, f), node)
             = DfsState(Paint(c, node, "GREY"), a, Append(k, node), r, f)
<1> DEFINE s == DfsState(c, a, k, r, f)
           grey == SetColor(s, node, "GREY")
<1>1. Enter(s, node) = SetStack(grey, Append(grey.stack, node))
  BY DEF Enter, SetColor, SetStack
<1>2. grey = DfsState(Paint(c, node, "GREY"), a, k, r, f)
  BY SetsColor
<1> HIDE DEF grey
<1>3. grey.stack = k
  BY <1>2, DfsFields
<1> QED
  BY <1>1, <1>2, <1>3, SetsStack

LEMMA Returns ==
    ASSUME NEW c, NEW a, NEW k, NEW r, NEW f
    PROVE  CallReturns(DfsState(c, a, k, r, f))
             = DfsState(Paint(c, Last(k), "BLACK"), a, Front(k), r, f)
<1> DEFINE s == DfsState(c, a, k, r, f)
<1>1. CallReturns(s) = SetColor(SetStack(s, Front(s.stack)), Last(s.stack), "BLACK")
  BY DEF CallReturns, SetColor, SetStack
<1>2. s.stack = k
  BY DfsFields
<1>3. SetStack(s, Front(k)) = DfsState(c, a, Front(k), r, f)
  BY SetsStack
<1> QED
  BY <1>1, <1>2, <1>3, SetsColor

\* d is c but for the color of t, which is x.
Painted(list, c, t, x, d) ==
    /\ d \in [DOMAIN list -> Colors] /\ d[t] = x
    /\ \A u \in DOMAIN list : u # t => d[u] = c[u]

LEMMA Paints ==
    ASSUME NEW list, NEW c \in [DOMAIN list -> Colors], NEW t \in DOMAIN list, NEW x \in Colors
    PROVE  Painted(list, c, t, x, Paint(c, t, x))
  BY DEF Paint, Painted

-----------------------------------------------------------------------------
(* What detect_cycle's search maintains: the grey ids are its stack, the stack
   is a path along the dependencies, the black ids are closed under them and
   hold no ring, and what a call has looked at is black or the next call. *)
\* Grey are the ids on the stack, each of which is there once.
GreyOnStack(list, c, k) ==
    /\ \A t \in DOMAIN list : c[t] = "GREY" <=> \E i \in 1 .. Len(k) : k[i] = t
    /\ \A i, j \in 1 .. Len(k) : k[i] = k[j] => i = j

\* Each id on the stack depends on the next.
StackIsPath(g, k) == \A i \in 1 .. Len(k) - 1 : k[i + 1] \in g[k[i]]

\* What a call on the stack has looked at is done, or is the call it waits for.
LookedAt(list, c, a, k) ==
    \A n \in 1 .. Len(k) : \A i \in 1 .. a[k[n]] - 1 :
        list[k[n]][i] \in DOMAIN list =>
            \/ c[list[k[n]][i]] = "BLACK"
            \/ n < Len(k) /\ k[n + 1] = list[k[n]][i]

\* Black ids depend on black ids only, and not in a ring.
BlackClosed(g, c) ==
    \A t \in DOMAIN g : c[t] = "BLACK" => \A u \in g[t] \cap DOMAIN g : c[u] = "BLACK"
NoBlackRing(g, c) ==
    \A ring \in SUBSET {t \in DOMAIN g : c[t] = "BLACK"} :
        ring # {} => \E t \in ring : g[t] \cap ring = {}

\* Only ids that were entered have had dependencies looked at.
WhiteFresh(list, c, a) == \A t \in DOMAIN list : c[t] = "WHITE" => a[t] = 1

\* A call looks at the dependencies of its list, once each.
InPlace(list, a) == \A t \in DOMAIN list : a[t] <= Len(list[t]) + 1

\* The roots passed have been entered.
RootsEntered(order, c, r) == \A i \in 1 .. r - 1 : c[order[i]] # "WHITE"

Searching(list, order, c, a, k, r) ==
    /\ GreyOnStack(list, c, k) /\ StackIsPath(GraphOf(list), k)
    /\ LookedAt(list, c, a, k)
    /\ BlackClosed(GraphOf(list), c) /\ NoBlackRing(GraphOf(list), c)
    /\ WhiteFresh(list, c, a) /\ InPlace(list, a) /\ RootsEntered(order, c, r)

\* States of the search: still searching, or with the ring it returns.
DfsStates(list, order, Id) ==
    {s \in DfsRecords(list, order, Id) :
        IF s.found = <<>> THEN Searching(list, order, s.color, s.at, s.stack, s.root)
        ELSE IsRing(s.found, GraphOf(list))}

LEMMA ListAsGraph ==
    ASSUME NEW Id, NEW list, TaskList(list, Id)
    PROVE  /\ DOMAIN GraphOf(list) = DOMAIN list
           /\ \A t \in DOMAIN list :
                 /\ list[t] \in Seq(Id) /\ Len(list[t]) \in Nat /\ DOMAIN list[t] = 1 .. Len(list[t])
                 /\ \A i \in 1 .. Len(list[t]) : list[t][i] \in GraphOf(list)[t] /\ list[t][i] \in Id
                 /\ \A u \in GraphOf(list)[t] : \E i \in 1 .. Len(list[t]) : u = list[t][i]
<1>1. \A t \in DOMAIN list : list[t] \in Seq(Id) /\ Len(list[t]) \in Nat
                             /\ DOMAIN list[t] = 1 .. Len(list[t])
  BY DEF TaskList
<1>2. \A t \in DOMAIN list : \A i \in 1 .. Len(list[t]) : list[t][i] \in Id
  BY <1>1
<1> QED
  BY <1>1, <1>2 DEF GraphOf, ToSet

\* The search starts with white ids and an empty stack.
LEMMA DfsStarts ==
    ASSUME NEW Id, NEW list, TaskList(list, Id), NEW order \in Seq(DOMAIN list)
    PROVE  DfsStart(list) \in DfsStates(list, order, Id)
<1> DEFINE c == [t \in DOMAIN list |-> "WHITE"]
           a == [t \in DOMAIN list |-> 1]
           k == <<>>
           g == GraphOf(list)
<1>1. DfsStart(list) = [color |-> c, at |-> a, stack |-> k, root |-> 1, found |-> <<>>]
  BY DEF DfsStart
<1>2. /\ c \in [DOMAIN list -> Colors] /\ a \in [DOMAIN list -> Nat \ {0}]
      /\ <<>> \in Seq(DOMAIN list) /\ 1 \in 1 .. Len(order) + 1 /\ <<>> \in Seq(Id)
  <2>1. Len(order) \in Nat
    OBVIOUS
  <2> QED
    BY <2>1 DEF Colors
<1>3. DfsStart(list) \in DfsRecords(list, order, Id)
  <2> HIDE DEF c, a
  <2> QED
    BY <1>1, <1>2 DEF DfsRecords
<1>4. /\ \A t \in DOMAIN list : c[t] = "WHITE" /\ a[t] = 1
      /\ 1 .. Len(k) = {} /\ 1 .. Len(k) - 1 = {} /\ 1 .. 1 - 1 = {}
  OBVIOUS
<1>5. DOMAIN g = DOMAIN list /\ \A t \in DOMAIN list : Len(list[t]) \in Nat
  BY ListAsGraph
<1> HIDE DEF c, a, k, g
<1>6. /\ GreyOnStack(list, c, k) /\ StackIsPath(g, k) /\ LookedAt(list, c, a, k)
      /\ RootsEntered(order, c, 1)
  BY <1>4 DEF GreyOnStack, StackIsPath, LookedAt, RootsEntered
<1>7. BlackClosed(g, c) /\ NoBlackRing(g, c) /\ WhiteFresh(list, c, a)
  BY <1>4, <1>5 DEF BlackClosed, NoBlackRing, WhiteFresh
<1>8. InPlace(list, a)
  <2>1. \A n \in Nat : 1 <= n + 1
    OBVIOUS
  <2> QED
    BY <1>4, <1>5, <2>1 DEF InPlace
<1>9. Searching(list, order, c, a, k, 1)
  BY <1>6, <1>7, <1>8 DEF Searching, g
<1> QED
  BY <1>1, <1>3, <1>9 DEF DfsStates

\* A white id is entered: nothing to do with what is black.
CanEnter(list, g, c, k, node) ==
    /\ DOMAIN g = DOMAIN list /\ c \in [DOMAIN list -> Colors] /\ k \in Seq(DOMAIN list)
    /\ node \in DOMAIN list /\ c[node] = "WHITE"
    /\ GreyOnStack(list, c, k) /\ StackIsPath(g, k) /\ BlackClosed(g, c) /\ NoBlackRing(g, c)
    /\ k = <<>> \/ node \in g[Last(k)]

LEMMA Entered ==
    ASSUME NEW list, NEW g, NEW c, NEW k, NEW node, CanEnter(list, g, c, k, node),
           NEW d, d = Paint(c, node, "GREY"), NEW l, l = Append(k, node)
    PROVE  /\ Painted(list, c, node, "GREY", d) /\ l \in Seq(DOMAIN list)
           /\ GreyOnStack(list, d, l) /\ StackIsPath(g, l)
           /\ BlackClosed(g, d) /\ NoBlackRing(g, d)
<1> USE DEF CanEnter
<1>0. Painted(list, c, node, "GREY", d)
  BY Paints DEF Colors
<1>1. /\ d \in [DOMAIN list -> Colors] /\ d[node] = "GREY"
      /\ \A t \in DOMAIN list : t # node => d[t] = c[t]
  BY <1>0 DEF Painted
<1>2. /\ l \in Seq(DOMAIN list) /\ Len(l) = Len(k) + 1 /\ Len(k) \in Nat
      /\ \A i \in 1 .. Len(k) : l[i] = k[i] /\ k[i] \in DOMAIN list
      /\ l[Len(k) + 1] = node
  BY AppendProperties
<1>3. \A i \in 1 .. Len(k) : k[i] # node
  BY DEF GreyOnStack
<1>4. Last(k) = k[Len(k)]
  BY DEF Last
<1>5. k = <<>> <=> Len(k) = 0
  BY EmptySeq
<1> DEFINE m == Len(k)
<1>6. \A i \in 1 .. m + 1 : i \in 1 .. m \/ i = m + 1
  BY <1>2
<1>7. /\ \A i \in 1 .. m : i \in 1 .. m + 1
      /\ m + 1 \in 1 .. m + 1
      /\ \A i \in 1 .. m + 1 - 1 : i = m \/ (i \in 1 .. m - 1 /\ i + 1 \in 1 .. m)
      /\ \A i \in 1 .. m + 1 - 1 : i \in 1 .. m /\ m # 0
  BY <1>2
<1>8. GreyOnStack(list, d, l)
  <2>1. \A t \in DOMAIN list : d[t] = "GREY" <=> \E i \in 1 .. Len(l) : l[i] = t
    <3>1. ASSUME NEW t \in DOMAIN list, d[t] = "GREY"
          PROVE  \E i \in 1 .. Len(l) : l[i] = t
      <4>1. CASE t = node
        BY <1>2, <1>7, <4>1
      <4>2. CASE t # node
        <5>1. PICK i \in 1 .. Len(k) : k[i] = t
          BY <1>1, <3>1, <4>2 DEF GreyOnStack
        <5> QED
          BY <1>2, <1>7, <5>1
      <4> QED
        BY <4>1, <4>2
    <3>2. ASSUME NEW i \in 1 .. Len(l) PROVE d[l[i]] = "GREY"
      <4>1. CASE i \in 1 .. m
        BY <1>1, <1>2, <1>3, <4>1 DEF GreyOnStack
      <4>2. CASE i = m + 1
        BY <1>1, <1>2, <4>2
      <4> QED
        BY <1>2, <1>6, <4>1, <4>2
    <3> QED
      BY <3>1, <3>2
  <2>2. ASSUME NEW i \in 1 .. Len(l), NEW j \in 1 .. Len(l), l[i] = l[j] PROVE i = j
    BY <1>2, <1>3, <1>6, <2>2 DEF GreyOnStack
  <2> QED
    BY <2>1, <2>2 DEF GreyOnStack
<1>9. StackIsPath(g, l)
  <2> SUFFICES ASSUME NEW i \in 1 .. Len(l) - 1 PROVE l[i + 1] \in g[l[i]]
    BY DEF StackIsPath
  <2>0. i \in 1 .. m + 1 - 1
    BY <1>2
  <2>1. CASE i = m
    BY <1>2, <1>4, <1>5, <1>7, <2>0, <2>1
  <2>2. CASE i \in 1 .. m - 1 /\ i + 1 \in 1 .. m
    BY <1>2, <1>7, <2>0, <2>2 DEF StackIsPath
  <2> QED
    BY <1>7, <2>0, <2>1, <2>2
<1>10. \A t \in DOMAIN g : d[t] = "BLACK" <=> c[t] = "BLACK"
  BY <1>1
<1>11. BlackClosed(g, d)
  BY <1>10 DEF BlackClosed
<1>12. NoBlackRing(g, d)
  <2>1. {t \in DOMAIN g : d[t] = "BLACK"} = {t \in DOMAIN g : c[t] = "BLACK"}
    BY <1>10
  <2> QED
    BY <2>1 DEF NoBlackRing
<1> QED
  BY <1>0, <1>2, <1>8, <1>9, <1>11, <1>12

\* The innermost call returns: all it depends on is black.
LEMMA Returned ==
    ASSUME NEW list, NEW g, DOMAIN g = DOMAIN list,
           NEW c \in [DOMAIN list -> Colors], NEW k \in Seq(DOMAIN list), k # <<>>,
           GreyOnStack(list, c, k), StackIsPath(g, k), BlackClosed(g, c), NoBlackRing(g, c),
           NEW top, top = Last(k), \A u \in g[top] \cap DOMAIN g : c[u] = "BLACK",
           NEW d, d = Paint(c, top, "BLACK"), NEW l, l = Front(k)
    PROVE  /\ Painted(list, c, top, "BLACK", d) /\ l \in Seq(DOMAIN list)
           /\ GreyOnStack(list, d, l) /\ StackIsPath(g, l)
           /\ BlackClosed(g, d) /\ NoBlackRing(g, d)
<1> DEFINE m == Len(k)
<1>1. /\ l \in Seq(DOMAIN list) /\ Len(l) = m - 1 /\ m \in Nat \ {0}
      /\ \A i \in 1 .. m - 1 : l[i] = k[i]
      /\ top \in DOMAIN list /\ top = k[m]
  BY FrontAndLast
<1>2. \A i \in 1 .. m : k[i] \in DOMAIN list
  OBVIOUS
<1>3. /\ \A i \in 1 .. m : i \in 1 .. m - 1 \/ i = m
      /\ \A i \in 1 .. m - 1 : i \in 1 .. m /\ i # m
      /\ m \in 1 .. m
      /\ \A i \in 1 .. m - 1 - 1 : i \in 1 .. m - 1 /\ i + 1 \in 1 .. m - 1
  BY <1>1
<1>0. Painted(list, c, top, "BLACK", d)
  BY <1>1, Paints DEF Colors
<1>4. /\ d \in [DOMAIN list -> Colors] /\ d[top] = "BLACK"
      /\ \A t \in DOMAIN list : t # top => d[t] = c[t]
  BY <1>0 DEF Painted
<1>5. c[top] = "GREY"
  BY <1>1, <1>3 DEF GreyOnStack
<1>6. GreyOnStack(list, d, l)
  <2>1. ASSUME NEW t \in DOMAIN list, d[t] = "GREY"
        PROVE  \E i \in 1 .. Len(l) : l[i] = t
    <3>1. t # top /\ c[t] = "GREY"
      BY <1>4, <2>1
    <3>2. PICK i \in 1 .. m : k[i] = t
      BY <3>1 DEF GreyOnStack
    <3> QED
      BY <1>1, <1>3, <3>1, <3>2
  <2>2. ASSUME NEW i \in 1 .. Len(l) PROVE d[l[i]] = "GREY"
    <3>1. i \in 1 .. m - 1 /\ i \in 1 .. m /\ i # m /\ l[i] = k[i]
      BY <1>1, <1>3
    <3>3. top = k[m] /\ k[i] \in DOMAIN list /\ m \in 1 .. m
      BY ONLY <1>1, <1>2, <1>3, <3>1
    <3>4. \A j \in 1 .. m : k[i] = k[j] => i = j
      BY ONLY <3>1, GreyOnStack(list, c, k) DEF GreyOnStack
    <3>5. c[k[i]] = "GREY"
      BY ONLY <3>1, <3>3, GreyOnStack(list, c, k) DEF GreyOnStack
    <3>2. k[i] # top /\ c[k[i]] = "GREY"
      BY ONLY <3>1, <3>3, <3>4, <3>5
    <3> QED
      BY <1>2, <1>4, <3>1, <3>2
  <2>3. ASSUME NEW i \in 1 .. Len(l), NEW j \in 1 .. Len(l), l[i] = l[j] PROVE i = j
    <3>1. i \in 1 .. m - 1 /\ j \in 1 .. m - 1
      BY ONLY <1>1
    <3>2. i \in 1 .. m /\ j \in 1 .. m /\ k[i] = k[j]
      BY ONLY <1>1, <1>3, <2>3, <3>1
    <3> QED
      BY ONLY <3>2, GreyOnStack(list, c, k) DEF GreyOnStack
  <2> QED
    BY <2>1, <2>2, <2>3 DEF GreyOnStack
<1>7. StackIsPath(g, l)
  <2> SUFFICES ASSUME NEW i \in 1 .. Len(l) - 1 PROVE l[i + 1] \in g[l[i]]
    BY DEF StackIsPath
  <2>1. i \in 1 .. m - 1 /\ i + 1 \in 1 .. m - 1
    BY <1>1, <1>3
  <2> QED
    BY <1>1, <2>1 DEF StackIsPath
<1>8. BlackClosed(g, d)
  BY <1>4 DEF BlackClosed
<1>9. NoBlackRing(g, d)
  <2> SUFFICES ASSUME NEW ring \in SUBSET {t \in DOMAIN g : d[t] = "BLACK"}, ring # {}
               PROVE  \E t \in ring : g[t] \cap ring = {}
    BY DEF NoBlackRing
  <2> DEFINE rest == ring \ {top}
  <2>1. rest \in SUBSET {t \in DOMAIN g : c[t] = "BLACK"}
    BY <1>4
  <2>2. CASE top \notin ring
    BY <2>1, <2>2 DEF NoBlackRing
  <2>3. CASE rest = {}
    <3>1. ring = {top}
      BY <2>3
    <3>2. top \notin g[top]
      BY <1>1, <1>5
    <3> QED
      BY <3>1, <3>2
  <2>4. CASE rest # {}
    <3>1. PICK t \in rest : g[t] \cap rest = {}
      BY <2>1, <2>4 DEF NoBlackRing
    <3>2. top \notin g[t]
      BY <1>1, <1>5, <2>1 DEF BlackClosed
    <3> QED
      BY <3>1, <3>2
  <2> QED
    BY <2>2, <2>3, <2>4
<1> QED
  BY <1>0, <1>1, <1>6, <1>7, <1>8, <1>9

\* A dependency of the innermost call is on the stack: the stack from there on,
\* and the id again, is a ring.
LEMMA RingClosed ==
    ASSUME NEW Id, NEW list, TaskList(list, Id), NEW g, DOMAIN g = DOMAIN list,
           NEW c, NEW k \in Seq(DOMAIN list), k # <<>>,
           GreyOnStack(list, c, k), StackIsPath(g, k),
           NEW dep \in g[Last(k)] \cap DOMAIN list, c[dep] = "GREY"
    PROVE  LET ring == Append(SubSeq(k, IndexOn(k, dep), Len(k)), dep)
           IN  ring \in Seq(Id) /\ ring # <<>> /\ IsRing(ring, g)
<1> DEFINE m == Len(k)
           b == IndexOn(k, dep)
           sub == SubSeq(k, b, m)
           ring == Append(sub, dep)
           n == m - b + 1
<1>1. m \in Nat \ {0} /\ DOMAIN k = 1 .. m /\ \A i \in 1 .. m : k[i] \in DOMAIN list
  BY EmptySeq
<1>2. b \in 1 .. m /\ k[b] = dep
  <2>1. \E i \in DOMAIN k : k[i] = dep
    BY <1>1 DEF GreyOnStack
  <2> QED
    BY <1>1, <2>1 DEF IndexOn
<1> HIDE DEF b
<1>3. b \in Nat /\ 1 <= b /\ b <= m /\ n \in Nat /\ 1 <= n
  BY <1>1, <1>2
<1>4. \A i \in b .. m : i \in 1 .. m
  BY <1>3
<1>5. sub \in Seq(DOMAIN list) /\ Len(sub) = n /\ \A i \in 1 .. n : sub[i] = k[b + i - 1]
  <2>1. \A i \in b .. m : k[i] \in DOMAIN list
    BY <1>1, <1>4
  <2> QED
    BY <1>1, <1>3, <2>1, SubSeqProperties
<1> HIDE DEF sub
<1>6. /\ ring \in Seq(DOMAIN list) /\ Len(ring) = n + 1
      /\ \A i \in 1 .. n : ring[i] = k[b + i - 1]
      /\ ring[n + 1] = dep
  <2>1. dep \in DOMAIN list
    OBVIOUS
  <2> HIDE DEF n, m
  <2>2. /\ ring \in Seq(DOMAIN list) /\ Len(ring) = Len(sub) + 1
        /\ \A i \in 1 .. Len(sub) : ring[i] = sub[i]
        /\ ring[Len(sub) + 1] = dep
    BY <1>5, <2>1, AppendProperties
  <2> QED
    BY <1>5, <2>2
<1> HIDE DEF ring
<1>7. /\ \A i \in 1 .. n : b + i - 1 \in 1 .. m
      /\ \A i \in 1 .. n : i = n \/ (i + 1 \in 1 .. n /\ b + i - 1 \in 1 .. m - 1
                                     /\ b + (i + 1) - 1 = (b + i - 1) + 1)
      /\ b + n - 1 = m /\ b + 1 - 1 = b /\ n + 1 - 1 = n /\ 1 \in 1 .. n /\ n + 1 >= 2
      /\ \A i, j \in 1 .. n : b + i - 1 = b + j - 1 => i = j
  <2>1. PICK x \in Nat : x = b
    BY <1>3
  <2>2. PICK y \in Nat : y = m
    BY <1>1
  <2> HIDE DEF m
  <2> QED
    BY <1>3, <2>1, <2>2
<1>8. ASSUME NEW i \in 1 .. n PROVE ring[i] \in DOMAIN g /\ ring[i + 1] \in Edges(g)[ring[i]]
  <2>1. ring[i] = k[b + i - 1] /\ ring[i] \in DOMAIN g
    BY <1>1, <1>6, <1>7
  <2>2. CASE i = n
    <3>1. ring[i] = k[m] /\ ring[i + 1] = dep
      BY <1>6, <1>7, <2>1, <2>2
    <3>2. dep \in g[k[m]] \cap DOMAIN g
      BY DEF Last
    <3> QED
      BY <2>1, <3>1, <3>2 DEF Edges
  <2>3. CASE i # n
    <3>1. /\ ring[i + 1] = k[(b + i - 1) + 1] /\ b + i - 1 \in 1 .. m - 1
          /\ ring[i + 1] \in DOMAIN g
      BY <1>1, <1>6, <1>7, <2>3
    <3>2. ring[i + 1] \in g[ring[i]]
      BY <2>1, <3>1 DEF StackIsPath
    <3> QED
      BY <2>1, <3>1, <3>2 DEF Edges
  <2> QED
    BY <2>2, <2>3
<1>9. ASSUME NEW i \in 1 .. n, NEW j \in 1 .. n, ring[i] = ring[j] PROVE i = j
  BY <1>6, <1>7, <1>9 DEF GreyOnStack
<1>10. ring[1] = ring[Len(ring)] /\ Len(ring) >= 2 /\ Len(ring) - 1 = n
  BY <1>2, <1>6, <1>7
<1>11. IsRing(ring, g)
  <2> HIDE DEF n
  <2> QED
    BY <1>8, <1>9, <1>10 DEF IsRing
<1>12. ring \in Seq(Id) /\ ring # <<>>
  <2>1. DOMAIN list \subseteq Id
    BY DEF TaskList
  <2>2. ring \in Seq(Id)
    BY <1>6, <2>1, SeqMonotonic
  <2> QED
    BY <1>10, <2>2
<1> QED
  BY <1>11, <1>12 DEF ring, sub, b

-----------------------------------------------------------------------------
(* Every step of the search goes past one root or one place in a list, so that
   as many steps as there are of them are enough. *)
\* The places that the search has gone past.
Past(list, c, a) == {p \in Places(list) : p[2] < a[p[1]] \/ c[p[1]] = "BLACK"}

\* The search has gone past one more place.
OneMorePast(list, c, a, d, b) ==
    \E p \in Places(list) \ Past(list, c, a) : Past(list, d, b) = Past(list, c, a) \cup {p}

LEMMA StillSearching ==
    ASSUME NEW Id, NEW list, NEW order,
           NEW c \in [DOMAIN list -> Colors], NEW a \in [DOMAIN list -> Nat \ {0}],
           NEW k \in Seq(DOMAIN list), NEW r \in 1 .. Len(order) + 1,
           Searching(list, order, c, a, k, r)
    PROVE  DfsState(c, a, k, r, <<>>) \in DfsStates(list, order, Id)
<1>1. <<>> \in Seq(Id)
  OBVIOUS
<1>2. DfsState(c, a, k, r, <<>>) \in DfsRecords(list, order, Id)
  BY <1>1 DEF DfsRecords, DfsState
<1>3. DfsState(c, a, k, r, <<>>).found = <<>>
  BY DEF DfsState
<1> DEFINE s == DfsState(c, a, k, r, <<>>)
<1>4. s.color = c /\ s.at = a /\ s.stack = k /\ s.root = r
  BY DEF DfsState
<1> HIDE DEF s
<1>5. Searching(list, order, s.color, s.at, s.stack, s.root)
  BY <1>4
<1> QED
  BY <1>2, <1>3, <1>5 DEF DfsStates, s

\* With no call open, the search takes the next root.
LEMMA NextRootGoesOn ==
    ASSUME NEW Id, NEW list, TaskList(list, Id), NEW order \in Seq(DOMAIN list),
           NEW s \in DfsStates(list, order, Id),
           s.found = <<>>, s.stack = <<>>, s.root <= Len(order)
    PROVE  LET next == NextRoot(order, s)
           IN  /\ next \in DfsStates(list, order, Id) /\ next.root = s.root + 1
               /\ Past(list, next.color, next.at) = Past(list, s.color, s.at)
<1> DEFINE c == s.color
           a == s.at
           k == s.stack
           r == s.root
           g == GraphOf(list)
           node == order[r]
           next == NextRoot(order, s)
           on == PassRoot(s)
<1>1. /\ s = DfsState(c, a, k, r, <<>>)
      /\ c \in [DOMAIN list -> Colors] /\ a \in [DOMAIN list -> Nat \ {0}]
      /\ k \in Seq(DOMAIN list) /\ r \in 1 .. Len(order) + 1
      /\ Searching(list, order, c, a, k, r)
  BY DfsRecord DEF DfsStates
<1>2. /\ r \in Nat /\ r \in 1 .. Len(order) /\ r + 1 \in 1 .. Len(order) + 1
      /\ node \in DOMAIN list
      /\ \A i \in 1 .. r + 1 - 1 : i \in 1 .. r - 1 \/ i = r
      /\ \A i \in 1 .. r - 1 : i \in 1 .. Len(order)
  BY <1>1
<1>3. next = IF c[node] = "WHITE" THEN Enter(on, node) ELSE on
  BY DEF NextRoot, PassRoot
<1>4. on = DfsState(c, a, k, r + 1, <<>>)
  <2>1. on = PassRoot(DfsState(c, a, k, r, <<>>))
    BY <1>1
  <2> HIDE DEF on, c, a, k, r
  <2> QED
    BY <2>1, PassesRoot
<1> HIDE DEF on, next, node, c, a, k, r
<1>5. DOMAIN g = DOMAIN list /\ k = <<>>
  BY ListAsGraph DEF k
<1>6. CASE c[node] # "WHITE"
  <2>1. RootsEntered(order, c, r + 1)
    BY <1>1, <1>2, <1>6 DEF Searching, RootsEntered, node
  <2>2. Searching(list, order, c, a, k, r + 1)
    BY <1>1, <2>1 DEF Searching
  <2>3. next = DfsState(c, a, k, r + 1, <<>>)
    BY <1>3, <1>4, <1>6
  <2>4. next \in DfsStates(list, order, Id)
    BY <1>1, <1>2, <2>2, <2>3, StillSearching
  <2>5. next.root = r + 1 /\ next.color = c /\ next.at = a
    BY <2>3, DfsFields
  <2> QED
    BY <2>4, <2>5 DEF next, r, c, a
<1>7. CASE c[node] = "WHITE"
  <2> DEFINE d == Paint(c, node, "GREY")
             l == Append(k, node)
  <2>1. next = DfsState(d, a, l, r + 1, <<>>)
    BY <1>3, <1>4, <1>7, Enters
  <2>2. /\ GreyOnStack(list, c, k) /\ StackIsPath(g, k) /\ LookedAt(list, c, a, k)
        /\ BlackClosed(g, c) /\ NoBlackRing(g, c)
        /\ WhiteFresh(list, c, a) /\ InPlace(list, a) /\ RootsEntered(order, c, r)
    BY <1>1 DEF Searching
  <2>3. /\ Painted(list, c, node, "GREY", d) /\ l \in Seq(DOMAIN list)
        /\ GreyOnStack(list, d, l) /\ StackIsPath(g, l)
        /\ BlackClosed(g, d) /\ NoBlackRing(g, d)
    <3>1. d = Paint(c, node, "GREY") /\ l = Append(k, node)
      OBVIOUS
    <3>2. /\ c \in [DOMAIN list -> Colors] /\ k \in Seq(DOMAIN list)
          /\ node \in DOMAIN list /\ c[node] = "WHITE" /\ DOMAIN g = DOMAIN list
          /\ k = <<>> \/ node \in g[Last(k)]
      BY <1>1, <1>2, <1>5, <1>7
    <3> HIDE DEF g, d, l, c, k, node
    <3>3. CanEnter(list, g, c, k, node)
      BY ONLY <2>2, <3>2 DEF CanEnter
    <3> QED
      BY ONLY <3>1, <3>3, Entered
  <2>4. l = <<node>> /\ Len(l) = 1 /\ l[1] = node
    BY <1>5
  <2>5. /\ d \in [DOMAIN list -> Colors] /\ d[node] = "GREY"
        /\ \A t \in DOMAIN list : t # node => d[t] = c[t]
    BY <2>3 DEF Painted
  <2> HIDE DEF d, l
  <2>6. LookedAt(list, d, a, l)
    <3>1. a[node] = 1
      BY <1>2, <1>7, <2>2 DEF WhiteFresh
    <3> QED
      BY <2>4, <3>1 DEF LookedAt
  <2>7. WhiteFresh(list, d, a)
    BY <2>2, <2>5 DEF WhiteFresh
  <2>8. RootsEntered(order, d, r + 1)
    <3>1. \A i \in 1 .. r - 1 : order[i] \in DOMAIN list
      BY <1>2
    <3>2. \A i \in 1 .. r - 1 : d[order[i]] # "WHITE"
      BY <2>2, <2>5, <3>1 DEF RootsEntered
    <3> QED
      BY <1>2, <2>5, <3>2 DEF RootsEntered, node
  <2>9. Searching(list, order, d, a, l, r + 1)
    BY <2>2, <2>3, <2>6, <2>7, <2>8 DEF Searching
  <2>10. next \in DfsStates(list, order, Id)
    BY <1>1, <1>2, <2>1, <2>3, <2>5, <2>9, StillSearching
  <2>11. next.root = r + 1 /\ next.color = d /\ next.at = a
    BY <2>1, DfsFields
  <2>12. Past(list, d, a) = Past(list, c, a)
    <3>1. \A t \in DOMAIN list : d[t] = "BLACK" <=> c[t] = "BLACK"
      BY <1>7, <2>5
    <3>2. \A p \in Places(list) : p[1] \in DOMAIN list
      BY DEF Places
    <3> QED
      BY <3>1, <3>2 DEF Past
  <2> QED
    BY <2>10, <2>11, <2>12 DEF next, r, c, a
<1> QED
  BY <1>6, <1>7

\* A call that has looked at its whole list returns and leaves its task black.
LEMMA CallReturnsGoesOn ==
    ASSUME NEW Id, NEW list, TaskList(list, Id), NEW order \in Seq(DOMAIN list),
           NEW s \in DfsStates(list, order, Id),
           s.found = <<>>, s.stack # <<>>, s.at[Last(s.stack)] > Len(list[Last(s.stack)])
    PROVE  LET next == CallReturns(s)
           IN  /\ next \in DfsStates(list, order, Id) /\ next.root = s.root
               /\ OneMorePast(list, s.color, s.at, next.color, next.at)
<1> DEFINE c == s.color
           a == s.at
           k == s.stack
           r == s.root
           g == GraphOf(list)
           top == Last(k)
           next == CallReturns(s)
           d == Paint(c, top, "BLACK")
           l == Front(k)
           m == Len(k)
<1>1. /\ s = DfsState(c, a, k, r, <<>>)
      /\ c \in [DOMAIN list -> Colors] /\ a \in [DOMAIN list -> Nat \ {0}]
      /\ k \in Seq(DOMAIN list) /\ r \in 1 .. Len(order) + 1
      /\ Searching(list, order, c, a, k, r)
  BY DfsRecord DEF DfsStates
<1>2. next = DfsState(d, a, l, r, <<>>)
  <2>1. next = CallReturns(DfsState(c, a, k, r, <<>>))
    BY <1>1
  <2> HIDE DEF c, a, k, r, next
  <2> QED
    BY <2>1, Returns
<1>3. k # <<>> /\ a[top] > Len(list[top])
  OBVIOUS
<1> HIDE DEF next, c, a, k, r
<1>4. /\ l \in Seq(DOMAIN list) /\ Len(l) = m - 1 /\ m \in Nat \ {0}
      /\ \A i \in 1 .. m - 1 : l[i] = k[i]
      /\ top \in DOMAIN list /\ top = k[m]
  BY <1>1, <1>3, FrontAndLast
<1> HIDE DEF top, l
<1>5. /\ GreyOnStack(list, c, k) /\ StackIsPath(g, k) /\ LookedAt(list, c, a, k)
      /\ BlackClosed(g, c) /\ NoBlackRing(g, c)
      /\ WhiteFresh(list, c, a) /\ InPlace(list, a) /\ RootsEntered(order, c, r)
  BY <1>1 DEF Searching
<1>6. /\ DOMAIN g = DOMAIN list /\ Len(list[top]) \in Nat
      /\ \A u \in g[top] : \E i \in 1 .. Len(list[top]) : u = list[top][i]
  <2>1. top \in DOMAIN list
    BY <1>4
  <2> HIDE DEF d, m
  <2> QED
    BY <2>1, ListAsGraph
<1>7. a[top] = Len(list[top]) + 1 /\ a[top] \in Nat
  BY <1>1, <1>3, <1>4, <1>5, <1>6 DEF InPlace
<1>8. ASSUME NEW u \in g[top] \cap DOMAIN g PROVE c[u] = "BLACK"
  <2>1. PICK i \in 1 .. Len(list[top]) : u = list[top][i]
    BY <1>6
  <2>2. i \in 1 .. a[top] - 1 /\ m \in 1 .. m /\ ~(m < m)
    BY <1>4, <1>6, <1>7
  <2> QED
    BY <1>4, <1>5, <1>6, <2>1, <2>2 DEF LookedAt
<1>9. /\ Painted(list, c, top, "BLACK", d)
      /\ GreyOnStack(list, d, l) /\ StackIsPath(g, l)
      /\ BlackClosed(g, d) /\ NoBlackRing(g, d)
  <2>1. d = Paint(c, top, "BLACK") /\ top = Last(k) /\ l = Front(k)
    BY DEF top, l
  <2> HIDE DEF g, d, m
  <2> QED
    BY ONLY <1>1, <1>3, <1>5, <1>6, <1>8, <2>1, Returned
<1>10. c[top] = "GREY" /\ d \in [DOMAIN list -> Colors] /\ d[top] = "BLACK"
       /\ \A t \in DOMAIN list : t # top => d[t] = c[t]
  <2>1. m \in 1 .. m
    BY <1>4
  <2>2. c[top] = "GREY"
    BY <1>4, <1>5, <2>1 DEF GreyOnStack
  <2> QED
    BY <1>9, <2>2 DEF Painted
<1> HIDE DEF d
<1>11. LookedAt(list, d, a, l)
  <2> SUFFICES ASSUME NEW n \in 1 .. m - 1, NEW i \in 1 .. a[l[n]] - 1,
                      list[l[n]][i] \in DOMAIN list
               PROVE  \/ d[list[l[n]][i]] = "BLACK"
                      \/ n < Len(l) /\ l[n + 1] = list[l[n]][i]
    BY <1>4 DEF LookedAt
  <2>1. /\ l[n] = k[n] /\ n \in 1 .. m
        /\ n = m - 1 \/ (n + 1 \in 1 .. m - 1 /\ n < m - 1)
        /\ m - 1 + 1 = m
    BY <1>4
  <2>2. c[list[l[n]][i]] = "BLACK" \/ k[n + 1] = list[l[n]][i]
    BY <1>5, <2>1 DEF LookedAt
  <2>3. CASE c[list[l[n]][i]] = "BLACK"
    BY <1>10, <2>3
  <2>4. CASE k[n + 1] = list[l[n]][i] /\ n = m - 1
    BY <1>4, <1>10, <2>1, <2>4
  <2>5. CASE k[n + 1] = list[l[n]][i] /\ n + 1 \in 1 .. m - 1 /\ n < m - 1
    BY <1>4, <2>5
  <2> QED
    BY <2>1, <2>2, <2>3, <2>4, <2>5
<1>12. WhiteFresh(list, d, a)
  BY <1>4, <1>5, <1>10 DEF WhiteFresh
<1>13. RootsEntered(order, d, r)
  <2>1. \A i \in 1 .. r - 1 : order[i] \in DOMAIN list
    <3>1. \A i \in 1 .. r - 1 : i \in 1 .. Len(order)
      BY <1>1
    <3> QED
      BY <3>1
  <2> QED
    BY <1>5, <1>10, <2>1 DEF RootsEntered
<1>14. next \in DfsStates(list, order, Id)
  <2>1. Searching(list, order, d, a, l, r)
    BY <1>5, <1>9, <1>11, <1>12, <1>13 DEF Searching
  <2> QED
    BY <1>1, <1>2, <1>4, <1>10, <2>1, StillSearching
<1>15. next.root = r /\ next.color = d /\ next.at = a
  BY <1>2, DfsFields
<1> DEFINE p == <<top, Len(list[top]) + 1>>
<1>16. p \in Places(list) \ Past(list, c, a)
  <2>1. Len(list[top]) + 1 \in 1 .. Len(list[top]) + 1
    BY <1>6
  <2>2. p \in Places(list) /\ p[1] = top /\ p[2] = Len(list[top]) + 1
    BY <1>4, <2>1 DEF Places
  <2>3. ~(Len(list[top]) + 1 < a[top])
    BY <1>6, <1>7
  <2> HIDE DEF p
  <2> QED
    BY <1>10, <2>2, <2>3 DEF Past
<1>17. Past(list, d, a) = Past(list, c, a) \cup {p}
  <2>1. ASSUME NEW t \in DOMAIN list, NEW i \in 1 .. Len(list[t]) + 1
        PROVE  (i < a[t] \/ d[t] = "BLACK") <=> (i < a[t] \/ c[t] = "BLACK" \/ <<t, i>> = p)
    <3>1. CASE t = top
      <4>1. i < a[t] \/ i = Len(list[top]) + 1
        BY <1>6, <1>7, <3>1
      <4> QED
        BY <1>10, <3>1, <4>1
    <3>2. CASE t # top
      BY <1>10, <3>2
    <3> QED
      BY <3>1, <3>2
  <2>2. \A q \in Places(list) : \E t \in DOMAIN list : \E i \in 1 .. Len(list[t]) + 1 : q = <<t, i>>
    BY DEF Places
  <2>3. \A q \in Places(list) : (q[2] < a[q[1]] \/ d[q[1]] = "BLACK")
                                   <=> (q[2] < a[q[1]] \/ c[q[1]] = "BLACK" \/ q = p)
    <3> HIDE DEF p
    <3> QED
      BY <2>1, <2>2
  <2> HIDE DEF p
  <2> QED
    BY <1>16, <2>3 DEF Past
<1> HIDE DEF p
<1> QED
  BY <1>14, <1>15, <1>16, <1>17 DEF OneMorePast, next, r, c, a

SameBlack(list, c, d) == \A t \in DOMAIN list : d[t] = "BLACK" <=> c[t] = "BLACK"

\* One more place of the innermost call is behind the search.
LEMMA PastOneMore ==
    ASSUME NEW Id, NEW list, TaskList(list, Id),
           NEW a \in [DOMAIN list -> Nat \ {0}], NEW top \in DOMAIN list, a[top] <= Len(list[top]),
           NEW b, b = LookOn(a, top), NEW c, NEW d, c[top] # "BLACK",
           SameBlack(list, c, d)
    PROVE  OneMorePast(list, c, a, d, b)
<1> DEFINE p == <<top, a[top]>>
<1>1. a[top] \in Nat /\ a[top] \in 1 .. Len(list[top]) + 1 /\ ~(a[top] < a[top])
  <2>1. Len(list[top]) \in Nat
    BY ListAsGraph
  <2> QED
    BY <2>1
<1>2. b[top] = a[top] + 1 /\ \A t \in DOMAIN list : t # top => b[t] = a[t]
  BY DEF LookOn
<1>3. p \in Places(list) /\ p[1] = top /\ p[2] = a[top]
  BY <1>1 DEF Places
<1>4. \A q \in Places(list) : \E t \in DOMAIN list : \E i \in 1 .. Len(list[t]) + 1 : q = <<t, i>>
  BY DEF Places
<1>5. ASSUME NEW t \in DOMAIN list, NEW i \in 1 .. Len(list[t]) + 1
      PROVE  (i < b[t] \/ d[t] = "BLACK") <=> (i < a[t] \/ c[t] = "BLACK" \/ <<t, i>> = p)
  <2>1. CASE t = top
    <3>1. i < a[top] + 1 <=> (i < a[top] \/ i = a[top])
      BY <1>1
    <3> QED
      BY <1>2, <2>1, <3>1 DEF SameBlack
  <2>2. CASE t # top
    BY <1>2, <2>2 DEF SameBlack
  <2> QED
    BY <2>1, <2>2
<1> HIDE DEF p
<1>6. \A q \in Places(list) : (q[2] < b[q[1]] \/ d[q[1]] = "BLACK")
                                 <=> (q[2] < a[q[1]] \/ c[q[1]] = "BLACK" \/ q = p)
  BY <1>4, <1>5
<1>7. Past(list, d, b) = Past(list, c, a) \cup {p}
  BY <1>3, <1>6 DEF Past
<1>8. p \notin Past(list, c, a)
  BY <1>1, <1>3 DEF Past
<1> QED
  BY <1>3, <1>7, <1>8 DEF OneMorePast

\* What a call on the stack has looked at is done, or is the call it waits for,
\* or it is dep, which the innermost call looks at now.
LookedAtBut(list, c, a, k, dep) ==
    \A n \in 1 .. Len(k) : \A i \in 1 .. a[k[n]] - 1 :
        list[k[n]][i] \in DOMAIN list =>
            \/ c[list[k[n]][i]] = "BLACK"
            \/ n < Len(k) /\ k[n + 1] = list[k[n]][i]
            \/ n = Len(k) /\ list[k[n]][i] = dep

\* The innermost call looks at a dependency that is black or not in the list:
\* what it has looked at stays done.
LEMMA LooksOn ==
    ASSUME NEW Id, NEW list, TaskList(list, Id),
           NEW a \in [DOMAIN list -> Nat \ {0}], NEW c \in [DOMAIN list -> Colors],
           NEW k \in Seq(DOMAIN list), k # <<>>,
           GreyOnStack(list, c, k), LookedAt(list, c, a, k),
           WhiteFresh(list, c, a), InPlace(list, a),
           NEW top, top = Last(k), a[top] <= Len(list[top]), NEW b, b = LookOn(a, top)
    PROVE  /\ b \in [DOMAIN list -> Nat \ {0}] /\ InPlace(list, b) /\ WhiteFresh(list, c, b)
           /\ LookedAtBut(list, c, b, k, list[top][a[top]])
<1> DEFINE dep == list[top][a[top]]
           m == Len(k)
<1>1. top \in DOMAIN list /\ top = k[m] /\ m \in Nat \ {0}
  BY FrontAndLast
<1>2. a[top] \in Nat \ {0} /\ Len(list[top]) \in Nat
  BY <1>1, ListAsGraph
<1>3. b[top] = a[top] + 1 /\ \A t \in DOMAIN list : t # top => b[t] = a[t]
  BY <1>1 DEF LookOn
<1>4. b \in [DOMAIN list -> Nat \ {0}]
  <2>1. a[top] + 1 \in Nat \ {0}
    BY <1>2
  <2> QED
    BY <2>1 DEF LookOn
<1>5. InPlace(list, b)
  <2>1. a[top] + 1 <= Len(list[top]) + 1
    BY <1>2
  <2> QED
    BY <1>3, <2>1 DEF InPlace
<1>6. c[top] = "GREY" /\ \A n \in 1 .. m : k[n] \in DOMAIN list /\ (k[n] = top => n = m)
  <2>1. m \in 1 .. m
    BY <1>1
  <2> QED
    BY <1>1, <2>1 DEF GreyOnStack
<1>7. WhiteFresh(list, c, b)
  BY <1>3, <1>6 DEF WhiteFresh
<1>8. ASSUME NEW n \in 1 .. m, NEW i \in 1 .. b[k[n]] - 1, list[k[n]][i] \in DOMAIN list
      PROVE  \/ c[list[k[n]][i]] = "BLACK"
             \/ n < m /\ k[n + 1] = list[k[n]][i]
             \/ n = m /\ list[k[n]][i] = dep
  <2>1. CASE i \in 1 .. a[k[n]] - 1
    BY <1>8, <2>1 DEF LookedAt
  <2>2. CASE ~(i \in 1 .. a[k[n]] - 1)
    <3>1. k[n] = top
      BY <1>3, <1>6, <2>2
    <3>2. i = a[top]
      BY <1>2, <1>3, <2>2, <3>1
    <3> QED
      BY <1>6, <3>1, <3>2
  <2> QED
    BY <2>1, <2>2
<1> QED
  BY <1>4, <1>5, <1>7, <1>8 DEF LookedAtBut

\* A call looks at its next dependency: it passes a black one, enters a white
\* one, and reports a ring at a grey one.
LEMMA NextDependencyGoesOn ==
    ASSUME NEW Id, NEW list, TaskList(list, Id), NEW order \in Seq(DOMAIN list),
           NEW s \in DfsStates(list, order, Id),
           s.found = <<>>, s.stack # <<>>, s.at[Last(s.stack)] <= Len(list[Last(s.stack)])
    PROVE  LET next == NextDependency(list, s)
           IN  /\ next \in DfsStates(list, order, Id) /\ next.root = s.root
               /\ OneMorePast(list, s.color, s.at, next.color, next.at)
<1> DEFINE c == s.color
           a == s.at
           k == s.stack
           r == s.root
           g == GraphOf(list)
           top == Last(k)
           dep == list[top][a[top]]
           next == NextDependency(list, s)
           on == PassPlace(s, top)
           b == LookOn(a, top)
           m == Len(k)
           ring == Append(SubSeq(k, IndexOn(k, dep), Len(k)), dep)
<1>1. /\ s = DfsState(c, a, k, r, <<>>)
      /\ c \in [DOMAIN list -> Colors] /\ a \in [DOMAIN list -> Nat \ {0}]
      /\ k \in Seq(DOMAIN list) /\ r \in 1 .. Len(order) + 1
      /\ Searching(list, order, c, a, k, r)
  BY DfsRecord DEF DfsStates
<1>2. /\ k # <<>> /\ a[top] <= Len(list[top])
      /\ dep \notin DOMAIN list => next = on
      /\ dep \in DOMAIN list /\ c[dep] = "BLACK" => next = on
      /\ dep \in DOMAIN list /\ c[dep] = "WHITE" => next = Enter(on, dep)
      /\ dep \in DOMAIN list /\ c[dep] = "GREY" => next = Report(on, ring)
  BY DEF NextDependency, PassPlace, Report
<1>3. on = DfsState(c, b, k, r, <<>>)
  <2>1. on = PassPlace(DfsState(c, a, k, r, <<>>), top)
    BY <1>1
  <2> HIDE DEF on, c, a, k, r, top
  <2> QED
    BY <2>1, PassesPlace
<1> HIDE DEF on, next, c, a, k, r, ring
<1>4. top \in DOMAIN list /\ top = k[m] /\ m \in Nat \ {0}
  BY <1>1, <1>2, FrontAndLast
<1>5. /\ GreyOnStack(list, c, k) /\ StackIsPath(g, k) /\ LookedAt(list, c, a, k)
      /\ BlackClosed(g, c) /\ NoBlackRing(g, c)
      /\ WhiteFresh(list, c, a) /\ InPlace(list, a) /\ RootsEntered(order, c, r)
  BY <1>1 DEF Searching
<1>6. /\ b \in [DOMAIN list -> Nat \ {0}] /\ InPlace(list, b) /\ WhiteFresh(list, c, b)
      /\ LookedAtBut(list, c, b, k, dep)
  <2>1. b = LookOn(a, top) /\ top = Last(k) /\ TaskList(list, Id) /\ k # <<>>
    BY <1>2
  <2>2. dep = list[top][a[top]] /\ m = Len(k)
    OBVIOUS
  <2> HIDE DEF g, b, top, dep, m
  <2> QED
    BY ONLY <1>1, <1>2, <1>5, <2>1, <2>2, LooksOn
<1>7. c[top] = "GREY"
  <2>1. m \in 1 .. m
    BY <1>4
  <2> QED
    BY <1>4, <1>5, <2>1 DEF GreyOnStack
<1>8. DOMAIN g = DOMAIN list /\ dep \in g[top]
  <2>1. a[top] \in 1 .. Len(list[top]) /\ DOMAIN g = DOMAIN list
    <3>1. a[top] \in Nat \ {0} /\ Len(list[top]) \in Nat /\ DOMAIN g = DOMAIN list
      BY <1>1, <1>4, ListAsGraph
    <3> QED
      BY <1>2, <3>1
  <2> QED
    BY <1>4, <2>1, ListAsGraph
<1> HIDE DEF top, dep, b
<1>9. ASSUME NEW d, SameBlack(list, c, d) PROVE OneMorePast(list, c, a, d, b)
  <2>1. c[top] # "BLACK"
    BY <1>7
  <2>2. b = LookOn(a, top) /\ TaskList(list, Id)
    BY DEF b
  <2> HIDE DEF m
  <2> QED
    BY ONLY <1>1, <1>2, <1>4, <1>9, <2>1, <2>2, PastOneMore
<1>14. SameBlack(list, c, c)
  BY DEF SameBlack
<1>10. CASE dep \notin DOMAIN list \/ c[dep] = "BLACK"
  <2>1. LookedAt(list, c, b, k)
    BY <1>6, <1>10 DEF LookedAt, LookedAtBut
  <2>2. Searching(list, order, c, b, k, r)
    BY <1>5, <1>6, <2>1 DEF Searching
  <2>3. next = DfsState(c, b, k, r, <<>>)
    BY <1>2, <1>3, <1>10
  <2>4. next \in DfsStates(list, order, Id)
    BY <1>1, <1>6, <2>2, <2>3, StillSearching
  <2>5. next.root = r /\ next.color = c /\ next.at = b
    BY <2>3, DfsFields
  <2> QED
    BY <1>9, <1>14, <2>4, <2>5 DEF next, r, c, a
<1>11. CASE dep \in DOMAIN list /\ c[dep] = "WHITE"
  <2> DEFINE d == Paint(c, dep, "GREY")
             l == Append(k, dep)
  <2>1. next = DfsState(d, b, l, r, <<>>)
    BY <1>2, <1>3, <1>11, Enters
  <2>2. /\ Painted(list, c, dep, "GREY", d) /\ l \in Seq(DOMAIN list)
        /\ GreyOnStack(list, d, l) /\ StackIsPath(g, l)
        /\ BlackClosed(g, d) /\ NoBlackRing(g, d)
    <3>1. d = Paint(c, dep, "GREY") /\ l = Append(k, dep) /\ dep \in g[Last(k)]
      BY <1>8 DEF top
    <3> HIDE DEF g, m, d, l, c, k
    <3>2. CanEnter(list, g, c, k, dep)
      BY ONLY <1>1, <1>5, <1>8, <1>11, <3>1 DEF CanEnter
    <3> QED
      BY ONLY <3>1, <3>2, Entered
  <2>3. /\ Len(l) = m + 1 /\ l[m + 1] = dep /\ \A i \in 1 .. m : l[i] = k[i] /\ k[i] \in DOMAIN list
    BY <1>1, <1>4, <1>11, AppendProperties
  <2>4. /\ d \in [DOMAIN list -> Colors] /\ d[dep] = "GREY"
        /\ \A t \in DOMAIN list : t # dep => d[t] = c[t]
    BY <2>2 DEF Painted
  <2> HIDE DEF d, l
  <2>5. b[dep] = 1
    BY <1>6, <1>11 DEF WhiteFresh
  <2>6. LookedAt(list, d, b, l)
    <3> SUFFICES ASSUME NEW n \in 1 .. m + 1, NEW i \in 1 .. b[l[n]] - 1,
                        list[l[n]][i] \in DOMAIN list
                 PROVE  \/ d[list[l[n]][i]] = "BLACK"
                        \/ n < m + 1 /\ l[n + 1] = list[l[n]][i]
      BY <2>3 DEF LookedAt
    <3>1. n = m + 1 \/ (n \in 1 .. m /\ n < m + 1)
      BY <1>4
    <3>2. n < m => n + 1 \in 1 .. m
      BY <1>4
    <3>3. CASE n = m + 1
      BY <2>3, <2>5, <3>3
    <3>4. CASE n \in 1 .. m /\ n < m + 1
      <4>1. l[n] = k[n] /\ i \in 1 .. b[k[n]] - 1 /\ list[k[n]][i] \in DOMAIN list
        BY <2>3, <3>4
      <4>2. \/ c[list[k[n]][i]] = "BLACK"
            \/ n < m /\ k[n + 1] = list[k[n]][i]
            \/ n = m /\ list[k[n]][i] = dep
        BY <1>6, <3>4, <4>1 DEF LookedAtBut
      <4>3. c[list[k[n]][i]] = "BLACK" => d[list[k[n]][i]] = "BLACK"
        BY <1>11, <2>4, <4>1
      <4>4. CASE n < m /\ k[n + 1] = list[k[n]][i]
        BY <2>3, <3>2, <4>1, <4>4
      <4>5. CASE n = m /\ list[k[n]][i] = dep
        BY <2>3, <3>4, <4>1, <4>5
      <4> QED
        BY <4>1, <4>2, <4>3, <4>4, <4>5
    <3> QED
      BY <3>1, <3>3, <3>4
  <2>7. WhiteFresh(list, d, b)
    BY <1>6, <2>4 DEF WhiteFresh
  <2>8. RootsEntered(order, d, r)
    <3>1. \A i \in 1 .. r - 1 : order[i] \in DOMAIN list
      <4>1. \A i \in 1 .. r - 1 : i \in 1 .. Len(order)
        BY <1>1
      <4> QED
        BY <4>1
    <3> QED
      BY <1>5, <2>4, <3>1 DEF RootsEntered
  <2>9. Searching(list, order, d, b, l, r)
    BY <1>6, <2>2, <2>6, <2>7, <2>8 DEF Searching
  <2>10. next \in DfsStates(list, order, Id)
    BY <1>1, <1>6, <2>1, <2>2, <2>4, <2>9, StillSearching
  <2>11. next.root = r /\ next.color = d /\ next.at = b
    BY <2>1, DfsFields
  <2>12. SameBlack(list, c, d)
    BY <1>11, <2>4 DEF SameBlack
  <2> QED
    BY <1>9, <2>10, <2>11, <2>12 DEF next, r, c, a
<1>12. CASE dep \in DOMAIN list /\ c[dep] = "GREY"
  <2>1. next = DfsState(c, b, k, r, ring)
    BY <1>2, <1>3, <1>12, Reports
  <2>2. ring \in Seq(Id) /\ ring # <<>> /\ IsRing(ring, g)
    <3> HIDE DEF g
    <3>1. dep \in g[Last(k)] \cap DOMAIN list
      BY <1>8, <1>12 DEF top
    <3> QED
      BY <1>1, <1>2, <1>5, <1>8, <1>12, <3>1, RingClosed DEF ring
  <2>3. next.root = r /\ next.color = c /\ next.at = b /\ next.found = ring
    BY <2>1, DfsFields
  <2>4. next \in DfsRecords(list, order, Id)
    BY <1>1, <1>6, <2>1, <2>2 DEF DfsRecords, DfsState
  <2>5. next \in DfsStates(list, order, Id)
    BY <2>2, <2>3, <2>4 DEF DfsStates
  <2> QED
    BY <1>9, <1>14, <2>3, <2>5 DEF next, r, c, a
<1>13. dep \in DOMAIN list => c[dep] \in Colors
  BY <1>1
<1> QED
  BY <1>10, <1>11, <1>12, <1>13 DEF Colors

\* The search is over: it reports a ring, or all roots are behind it.
DfsOver(order, s) == s.found # <<>> \/ (s.stack = <<>> /\ s.root > Len(order))

\* Roots and places that the search has gone past.
PassedCount(list, s) == s.root - 1 + Cardinality(Past(list, s.color, s.at))

\* There are no more roots and places to go past than there are.
LEMMA PassedCountBounds ==
    ASSUME NEW Id, NEW list, TaskList(list, Id), NEW order \in Seq(DOMAIN list),
           NEW s \in DfsStates(list, order, Id)
    PROVE  /\ PassedCount(list, s) \in Nat
           /\ PassedCount(list, s) <= Len(order) + Cardinality(Places(list))
<1>1. s.root \in 1 .. Len(order) + 1 /\ Len(order) \in Nat
  BY DfsRecord DEF DfsStates
<1>2. Past(list, s.color, s.at) \in SUBSET Places(list)
  BY DEF Past
<1> DEFINE n == Cardinality(Past(list, s.color, s.at))
           p == Cardinality(Places(list))
<1>3. n \in Nat /\ p \in Nat /\ n <= p
  BY <1>2, PlacesFinite, FS_Subset, FS_CardinalityType
<1>4. PassedCount(list, s) = s.root - 1 + n
  BY DEF PassedCount
<1> HIDE DEF n, p
<1>5. s.root - 1 + n \in Nat /\ s.root - 1 + n <= Len(order) + p
  BY <1>1, <1>3
<1> QED
  BY <1>4, <1>5 DEF p

\* Every step maintains the invariant and goes past one root or place.
LEMMA DfsGoesOn ==
    ASSUME NEW Id, NEW list, TaskList(list, Id), NEW order \in Seq(DOMAIN list),
           NEW s \in DfsStates(list, order, Id)
    PROVE  /\ DfsStep(list, order, s) \in DfsStates(list, order, Id)
           /\ DfsOver(order, s) => DfsStep(list, order, s) = s
           /\ ~DfsOver(order, s) =>
                 PassedCount(list, DfsStep(list, order, s)) = PassedCount(list, s) + 1
<1> DEFINE next == DfsStep(list, order, s)
           top == Last(s.stack)
           n == Cardinality(Past(list, s.color, s.at))
<1>1. /\ s.root \in Nat /\ Len(order) \in Nat
      /\ IsFiniteSet(Past(list, s.color, s.at)) /\ n \in Nat
  <2>1. s.root \in 1 .. Len(order) + 1 /\ Len(order) \in Nat
    BY DfsRecord DEF DfsStates
  <2>2. Past(list, s.color, s.at) \in SUBSET Places(list)
    BY DEF Past
  <2> QED
    BY <2>1, <2>2, PlacesFinite, FS_Subset, FS_CardinalityType
<1>2. CASE DfsOver(order, s)
  <2>1. next = s
    BY <1>1, <1>2 DEF DfsStep, DfsOver
  <2> QED
    BY <1>2, <2>1
<1>3. ASSUME next \in DfsStates(list, order, Id), next.root = s.root,
             OneMorePast(list, s.color, s.at, next.color, next.at)
      PROVE  PassedCount(list, next) = PassedCount(list, s) + 1
  <2> HIDE DEF next
  <2>1. PICK p \in Places(list) \ Past(list, s.color, s.at) :
           Past(list, next.color, next.at) = Past(list, s.color, s.at) \cup {p}
    BY <1>3 DEF OneMorePast
  <2>2. Cardinality(Past(list, next.color, next.at)) = n + 1
    BY <1>1, <2>1, FS_AddElement
  <2> HIDE DEF n
  <2>3. s.root - 1 + (n + 1) = s.root - 1 + n + 1
    BY <1>1
  <2> QED
    BY <1>3, <2>2, <2>3 DEF PassedCount, n
<1>4. CASE ~DfsOver(order, s) /\ s.stack = <<>>
  <2>1. s.found = <<>> /\ s.root <= Len(order)
    BY <1>1, <1>4 DEF DfsOver
  <2>2. next = NextRoot(order, s)
    BY <1>4, <2>1 DEF DfsStep
  <2> HIDE DEF next
  <2>3. /\ next \in DfsStates(list, order, Id) /\ next.root = s.root + 1
        /\ Past(list, next.color, next.at) = Past(list, s.color, s.at)
    BY <1>4, <2>1, <2>2, NextRootGoesOn
  <2> HIDE DEF n
  <2>4. PassedCount(list, next) = PassedCount(list, s) + 1
    <3>1. PassedCount(list, next) = next.root - 1 + n /\ PassedCount(list, s) = s.root - 1 + n
      BY <2>3 DEF PassedCount, n
    <3>2. next.root - 1 + n = (s.root - 1 + n) + 1
      BY <1>1, <2>3
    <3> QED
      BY ONLY <3>1, <3>2, Zenon
  <2> QED
    BY <1>4, <2>3, <2>4 DEF next
<1>5. CASE ~DfsOver(order, s) /\ s.stack # <<>> /\ s.at[top] <= Len(list[top])
  <2>1. s.found = <<>>
    BY <1>5 DEF DfsOver
  <2>2. next = NextDependency(list, s)
    BY <1>5, <2>1 DEF DfsStep
  <2>3. /\ next \in DfsStates(list, order, Id) /\ next.root = s.root
        /\ OneMorePast(list, s.color, s.at, next.color, next.at)
    <3> HIDE DEF next
    <3> QED
      BY <1>5, <2>1, <2>2, NextDependencyGoesOn
  <2> HIDE DEF next
  <2> QED
    BY <1>3, <1>5, <2>3 DEF next
<1>6. CASE ~DfsOver(order, s) /\ s.stack # <<>> /\ ~(s.at[top] <= Len(list[top]))
  <2>1. s.found = <<>>
    BY <1>6 DEF DfsOver
  <2>2. next = CallReturns(s)
    BY <1>6, <2>1 DEF DfsStep
  <2>3. s.at[top] > Len(list[top])
    <3>1. s.stack \in Seq(DOMAIN list) /\ s.at \in [DOMAIN list -> Nat \ {0}]
      BY DfsRecord DEF DfsStates
    <3>2. top \in DOMAIN list
      BY <1>6, <3>1, FrontAndLast
    <3>3. s.at[top] \in Nat /\ Len(list[top]) \in Nat
      BY <3>1, <3>2, ListAsGraph
    <3> HIDE DEF top
    <3> QED
      BY <1>6, <3>3
  <2>4. /\ next \in DfsStates(list, order, Id) /\ next.root = s.root
        /\ OneMorePast(list, s.color, s.at, next.color, next.at)
    <3> HIDE DEF next
    <3> QED
      BY <1>6, <2>1, <2>2, <2>3, CallReturnsGoesOn
  <2> HIDE DEF next
  <2> QED
    BY <1>3, <1>6, <2>4 DEF next
<1> QED
  BY <1>2, <1>4, <1>5, <1>6

\* Dfs is that recursion, and its states stay in DfsStates.
LEMMA DfsRuns ==
    ASSUME NEW Id, NEW list, TaskList(list, Id), NEW order \in Seq(DOMAIN list)
    PROVE  /\ Dfs(list, order)[0] = DfsStart(list)
           /\ \A n \in Nat : /\ Dfs(list, order)[n] \in DfsStates(list, order, Id)
                             /\ Dfs(list, order)[n + 1] = DfsStep(list, order, Dfs(list, order)[n])
<1> DEFINE S == DfsStates(list, order, Id)
           step == [s \in S |-> DfsStep(list, order, s)]
           Runs(f) == f = [n \in Nat |-> IF n = 0 THEN DfsStart(list)
                                         ELSE DfsStep(list, order, f[n - 1])]
<1>1. DfsStart(list) \in S /\ step \in [S -> S] /\ \A s \in S : step[s] = DfsStep(list, order, s)
  BY DfsStarts, DfsGoesOn
<1> HIDE DEF S, step
<1>2. PICK f : Iterates(f, DfsStart(list), step)
  BY <1>1, RunsExist
<1>3. f[0] = DfsStart(list) /\ \A n \in Nat : f[n + 1] = step[f[n]]
  BY <1>2 DEF Iterates
<1>4. \A n \in Nat : f[n] \in S
  BY <1>1, <1>3, StaysIn
<1>5. Runs(f)
  <2>1. \A n \in Nat : n # 0 => n - 1 \in Nat /\ step[f[n - 1]] = DfsStep(list, order, f[n - 1])
    BY <1>1, <1>4
  <2> QED
    BY <1>2, <2>1 DEF Iterates
<1>6. Runs(Dfs(list, order))
  <2>1. Dfs(list, order) = CHOOSE h : Runs(h)
    BY DEF Dfs
  <2> HIDE DEF Runs
  <2> QED
    BY <1>5, <2>1
<1>7. /\ Dfs(list, order)[0] = DfsStart(list)
      /\ \A n \in Nat : Dfs(list, order)[n + 1] = DfsStep(list, order, Dfs(list, order)[n])
  BY <1>6
<1>8. \A n \in Nat : Dfs(list, order)[n] \in S
  <2>1. \A n \in Nat : Dfs(list, order)[n] \in S => Dfs(list, order)[n + 1] \in S
    BY <1>1, <1>7
  <2> QED
    BY <1>1, <1>7, <2>1, StaysIn
<1> QED
  BY <1>7, <1>8 DEF S

\* A ring can be followed for ever.
LEMMA RingIsCyclic ==
    ASSUME NEW path, NEW g, IsRing(path, g), Len(path) \in Nat
    PROVE  Cyclic(g)
<1> DEFINE n == Len(path) - 1
           ring == {path[i] : i \in 1 .. n}
<1>1. n \in Nat /\ n >= 1
  BY DEF IsRing
<1>2. ring \in SUBSET DOMAIN g /\ ring # {}
  BY <1>1 DEF IsRing
<1>3. ASSUME NEW i \in 1 .. n PROVE g[path[i]] \cap ring # {}
  <2>1. path[i] \in DOMAIN g /\ path[i + 1] \in g[path[i]]
    BY DEF IsRing, Edges
  <2>2. i + 1 \in 1 .. n \/ i + 1 = Len(path)
    BY <1>1
  <2>3. path[i + 1] \in ring
    <3>1. 1 \in 1 .. n
      BY <1>1
    <3> QED
      BY <2>2, <3>1 DEF IsRing
  <2> QED
    BY <2>1, <2>3
<1>4. \A t \in ring : g[t] \cap ring # {}
  BY <1>3
<1> HIDE DEF ring
<1> QED
  BY <1>2, <1>4 DEF Cyclic

(* detect_cycle, for every finite task list, with repeated and unknown
   dependencies, and every order in which its ids are visited: the search ends,
   reports a path exactly when some tasks depend on each other in a ring, and
   the path it reports is such a ring. *)
THEOREM DetectCycleCorrect ==
    ASSUME NEW Id, NEW list, TaskList(list, Id), NEW order \in Seq(DOMAIN list),
           \A t \in DOMAIN list : \E i \in 1 .. Len(order) : order[i] = t
    PROVE  CycleAnswer(list, DetectCycle(list, order))
<1> DEFINE g == GraphOf(list)
           run == Dfs(list, order)
           m == Len(order) + Cardinality(Places(list))
           T == {n \in 0 .. m : DfsOver(order, run[n]) \/ PassedCount(list, run[n]) >= n}
<1>1. m \in Nat
  BY PlacesFinite, FS_CardinalityType
<1>2. /\ run[0] = DfsStart(list)
      /\ \A n \in Nat : /\ run[n] \in DfsStates(list, order, Id)
                        /\ run[n + 1] = DfsStep(list, order, run[n])
  BY DfsRuns
<1> HIDE DEF run
<1>3. \A n \in Nat : PassedCount(list, run[n]) \in Nat /\ PassedCount(list, run[n]) <= m
  BY <1>2, PassedCountBounds
<1> HIDE DEF m
<1>4. 0 \in T
  BY <1>1, <1>3
<1>5. ASSUME NEW n \in 0 .. m, n + 1 \in 0 .. m, n \in T PROVE n + 1 \in T
  <2>1. n \in Nat /\ n + 1 \in Nat
    BY <1>1
  <2>2. CASE DfsOver(order, run[n])
    <3>1. run[n + 1] = run[n]
      BY <1>2, <2>1, <2>2, DfsGoesOn
    <3> QED
      BY <1>5, <2>2, <3>1
  <2>3. CASE ~DfsOver(order, run[n])
    <3>1. PassedCount(list, run[n + 1]) = PassedCount(list, run[n]) + 1
      <4>1. run[n] \in DfsStates(list, order, Id) /\ run[n + 1] = DfsStep(list, order, run[n])
        BY <1>2, <2>1
      <4>2. PassedCount(list, DfsStep(list, order, run[n])) = PassedCount(list, run[n]) + 1
        BY <2>3, <4>1, DfsGoesOn
      <4> QED
        BY <4>1, <4>2
    <3>2. PassedCount(list, run[n]) \in Nat /\ PassedCount(list, run[n]) >= n
      BY <1>3, <1>5, <2>1, <2>3
    <3>3. PassedCount(list, run[n + 1]) >= n + 1
      BY <2>1, <3>1, <3>2
    <3> QED
      BY <1>5, <3>3
  <2> QED
    BY <2>2, <2>3
<1>6. T \in SUBSET (0 .. m)
  OBVIOUS
<1> HIDE DEF T
<1>7. m \in T
  BY <1>1, <1>4, <1>5, <1>6, CountingUp
<1> DEFINE s == run[m]
<1>8. s \in DfsStates(list, order, Id)
  BY <1>1, <1>2
<1>9. DfsOver(order, s)
  <2> SUFFICES ASSUME ~DfsOver(order, s) PROVE FALSE
    OBVIOUS
  <2>1. PassedCount(list, run[m]) >= m
    BY <1>7 DEF T
  <2>2. PassedCount(list, run[m + 1]) = PassedCount(list, run[m]) + 1
    <3>1. run[m] \in DfsStates(list, order, Id) /\ run[m + 1] = DfsStep(list, order, run[m])
      BY <1>1, <1>2
    <3>2. PassedCount(list, DfsStep(list, order, run[m])) = PassedCount(list, run[m]) + 1
      BY <3>1, DfsGoesOn
    <3> QED
      BY <3>1, <3>2
  <2>3. m + 1 \in Nat
    BY <1>1
  <2>4. /\ PassedCount(list, run[m]) \in Nat /\ PassedCount(list, run[m + 1]) \in Nat
        /\ PassedCount(list, run[m + 1]) <= m
    BY <1>1, <1>3, <2>3
  <2> QED
    BY <1>1, <2>1, <2>2, <2>4
<1>10. DetectCycle(list, order) = s.found
  BY DEF DetectCycle, run, m
<1> HIDE DEF s
<1>11. DOMAIN g = DOMAIN list
  BY ListAsGraph
<1>12. CASE s.found # <<>>
  <2>1. IsRing(s.found, g) /\ Len(s.found) \in Nat
    BY <1>8, <1>12, DfsRecord DEF DfsStates
  <2>2. Cyclic(g)
    <3> HIDE DEF g
    <3> QED
      BY <2>1, RingIsCyclic
  <2> QED
    BY <1>10, <1>12, <2>1, <2>2 DEF CycleAnswer
<1>13. CASE s.found = <<>>
  <2>1. /\ s.stack = <<>> /\ s.root > Len(order)
        /\ Searching(list, order, s.color, s.at, s.stack, s.root)
    BY <1>8, <1>9, <1>13 DEF DfsOver, DfsStates
  <2>2. s.root \in 1 .. Len(order) + 1 /\ s.color \in [DOMAIN list -> Colors]
    BY <1>8, DfsRecord DEF DfsStates
  <2>3. ASSUME NEW t \in DOMAIN list PROVE s.color[t] = "BLACK"
    <3>1. PICK i \in 1 .. Len(order) : order[i] = t
      OBVIOUS
    <3>2. i \in 1 .. s.root - 1
      BY <2>1, <2>2
    <3>3. s.color[t] # "WHITE"
      BY <2>1, <3>1, <3>2 DEF Searching, RootsEntered
    <3>4. s.color[t] # "GREY"
      <4>1. Len(s.stack) = 0 /\ 1 .. Len(s.stack) = {}
        BY <2>1
      <4> QED
        BY <2>1, <4>1 DEF Searching, GreyOnStack
    <3>5. s.color[t] \in Colors
      BY <2>2
    <3> QED
      BY <3>3, <3>4, <3>5 DEF Colors
  <2>4. ~Cyclic(g)
    <3>1. NoBlackRing(g, s.color)
      BY <2>1 DEF Searching
    <3> HIDE DEF g
    <3> QED
      BY <1>11, <2>3, <3>1 DEF NoBlackRing, Cyclic
  <2> QED
    BY <1>10, <1>13, <2>4 DEF CycleAnswer
<1> QED
  BY <1>12, <1>13
=============================================================================
