-------------------------- MODULE DynamicPGM_proof --------------------------
(***************************************************************************)
(* DynamicPGMIndex for any keys, payloads, base and levels: find returns    *)
(* what was inserted last and lower_bound the next key that is not erased,  *)
(* each PGM index is of what its level holds, and a merge has room.         *)
(*                                                                          *)
(* The argument follows the newest item of a key: between calls it is in    *)
(* the first level that has the key; during a merge it is in tmp or, if tmp *)
(* does not have the key, in the first of the levels that are still to be   *)
(* merged or lie below the target.                                          *)
(***************************************************************************)
EXTENDS DynamicPGM, FiniteSetTheorems, TLAPS

-----------------------------------------------------------------------------
(* Sets of numbers, functions given by repetition, powers of two.          *)

\* A set of numbers that is not empty has a least element.
LEMMA Least ==
    ASSUME NEW T, T \subseteq Nat, T # {}
    PROVE  \E x \in T : \A y \in T : x <= y
<1>1. IsWellFoundedOn(OpToRel(<, Nat), Nat)
  BY NatLessThanWellFounded
<1>2. \E x \in T : \A y \in T : ~(<<y, x>> \in OpToRel(<, Nat))
  BY <1>1, WFMin
<1>3. \A x, y \in Nat : ~(<<y, x>> \in OpToRel(<, Nat)) => x <= y
  BY DEF OpToRel
<1>4. QED  BY <1>2, <1>3

\* Induction over the numbers from lo to hi.
LEMMA Induction ==
    ASSUME NEW lo \in Int, NEW hi \in Int, NEW S, lo \in S,
           \A n \in lo + 1 .. hi : n - 1 \in S => n \in S
    PROVE  \A n \in lo .. hi : n \in S
<1> DEFINE T == {m \in Nat : lo + m <= hi /\ lo + m \notin S}
<1>1. ASSUME T # {}
      PROVE  FALSE
  <2>1. PICK m \in T : \A k \in T : m <= k
    <3>1. T \subseteq Nat  OBVIOUS
    <3> HIDE DEF T
    <3>2. QED  BY <1>1, <3>1, Least
  <2>2. m # 0  BY <2>1
  <2>3. m - 1 \notin T
    <3>1. m \in Nat  BY <2>1
    <3> HIDE DEF T
    <3>2. QED  BY <2>1, <3>1
  <2>4. lo + m - 1 \in S  BY <2>1, <2>2, <2>3
  <2>5. lo + m \in lo + 1 .. hi  BY <2>1, <2>2
  <2>6. lo + m \in S  BY <2>4, <2>5
  <2>7. QED  BY <2>1, <2>6
<1>2. ASSUME NEW n \in lo .. hi
      PROVE  n \in S
  <2>1. n - lo \in Nat /\ lo + (n - lo) = n  OBVIOUS
  <2>2. n - lo \notin T
    <3> HIDE DEF T
    <3>1. QED  BY <1>1
  <2>3. QED  BY <2>1, <2>2
<1>3. QED  BY <1>2

\* N steps that stay in A, from a value in A.
Repetitions(N, A, a, F) ==
    {f \in [0 .. N -> A] : f[0] = a /\ \A n \in 1 .. N : f[n] = F[n][f[n - 1]]}

LEMMA Repeated ==
    ASSUME NEW N \in Nat, NEW A, NEW a \in A, NEW F \in [1 .. N -> [A -> A]]
    PROVE  \E f : f \in Repetitions(N, A, a, F)
<1> DEFINE Good(m, f) == f[0] = a /\ \A n \in 1 .. m : f[n] = F[n][f[n - 1]]
           T == {m \in 0 .. N : ~\E f \in [0 .. m -> A] : Good(m, f)}
<1>1. ASSUME T # {}
      PROVE  FALSE
  <2>1. PICK m \in T : \A k \in T : m <= k
    <3>1. T \subseteq Nat  OBVIOUS
    <3> HIDE DEF T
    <3>2. QED  BY <1>1, <3>1, Least
  <2>2. CASE m = 0
    <3>1. Good(0, [n \in 0 .. 0 |-> a])  OBVIOUS
    <3>2. [n \in 0 .. 0 |-> a] \in [0 .. 0 -> A]  OBVIOUS
    <3>3. QED  BY <2>2, <3>1, <3>2
  <2>3. CASE m # 0
    <3>1. m \in 1 .. N /\ m - 1 \in 0 .. N  BY <2>3
    <3>2. m - 1 \notin T
      <4> HIDE DEF T
      <4>1. QED  BY <2>1, <3>1
    <3>3. PICK f \in [0 .. m - 1 -> A] : Good(m - 1, f)  BY <3>1, <3>2
    <3> DEFINE g == [n \in 0 .. m |-> IF n = m THEN F[m][f[m - 1]] ELSE f[n]]
    <3>4. F[m][f[m - 1]] \in A  BY <3>1
    <3>5. g \in [0 .. m -> A]  BY <3>1, <3>4
    <3>6. g[0] = a  BY <3>1, <3>3
    <3>7. \A n \in 1 .. m : g[n] = F[n][g[n - 1]]
      <4> TAKE n \in 1 .. m
      <4>1. CASE n = m
        <5>1. g[n] = F[m][f[m - 1]] /\ g[n - 1] = f[m - 1]  BY <4>1, <3>1
        <5>2. QED  BY <4>1, <5>1
      <4>2. CASE n # m
        <5>1. n \in 1 .. m - 1 /\ g[n] = f[n] /\ g[n - 1] = f[n - 1]
          BY <4>2, <3>1
        <5>2. f[n] = F[n][f[n - 1]]  BY <3>3, <5>1
        <5>3. QED  BY <5>1, <5>2
      <4>3. QED  BY <4>1, <4>2
    <3> HIDE DEF g
    <3>8. QED  BY <3>5, <3>6, <3>7, <2>1
  <2>4. QED  BY <2>2, <2>3
<1>2. N \notin T
  <2> HIDE DEF T
  <2>1. QED  BY <1>1
<1>3. N \in 0 .. N  OBVIOUS
<1>4. QED  BY <1>2, <1>3 DEF Repetitions

\* Adding N numbers to a number, one after the other.
Totals(N, a, d) ==
    {f \in [0 .. N -> Nat] : f[0] = a /\ \A n \in 1 .. N : f[n] = f[n - 1] + d[n]}

LEMMA Added ==
    ASSUME NEW N \in Nat, NEW a \in Nat, NEW d \in [1 .. N -> Nat]
    PROVE  \E f : f \in Totals(N, a, d)
<1> DEFINE F == [n \in 1 .. N |-> [x \in Nat |-> x + d[n]]]
<1>1. F \in [1 .. N -> [Nat -> Nat]]  OBVIOUS
<1>2. PICK f : f \in Repetitions(N, Nat, a, F)
  <2> HIDE DEF F
  <2>1. QED  BY <1>1, Repeated
<1>3. f \in [0 .. N -> Nat] /\ f[0] = a  BY <1>2 DEF Repetitions
<1>4. ASSUME NEW n \in 1 .. N
      PROVE  f[n] = f[n - 1] + d[n]
  <2>1. n - 1 \in 0 .. N /\ f[n - 1] \in Nat  BY <1>3
  <2>2. f[n] = F[n][f[n - 1]]
    <3> HIDE DEF F
    <3>1. QED  BY <1>2 DEF Repetitions
  <2>3. QED  BY <2>1, <2>2
<1>5. QED  BY <1>3, <1>4 DEF Totals

\* A set of n elements has 2 ^ n subsets.
LEMMA PowerIsCount ==
    ASSUME NEW n \in Nat, NEW S, IsFiniteSet(S), Cardinality(S) = n
    PROVE  /\ IsFiniteSet(SUBSET S) /\ Cardinality(SUBSET S) = 2 ^ n
           /\ 2 ^ n \in Nat \ {0}
<1>1. IsFiniteSet(SUBSET S) /\ Cardinality(SUBSET S) = 2 ^ n
  BY FS_SUBSET
<1>2. 2 ^ n \in Nat  BY <1>1, FS_CardinalityType
<1>3. S \in SUBSET S  OBVIOUS
<1>4. 2 ^ n # 0  BY <1>1, <1>3, FS_EmptySet
<1>5. QED  BY <1>1, <1>2, <1>4

\* A power of two is a positive number.
LEMMA PowerType == \A n \in Nat : 2 ^ n \in Nat \ {0}
<1> TAKE n \in Nat
<1>1. IsFiniteSet(1 .. n) /\ Cardinality(1 .. n) = n  BY FS_Interval
<1>2. QED  BY <1>1, PowerIsCount

\* A subset of 1 .. m + n is one of the first m numbers and one of the rest.
LEMMA PowerSum == \A m, n \in Nat : 2 ^ (m + n) = 2 ^ m * 2 ^ n
<1> TAKE m, n \in Nat
<1> DEFINE A == 1 .. m
           B == m + 1 .. m + n
           U == 1 .. m + n
           f == [X \in SUBSET U |-> <<X \cap A, X \cap B>>]
<1>1. m + n \in Nat  OBVIOUS
<1>2. IsFiniteSet(A) /\ Cardinality(A) = m  BY FS_Interval
<1>3. IsFiniteSet(B) /\ Cardinality(B) = n  BY FS_Interval
<1>4. IsFiniteSet(U) /\ Cardinality(U) = m + n  BY <1>1, FS_Interval
<1>5. Cardinality((SUBSET A) \X (SUBSET B)) = 2 ^ m * 2 ^ n
  <2>1. IsFiniteSet(SUBSET A) /\ Cardinality(SUBSET A) = 2 ^ m
    BY <1>2, PowerIsCount
  <2>2. IsFiniteSet(SUBSET B) /\ Cardinality(SUBSET B) = 2 ^ n
    BY <1>3, PowerIsCount
  <2>3. QED  BY <2>1, <2>2, FS_Product
<1>6. f \in Bijection(SUBSET U, (SUBSET A) \X (SUBSET B))
  <2>1. U = A \cup B /\ A \cap B = {}  OBVIOUS
  <2>2. f \in [SUBSET U -> (SUBSET A) \X (SUBSET B)]  OBVIOUS
  <2>3. ASSUME NEW X \in SUBSET U, NEW Y \in SUBSET U, f[X] = f[Y]
        PROVE  X = Y
    <3>1. X = (X \cap A) \cup (X \cap B) /\ Y = (Y \cap A) \cup (Y \cap B)
      BY <2>1
    <3>2. X \cap A = Y \cap A /\ X \cap B = Y \cap B
      BY <2>3
    <3>3. QED  BY <3>1, <3>2
  <2>4. ASSUME NEW z \in (SUBSET A) \X (SUBSET B)
        PROVE  \E X \in SUBSET U : f[X] = z
    <3>1. PICK C \in SUBSET A, D \in SUBSET B : z = <<C, D>>
      BY <2>4
    <3>2. C \cup D \in SUBSET U  BY <2>1
    <3>3. (C \cup D) \cap A = C /\ (C \cup D) \cap B = D  BY <2>1
    <3>4. f[C \cup D] = z  BY <3>1, <3>2, <3>3
    <3>5. QED  BY <3>2, <3>4
  <2> HIDE DEF f
  <2>5. QED
    BY <2>2, <2>3, <2>4 DEF Bijection, Injection, Surjection, IsInjective
<1>7. IsFiniteSet(SUBSET U) /\ Cardinality(SUBSET U) = 2 ^ (m + n)
  BY <1>1, <1>4, PowerIsCount
<1> HIDE DEF f, U, A, B
<1>8. QED  BY <1>5, <1>6, <1>7, FS_Bijection DEF ExistsBijection

\* The next power of two is twice this one.
LEMMA PowerStep == \A n \in Nat : 2 ^ (n + 1) = 2 * 2 ^ n
<1> TAKE n \in Nat
<1>1. 2 ^ 1 = 2  OBVIOUS
<1>2. 2 ^ (n + 1) = 2 ^ n * 2 ^ 1  BY PowerSum
<1>3. 2 ^ n \in Nat  BY PowerType
<1>4. QED  BY <1>1, <1>2, <1>3

\* Powers of two grow with the exponent.
LEMMA PowerGrows == \A m, n \in Nat : m <= n => 2 ^ m <= 2 ^ n
<1> SUFFICES ASSUME NEW m \in Nat, NEW n \in Nat, m <= n
             PROVE  2 ^ m <= 2 ^ n
  OBVIOUS
<1> DEFINE a == 2 ^ m
           b == 2 ^ (n - m)
<1>1. n - m \in Nat /\ m + (n - m) = n  OBVIOUS
<1>2. 2 ^ n = a * b  BY <1>1, PowerSum
<1>3. a \in Nat /\ b \in Nat \ {0}  BY <1>1, PowerType
<1> HIDE DEF a, b
<1>4. b >= 1  BY <1>3
<1>5. a <= a * b  BY <1>3, <1>4, Z3
<1>6. QED  BY <1>2, <1>5 DEF a

-----------------------------------------------------------------------------
ItemMaps == UNION {[S -> Items] : S \in SUBSET Keys}

\* Level i is the first one from level `from' on that has the key.
First(i, key, from) ==
  /\ i \in Levels /\ from <= i /\ i < used_levels
  /\ key \in DOMAIN levels[i]
  /\ \A j \in Levels : from <= j /\ j < i => key \notin DOMAIN levels[j]

\* No level from level `from' on has the key.
Nowhere(key, from) ==
  \A i \in Levels : from <= i /\ i < used_levels => key \notin DOMAIN levels[i]

\* The levels from level `from' on tell what was inserted last under the key.
Tell(key, from) ==
  /\ \A i \in Levels : First(i, key, from) => Offset(levels[i][key]) = latest[key]
  /\ Nowhere(key, from) => latest[key] = NONE

Shape ==
  /\ levels \in [Levels -> ItemMaps]
  /\ used_levels \in min_level .. MaxLevel + 1
  /\ latest \in [Keys -> Payloads \cup {NONE}]
  /\ merge \in [merging : BOOLEAN, target : Int, limit : Int, next : Int,
                 room : {merge.room}, tmp : ItemMaps]
  /\ \A i \in Levels : i >= used_levels => DOMAIN levels[i] = {}

\* What pairwise_merge has emptied, and where it is.
MergeShape ==
  merge.merging =>
    /\ merge.target \in (min_level + 1) .. MaxLevel /\ merge.target < used_levels
    /\ \/ merge.limit = merge.target
       \/ merge.limit = merge.target - 1 /\ DOMAIN levels[merge.target] = {}
    /\ merge.next \in (min_level + 1) .. (merge.limit + 1)
    /\ merge.tmp \in ItemMaps
    /\ \A j \in (min_level + 1) .. (merge.next - 1) : DOMAIN levels[j] = {}

Indexes ==
  /\ pgms \in Seq(SUBSET Keys)
  /\ Len(pgms) = IF used_levels > min_index_level THEN used_levels - min_index_level ELSE 0
  /\ \A i \in Levels : i < used_levels /\ has_pgm(i) => pgms[PgmOf(i)] = DOMAIN levels[i]

Newest ==
  \A key \in Keys :
    IF merge.merging
    THEN IF key \in DOMAIN merge.tmp
         THEN Offset(merge.tmp[key]) = latest[key]
         ELSE Tell(key, merge.next)
    ELSE Tell(key, min_level)

IInv == Shape /\ MergeShape /\ Indexes /\ Newest

-----------------------------------------------------------------------------

LEMMA Constants ==
  /\ Keys \subseteq Nat \ {0}
  /\ NONE \notin Payloads /\ Deleted \notin Payloads
  /\ min_level \in Nat \ {0} /\ min_index_level \in Nat /\ MaxLevel \in Nat
  /\ min_level < min_index_level /\ min_level < MaxLevel
  /\ Calls \subseteq Keys \X Items
  /\ Levels \subseteq Int /\ min_level \in Levels
BY DynamicPGMAssumption DEF DynamicPGMAssumption, Items, Levels

\* An item map is a function from some of the keys.
LEMMA ItemMap ==
  ASSUME NEW f \in ItemMaps
  PROVE  /\ DOMAIN f \subseteq Keys /\ f \in [DOMAIN f -> Items]
         /\ \A k \in DOMAIN f : f[k] \in Items
BY DEF ItemMaps

LEMMA IsItemMap ==
  ASSUME NEW S \in SUBSET Keys, NEW f \in [S -> Items]
  PROVE  f \in ItemMaps
BY DEF ItemMaps

LEMMA EmptyMap == Empty \in ItemMaps /\ DOMAIN Empty = {}
BY DEF Empty, ItemMaps, Items

\* With puts the item under its key and leaves the others.
LEMMA WithItem ==
  ASSUME NEW f \in ItemMaps, NEW key \in Keys, NEW item \in Items
  PROVE  /\ With(f, key, item) \in ItemMaps
         /\ DOMAIN With(f, key, item) = DOMAIN f \cup {key}
         /\ With(f, key, item)[key] = item
         /\ \A k \in DOMAIN f : k # key => With(f, key, item)[k] = f[k]
<1>1. DOMAIN f \in SUBSET Keys /\ \A k \in DOMAIN f : f[k] \in Items
  BY ItemMap
<1>2. With(f, key, item) \in [DOMAIN f \cup {key} -> Items]
  BY <1>1 DEF With
<1>3. DOMAIN f \cup {key} \in SUBSET Keys
  BY <1>1
<1> QED
  BY <1>2, <1>3, IsItemMap DEF With

\* The result of merging a level: the newer item of every key, and neither of
\* the two that are dropped.
LEMMA MergedItems ==
  ASSUME Shape, NEW f \in ItemMaps, NEW n \in Levels
  PROVE  /\ Merged(f, n) \in ItemMaps
         /\ \A k \in DOMAIN Merged(f, n) :
              \/ k \in DOMAIN f /\ Merged(f, n)[k] = f[k]
              \/ k \notin DOMAIN f /\ k \in DOMAIN levels[n] /\ Merged(f, n)[k] = levels[n][k]
         /\ \A k \in Keys : k \notin DOMAIN Merged(f, n) =>
              \/ k \notin DOMAIN f /\ k \notin DOMAIN levels[n]
              \/ k \in DOMAIN f /\ f[k] = Deleted /\ n = used_levels - 1
<1> DEFINE dropped == {k \in DOMAIN f \cap DOMAIN levels[n] : CanDelete(n) /\ f[k] = Deleted}
           S == (DOMAIN f \cup DOMAIN levels[n]) \ dropped
<1>1. levels[n] \in ItemMaps
  BY DEF Shape
<1>2. /\ DOMAIN f \subseteq Keys /\ DOMAIN levels[n] \subseteq Keys
      /\ \A k \in DOMAIN f : f[k] \in Items
      /\ \A k \in DOMAIN levels[n] : levels[n][k] \in Items
  BY <1>1, ItemMap
<1>3. Merged(f, n) = [k \in S |-> IF k \in DOMAIN f THEN f[k] ELSE levels[n][k]]
  BY DEF Merged
<1>4. Merged(f, n) \in [S -> Items] /\ S \in SUBSET Keys
  BY <1>2, <1>3
<1>5. Merged(f, n) \in ItemMaps
  BY <1>4, IsItemMap
<1> QED
  BY <1>3, <1>5 DEF CanDelete

-----------------------------------------------------------------------------
\* Both constructors establish the invariant.
LEMMA InitInvariant == Init => IInv
<1> SUFFICES ASSUME Init PROVE IInv
  OBVIOUS
<1> USE Constants
<1>1. PICK loaded \in Loads :
        /\ latest = [k \in Keys |-> IF k \in loaded THEN LoadedWith ELSE NONE]
        /\ IF loaded = {} THEN InitEmpty ELSE InitLoaded(loaded)
  BY DEF Init
<1>2. /\ merge = Idle /\ merge.merging = FALSE
      /\ merge \in [merging : BOOLEAN, target : Int, limit : Int, next : Int,
                     room : {merge.room}, tmp : ItemMaps]
  BY EmptyMap DEF Init, Idle
<1>3. loaded \subseteq Keys /\ LoadedWith \in Payloads
  BY DynamicPGMAssumption DEF DynamicPGMAssumption
<1>4. MergeShape
  BY <1>2 DEF MergeShape
<1>5. CASE loaded = {}
  <2>1. /\ used_levels = min_level /\ levels = [i \in Levels |-> Empty] /\ pgms = << >>
        /\ latest = [k \in Keys |-> NONE]
    BY <1>1, <1>5 DEF InitEmpty
  <2>2. Shape
    <3>1. levels \in [Levels -> ItemMaps] /\ \A i \in Levels : DOMAIN levels[i] = {}
      BY <2>1, EmptyMap
    <3>2. used_levels \in min_level .. MaxLevel + 1
      BY <2>1
    <3>3. latest \in [Keys -> Payloads \cup {NONE}]
      BY <2>1
    <3> QED
      BY <1>2, <3>1, <3>2, <3>3 DEF Shape
  <2>3. Indexes
    BY <2>1 DEF Indexes, Levels, has_pgm
  <2>4. Newest
    BY <1>2, <2>1, EmptyMap DEF Newest, Tell, First, Nowhere
  <2> QED
    BY <1>4, <2>2, <2>3, <2>4 DEF IInv
<1>6. CASE loaded # {}
  <2> DEFINE L == LoadLevel(loaded)
             map == [k \in loaded |-> LoadedWith]
  <2>1. /\ used_levels = L + 1
        /\ levels = [i \in Levels |-> IF i = L THEN map ELSE Empty]
        /\ pgms = [n \in 1 .. PgmOf(L) |-> IF n = PgmOf(L) THEN loaded ELSE {}]
    BY <1>1, <1>6 DEF InitLoaded
  <2>2. L \in Levels
    BY <1>6, LoadsFit
  <2>3. map \in ItemMaps /\ DOMAIN map = loaded
    <3>1. map \in [loaded -> Items]
      BY <1>3 DEF Items
    <3> QED
      BY <1>3, <3>1, IsItemMap
  <2> HIDE DEF L, map
  <2>4. Shape
    <3>1. levels \in [Levels -> ItemMaps]
      BY <2>1, <2>3, EmptyMap
    <3>2. used_levels \in min_level .. MaxLevel + 1
      BY <2>1, <2>2 DEF Levels
    <3>3. latest \in [Keys -> Payloads \cup {NONE}]
      BY <1>1, <1>3
    <3>4. \A i \in Levels : i >= used_levels => DOMAIN levels[i] = {}
      BY <2>1, <2>2, EmptyMap DEF Levels
    <3> QED
      BY <1>2, <3>1, <3>2, <3>3, <3>4 DEF Shape
  <2>5. Indexes
    <3>1. PgmOf(L) \in Int
      BY <2>2 DEF PgmOf
    <3>2. CASE L < min_index_level
      <4>1. pgms = << >>
        BY <2>1, <2>2, <3>1, <3>2 DEF PgmOf
      <4>2. pgms \in Seq(SUBSET Keys) /\ Len(pgms) = 0
        BY <4>1
      <4>3. L \in Int /\ ~(used_levels > min_index_level)
        BY <2>1, <2>2, <3>2
      <4>4. \A i \in Levels : i < used_levels => ~has_pgm(i)
        BY <2>1, <3>2, <4>3 DEF has_pgm
      <4> QED
        BY <4>2, <4>3, <4>4 DEF Indexes
    <3>3. CASE L >= min_index_level
      <4>1. PgmOf(L) \in Nat /\ PgmOf(L) = used_levels - min_index_level
        BY <2>1, <2>2, <3>3 DEF PgmOf
      <4>2. pgms \in [1 .. PgmOf(L) -> SUBSET Keys]
        BY <1>3, <2>1
      <4>3. pgms \in Seq(SUBSET Keys) /\ Len(pgms) = PgmOf(L)
        BY <4>1, <4>2
      <4>4. \A i \in Levels : i < used_levels /\ has_pgm(i) => pgms[PgmOf(i)] = DOMAIN levels[i]
        BY <2>1, <2>2, <2>3, <4>1, EmptyMap DEF has_pgm, PgmOf
      <4>5. L \in Int /\ used_levels > min_index_level
        BY <2>1, <2>2, <3>3
      <4> QED
        BY <4>1, <4>3, <4>4, <4>5 DEF Indexes
    <3> QED
      BY <2>2, <3>2, <3>3
  <2>6. Newest
    <3> SUFFICES ASSUME NEW key \in Keys
                 PROVE  Tell(key, min_level)
      BY <1>2 DEF Newest
    <3>1. ASSUME NEW i \in Levels, First(i, key, min_level)
          PROVE  Offset(levels[i][key]) = latest[key]
      <4>1. i = L /\ key \in loaded
        BY <2>1, <2>3, <3>1, EmptyMap DEF First
      <4>2. levels[i][key] = LoadedWith /\ latest[key] = LoadedWith
        BY <1>1, <2>1, <2>2, <4>1 DEF map
      <4> QED
        BY <1>3, <4>2 DEF Offset, deleted
    <3>2. ASSUME Nowhere(key, min_level)
          PROVE  latest[key] = NONE
      BY <1>1, <2>1, <2>2, <2>3, <3>2, SMTT(30) DEF Nowhere, Levels
    <3> QED
      BY <3>1, <3>2 DEF Tell
  <2> QED
    BY <1>4, <2>4, <2>5, <2>6 DEF IInv
<1> QED
  BY <1>5, <1>6

-----------------------------------------------------------------------------
\* What an insertion leaves in the history.
LEMMA InsertedLatest ==
  ASSUME Shape, NEW key \in Keys, NEW item \in Items, Inserted(key, item)
  PROVE  /\ latest' \in [Keys -> Payloads \cup {NONE}]
         /\ latest'[key] = Offset(item)
         /\ \A k \in Keys : k # key => latest'[k] = latest[k]
BY DEF Shape, Inserted, Offset, deleted, Items

\* An item put into the first level is the newest of its key.
LEMMA FirstLevelInvariant ==
  ASSUME IInv, NEW key \in Keys, NEW item \in Items, ~merge.merging,
         Inserted(key, item),
         levels' = [levels EXCEPT ![min_level] = With(@, key, item)],
         used_levels' = IF used_levels = min_level THEN min_level + 1 ELSE used_levels,
         pgms' = pgms, merge' = merge
  PROVE  IInv'
<1> USE Constants
<1>1. levels \in [Levels -> ItemMaps] /\ used_levels \in min_level .. MaxLevel + 1
  BY DEF IInv, Shape
<1>2. levels[min_level] \in ItemMaps
  BY <1>1
<1> DEFINE new == With(levels[min_level], key, item)
<1>3. /\ new \in ItemMaps /\ DOMAIN new = DOMAIN levels[min_level] \cup {key}
      /\ new[key] = item
      /\ \A k \in DOMAIN levels[min_level] : k # key => new[k] = levels[min_level][k]
  BY <1>2, WithItem
<1>4. levels'[min_level] = new /\ \A i \in Levels : i # min_level => levels'[i] = levels[i]
  BY <1>1
<1>5. Shape'
  <2>1. levels' \in [Levels -> ItemMaps]
    BY <1>1, <1>3
  <2>2. used_levels' \in min_level .. MaxLevel + 1 /\ used_levels' > min_level
    BY <1>1
  <2>3. \A i \in Levels : i >= used_levels' => DOMAIN levels'[i] = {}
    BY <1>1, <1>4, <2>2 DEF IInv, Shape, Levels
  <2> QED
    BY <2>1, <2>2, <2>3, InsertedLatest DEF IInv, Shape
<1>6. Indexes'
  BY <1>1, <1>4 DEF IInv, Indexes, has_pgm, PgmOf, Levels
<1>7. Newest'
  <2> SUFFICES ASSUME NEW k \in Keys
               PROVE  Tell(k, min_level)'
    BY DEF Newest
  <2>0. Tell(k, min_level)
    BY DEF IInv, Newest
  <2>1. CASE k = key
    <3>1. ASSUME NEW i \in Levels, First(i, k, min_level)'
          PROVE  i = min_level
      BY <1>3, <1>4, <2>1, <3>1 DEF First, Levels
    <3>2. ~Nowhere(k, min_level)'
      BY <1>1, <1>3, <1>4, <2>1 DEF Nowhere, Levels
    <3> QED
      BY <1>3, <1>4, <2>1, <3>1, <3>2, InsertedLatest DEF IInv, Tell, Offset
  <2>2. CASE k # key
    <3>1. latest'[k] = latest[k]
      BY <2>2, InsertedLatest DEF IInv
    <3>2. \A i \in Levels : k \in DOMAIN levels'[i] <=> k \in DOMAIN levels[i]
      BY <1>3, <1>4, <2>2
    <3>3. \A i \in Levels : k \in DOMAIN levels[i] => i < used_levels
      BY <1>1 DEF IInv, Shape, Levels
    <3>4. ASSUME NEW i \in Levels, First(i, k, min_level)'
          PROVE  Offset(levels'[i][k]) = latest'[k]
      <4>1. First(i, k, min_level)
        BY <3>2, <3>3, <3>4 DEF First
      <4>2. levels'[i][k] = levels[i][k]
        BY <1>3, <1>4, <2>2, <4>1 DEF First
      <4> QED
        BY <2>0, <3>1, <4>1, <4>2 DEF Tell
    <3>5. ASSUME Nowhere(k, min_level)'
          PROVE  latest'[k] = NONE
      <4>1. Nowhere(k, min_level)
        BY <1>1, <3>2, <3>5 DEF Nowhere
      <4> QED
        BY <2>0, <3>1, <4>1 DEF Tell
    <3> QED
      BY <3>4, <3>5 DEF Tell, Offset
  <2> QED
    BY <2>1, <2>2
<1> QED
  BY <1>5, <1>6, <1>7 DEF IInv, MergeShape

\* The first level and the new item become tmp; a new last level is empty.
LEMMA StartMergeInvariant ==
  ASSUME IInv, NEW key \in Keys, NEW item \in Items, ~merge.merging,
         StartMerge(key, item), Inserted(key, item)
  PROVE  IInv'
<1> USE Constants
<1> DEFINE tmp == With(levels[min_level], key, item)
<1>1. PICK target \in (min_level + 1) .. used_levels :
        /\ target <= MaxLevel
        /\ merge' = [merging |-> TRUE, target |-> target,
                     limit |-> IF DOMAIN levels[target] = {} THEN target - 1 ELSE target,
                     next |-> min_level + 1,
                     room |-> Slots(target) + Size(target),
                     tmp |-> tmp]
        /\ IF target = used_levels
           THEN /\ used_levels' = used_levels + 1
                /\ pgms' = IF NeedsPgm(target) THEN Append(pgms, {}) ELSE pgms
           ELSE UNCHANGED <<used_levels, pgms>>
  BY DEF StartMerge
<1>2. levels' = levels
  BY DEF StartMerge
<1>3. levels \in [Levels -> ItemMaps] /\ used_levels \in min_level .. MaxLevel + 1
  BY DEF IInv, Shape
<1>4. /\ tmp \in ItemMaps /\ DOMAIN tmp = DOMAIN levels[min_level] \cup {key}
      /\ tmp[key] = item
      /\ \A k \in DOMAIN levels[min_level] : k # key => tmp[k] = levels[min_level][k]
  BY <1>3, WithItem
<1>5. /\ merge'.merging = TRUE /\ merge'.target = target /\ merge'.next = min_level + 1
      /\ merge'.tmp = tmp
      /\ merge'.limit = IF DOMAIN levels[target] = {} THEN target - 1 ELSE target
      /\ merge' \in [merging : BOOLEAN, target : Int, limit : Int, next : Int,
                      room : {merge'.room}, tmp : ItemMaps]
  BY <1>1, <1>4
<1> HIDE DEF tmp
<1>6. /\ target \in Levels /\ target < used_levels'
      /\ used_levels' \in min_level .. MaxLevel + 1 /\ used_levels <= used_levels'
      /\ \A i \in Levels : i < used_levels' => i < used_levels \/ i = used_levels
  BY <1>1, <1>3 DEF Levels
<1>7. Shape'
  <2>1. \A i \in Levels : i >= used_levels' => DOMAIN levels'[i] = {}
    BY <1>2, <1>3, <1>6 DEF IInv, Shape
  <2> QED
    BY <1>2, <1>3, <1>5, <1>6, <2>1, InsertedLatest DEF IInv, Shape
<1>8. MergeShape'
  <2>1. merge'.limit \in {target - 1, target}
    BY <1>5
  <2>2. merge'.next \in (min_level + 1) .. (merge'.limit + 1)
    BY <1>1, <1>5, <2>1
  <2>3. \A j \in (min_level + 1) .. (merge'.next - 1) : FALSE
    BY <1>5
  <2> QED
    BY <1>1, <1>2, <1>4, <1>5, <1>6, <2>2, <2>3 DEF MergeShape, Levels
<1>9. Indexes'
  <2>1. /\ pgms \in Seq(SUBSET Keys)
        /\ Len(pgms) = IF used_levels > min_index_level THEN used_levels - min_index_level ELSE 0
        /\ \A i \in Levels : i < used_levels /\ has_pgm(i) => pgms[PgmOf(i)] = DOMAIN levels[i]
    BY DEF IInv, Indexes
  <2>2. CASE target # used_levels
    BY <1>1, <1>2, <2>1, <2>2 DEF Indexes, has_pgm, PgmOf
  <2>3. CASE target = used_levels /\ NeedsPgm(target)
    <3>1. used_levels' = used_levels + 1 /\ pgms' = Append(pgms, {})
      BY <1>1, <2>3
    <3>2. used_levels >= min_index_level /\ Len(pgms) = used_levels - min_index_level
      BY <1>3, <2>1, <2>3 DEF NeedsPgm
    <3>3. pgms' \in Seq(SUBSET Keys) /\ Len(pgms') = Len(pgms) + 1
      BY <2>1, <3>1
    <3>4. pgms'[Len(pgms) + 1] = {} /\ \A n \in 1 .. Len(pgms) : pgms'[n] = pgms[n]
      BY <2>1, <3>1
    <3>5. ASSUME NEW i \in Levels, i < used_levels', has_pgm(i)
          PROVE  pgms'[PgmOf(i)] = DOMAIN levels'[i]
      <4>1. CASE i = used_levels
        <5>1. PgmOf(i) = Len(pgms) + 1
          BY <1>3, <3>2, <4>1 DEF PgmOf
        <5>2. DOMAIN levels'[i] = {}
          BY <1>2, <1>3, <4>1 DEF IInv, Shape
        <5> QED
          BY <3>4, <5>1, <5>2
      <4>2. CASE i < used_levels
        <5>1. PgmOf(i) \in 1 .. Len(pgms)
          BY <1>3, <3>2, <3>5, <4>2 DEF PgmOf, has_pgm
        <5> QED
          BY <1>2, <2>1, <3>4, <3>5, <4>2, <5>1
      <4> QED
        BY <1>6, <3>5, <4>1, <4>2
    <3>6. has_pgm(0)' = has_pgm(0)
      BY DEF has_pgm
    <3>7. Len(pgms') = used_levels' - min_index_level /\ used_levels' > min_index_level
      BY <1>3, <3>1, <3>2, <3>3
    <3>8. \A i \in Levels : (i < used_levels /\ has_pgm(i))' => pgms'[PgmOf(i)] = DOMAIN levels'[i]
      BY <3>5 DEF has_pgm
    <3> QED
      BY <3>3, <3>5, <3>7 DEF Indexes, has_pgm, PgmOf
  <2>4. CASE target = used_levels /\ ~NeedsPgm(target)
    <3>1. used_levels' = used_levels + 1 /\ pgms' = pgms
      BY <1>1, <2>4
    <3>2. used_levels < min_index_level /\ Len(pgms) = 0
      BY <1>3, <2>1, <2>4 DEF NeedsPgm
    <3> QED
      BY <1>3, <2>1, <3>1, <3>2 DEF Indexes, has_pgm
  <2> QED
    BY <2>2, <2>3, <2>4
<1>10. Newest'
  <2> SUFFICES ASSUME NEW k \in Keys
               PROVE  IF k \in DOMAIN tmp THEN Offset(tmp[k]) = latest'[k]
                                          ELSE Tell(k, min_level + 1)'
    BY <1>5 DEF Newest, Offset, deleted, Tell, First, Nowhere
  <2>0. Tell(k, min_level)
    BY DEF IInv, Newest
  <2>1. CASE k = key
    BY <1>4, <2>1, InsertedLatest DEF IInv
  <2>2. CASE k # key /\ k \in DOMAIN levels[min_level]
    <3>1. First(min_level, k, min_level)
      BY <1>1, <1>3, <2>2 DEF First, Levels
    <3>2. Offset(levels[min_level][k]) = latest[k]
      BY <2>0, <3>1 DEF Tell
    <3> QED
      BY <1>4, <2>2, <3>2, InsertedLatest DEF IInv
  <2>3. CASE k # key /\ k \notin DOMAIN levels[min_level]
    <3>1. k \notin DOMAIN tmp /\ latest'[k] = latest[k]
      BY <1>4, <2>3, InsertedLatest DEF IInv
    <3>2. \A i \in Levels : k \in DOMAIN levels[i] => i < used_levels /\ i > min_level
      BY <1>3, <2>3 DEF IInv, Shape, Levels
    <3>3. ASSUME NEW i \in Levels, First(i, k, min_level + 1)'
          PROVE  Offset(levels'[i][k]) = latest'[k]
      <4>1. First(i, k, min_level)
        BY <1>2, <2>3, <3>2, <3>3 DEF First, Levels
      <4> QED
        BY <1>2, <2>0, <3>1, <4>1 DEF Tell
    <3>4. ASSUME Nowhere(k, min_level + 1)'
          PROVE  latest'[k] = NONE
      <4>1. \A i \in Levels : i < used_levels => i < used_levels'
        BY <1>3, <1>6 DEF Levels
      <4>2. \A i \in Levels : min_level < i /\ i < used_levels => k \notin DOMAIN levels[i]
        BY <1>2, <3>4, <4>1 DEF Nowhere, Levels
      <4>3. Nowhere(k, min_level)
        BY <3>2, <4>2 DEF Nowhere
      <4> QED
        BY <2>0, <3>1, <4>3 DEF Tell
    <3> QED
      BY <3>1, <3>3, <3>4 DEF Tell, Offset, deleted
  <2> QED
    BY <2>1, <2>2, <2>3
<1> QED
  BY <1>7, <1>8, <1>9, <1>10 DEF IInv

\* The level that is merged moves into tmp, below the items that are there.
LEMMA MergeLevelInvariant ==
  ASSUME IInv, MergeLevel
  PROVE  IInv'
<1> USE Constants
<1>0. PICK n : n = merge.next
  OBVIOUS
<1> DEFINE tmp == Merged(merge.tmp, n)
<1>1. /\ merge.merging /\ n <= merge.limit
      /\ merge' = [merge EXCEPT !.next = n + 1, !.tmp = tmp]
      /\ levels' = [levels EXCEPT ![n] = Empty]
      /\ pgms' = ClearedPgms(n)
      /\ used_levels' = used_levels /\ latest' = latest
  BY <1>0 DEF MergeLevel
<1>2. levels \in [Levels -> ItemMaps] /\ used_levels \in min_level .. MaxLevel + 1
  BY DEF IInv, Shape
<1>3. /\ merge.target \in (min_level + 1) .. MaxLevel /\ merge.target < used_levels
      /\ merge.limit \in {merge.target, merge.target - 1}
      /\ n \in (min_level + 1) .. merge.limit /\ merge.tmp \in ItemMaps
      /\ \A j \in (min_level + 1) .. (n - 1) : DOMAIN levels[j] = {}
  BY <1>0, <1>1 DEF IInv, MergeShape
<1>4. n \in Levels /\ n < used_levels
  BY <1>2, <1>3 DEF Levels
<1>5. levels'[n] = Empty /\ \A i \in Levels : i # n => levels'[i] = levels[i]
  BY <1>1, <1>2, <1>4
<1>6. /\ merge'.merging = merge.merging /\ merge'.target = merge.target
      /\ merge'.limit = merge.limit /\ merge'.next = n + 1 /\ merge'.tmp = tmp
      /\ merge'.room = merge.room
  BY <1>1 DEF IInv, Shape
<1>7. /\ tmp \in ItemMaps
      /\ \A k \in DOMAIN tmp :
           \/ k \in DOMAIN merge.tmp /\ tmp[k] = merge.tmp[k]
           \/ k \notin DOMAIN merge.tmp /\ k \in DOMAIN levels[n] /\ tmp[k] = levels[n][k]
      /\ \A k \in Keys : k \notin DOMAIN tmp =>
           \/ k \notin DOMAIN merge.tmp /\ k \notin DOMAIN levels[n]
           \/ k \in DOMAIN merge.tmp /\ merge.tmp[k] = Deleted /\ n = used_levels - 1
  BY <1>3, <1>4, MergedItems DEF IInv
<1> HIDE DEF tmp
<1>8. Shape'
  <2>1. levels' \in [Levels -> ItemMaps]
    BY <1>1, <1>2, EmptyMap
  <2>2. \A i \in Levels : i >= used_levels' => DOMAIN levels'[i] = {}
    BY <1>1, <1>5, EmptyMap DEF IInv, Shape
  <2>3. merge' \in [merging : BOOLEAN, target : Int, limit : Int, next : Int,
                    room : {merge'.room}, tmp : ItemMaps]
    <3>1. merge \in [merging : BOOLEAN, target : Int, limit : Int, next : Int,
                     room : {merge.room}, tmp : ItemMaps]
      BY DEF IInv, Shape
    <3>2. n + 1 \in Int
      BY <1>4
    <3> QED
      BY <1>1, <1>6, <1>7, <3>1, <3>2
  <2> QED
    BY <1>1, <2>1, <2>2, <2>3 DEF IInv, Shape
<1>9. MergeShape'
  <2>1. \A j \in (min_level + 1) .. n : DOMAIN levels'[j] = {}
    BY <1>3, <1>4, <1>5, EmptyMap DEF Levels
  <2>2. merge.limit = merge.target - 1 => DOMAIN levels'[merge.target] = {}
    BY <1>1, <1>3, <1>5, EmptyMap DEF IInv, MergeShape, Levels
  <2> QED
    BY <1>1, <1>3, <1>6, <1>7, <2>1, <2>2 DEF MergeShape
<1>10. Indexes'
  <2>1. /\ pgms \in Seq(SUBSET Keys)
        /\ Len(pgms) = IF used_levels > min_index_level THEN used_levels - min_index_level ELSE 0
        /\ \A i \in Levels : i < used_levels /\ has_pgm(i) => pgms[PgmOf(i)] = DOMAIN levels[i]
    BY DEF IInv, Indexes
  <2>2. pgms' = [m \in DOMAIN pgms |-> IF has_pgm(n) /\ m = PgmOf(n) THEN {} ELSE pgms[m]]
    BY <1>1 DEF ClearedPgms, Indexed
  <2>3. pgms' \in Seq(SUBSET Keys) /\ Len(pgms') = Len(pgms) /\ DOMAIN pgms = 1 .. Len(pgms)
    BY <2>1, <2>2
  <2>4. \A i \in Levels : i < used_levels /\ has_pgm(i) => PgmOf(i) \in 1 .. Len(pgms)
    BY <1>2, <2>1 DEF has_pgm, PgmOf
  <2>5. ASSUME NEW i \in Levels, i < used_levels, has_pgm(i)
        PROVE  pgms'[PgmOf(i)] = DOMAIN levels'[i]
    <3>1. PgmOf(i) \in DOMAIN pgms
      BY <2>3, <2>4, <2>5
    <3>2. CASE i = n
      BY <1>5, <2>2, <2>5, <3>1, <3>2, EmptyMap
    <3>3. CASE i # n
      <4>1. has_pgm(n) => PgmOf(i) # PgmOf(n)
        BY <1>4, <3>3 DEF PgmOf, Levels
      <4> QED
        BY <1>5, <2>1, <2>2, <2>5, <3>1, <3>3, <4>1
    <3> QED
      BY <3>2, <3>3
  <2> QED
    BY <1>1, <2>1, <2>3, <2>5 DEF Indexes, has_pgm, PgmOf
<1>11. Newest'
  <2> SUFFICES ASSUME NEW k \in Keys
               PROVE  IF k \in DOMAIN tmp THEN Offset(tmp[k]) = latest[k]
                                          ELSE Tell(k, n + 1)'
    BY <1>1, <1>6 DEF Newest, Offset, deleted
  <2>0. IF k \in DOMAIN merge.tmp THEN Offset(merge.tmp[k]) = latest[k] ELSE Tell(k, n)
    BY <1>0, <1>1 DEF IInv, Newest
  <2>1. CASE k \in DOMAIN tmp /\ k \in DOMAIN merge.tmp
    BY <1>7, <2>0, <2>1
  <2>2. CASE k \in DOMAIN tmp /\ k \notin DOMAIN merge.tmp
    <3>1. k \in DOMAIN levels[n] /\ tmp[k] = levels[n][k]
      BY <1>7, <2>2
    <3>2. First(n, k, n)
      BY <1>4, <3>1 DEF First, Levels
    <3> QED
      BY <1>4, <2>0, <2>2, <3>1, <3>2 DEF Tell
  <2>3. CASE k \notin DOMAIN tmp /\ k \notin DOMAIN merge.tmp
    <3>1. k \notin DOMAIN levels[n]
      BY <1>7, <2>3
    <3>2. ASSUME NEW i \in Levels, First(i, k, n + 1)'
          PROVE  Offset(levels'[i][k]) = latest[k]
      <4>1. n \in Int /\ i \in Int /\ i > n /\ levels'[i] = levels[i]
        BY <1>4, <1>5, <3>2 DEF First, Levels
      <4>2. First(i, k, n)
        BY <1>1, <1>4, <1>5, <3>1, <3>2, <4>1 DEF First, Levels
      <4> QED
        BY <2>0, <2>3, <4>1, <4>2 DEF Tell
    <3>3. ASSUME Nowhere(k, n + 1)'
          PROVE  latest[k] = NONE
      <4>1. Nowhere(k, n)
        BY <1>1, <1>4, <1>5, <3>1, <3>3 DEF Nowhere, Levels
      <4> QED
        BY <2>0, <2>3, <4>1 DEF Tell
    <3> QED
      BY <1>1, <2>3, <3>2, <3>3 DEF Tell, Offset, deleted
  <2>4. CASE k \notin DOMAIN tmp /\ k \in DOMAIN merge.tmp
    <3>1. latest[k] = NONE /\ n = used_levels - 1
      BY <1>7, <2>0, <2>4 DEF Offset, deleted
    <3>2. \A i \in Levels : ~First(i, k, n + 1)'
      BY <1>1, <1>2, <3>1 DEF First, Levels
    <3> QED
      BY <1>1, <2>4, <3>1, <3>2 DEF Tell
  <2> QED
    BY <2>1, <2>2, <2>3, <2>4
<1> QED
  BY <1>8, <1>9, <1>10, <1>11 DEF IInv

\* tmp becomes the target level: everything before it has been emptied.
LEMMA FinishMergeInvariant ==
  ASSUME IInv, FinishMerge
  PROVE  IInv'
<1> USE Constants
<1>0. PICK t, n : t = merge.target /\ n = merge.next
  OBVIOUS
<1> DEFINE tmp == merge.tmp
<1>1. /\ merge.merging /\ n > merge.limit
      /\ levels' = [levels EXCEPT ![min_level] = Empty, ![t] = tmp]
      /\ pgms' = Indexed(t, DOMAIN tmp)
      /\ merge' = Idle
      /\ used_levels' = used_levels /\ latest' = latest
  BY <1>0 DEF FinishMerge
<1>2. levels \in [Levels -> ItemMaps] /\ used_levels \in min_level .. MaxLevel + 1
  BY DEF IInv, Shape
<1>3. /\ t \in (min_level + 1) .. MaxLevel /\ t < used_levels /\ t \in Levels
      /\ \/ n = t + 1
         \/ n = t /\ DOMAIN levels[t] = {}
      /\ tmp \in ItemMaps
      /\ \A j \in (min_level + 1) .. (n - 1) : DOMAIN levels[j] = {}
  BY <1>0, <1>1 DEF IInv, MergeShape, Levels
<1>4. /\ levels'[t] = tmp /\ levels'[min_level] = Empty
      /\ \A i \in Levels : i # t /\ i # min_level => levels'[i] = levels[i]
  BY <1>1, <1>2, <1>3
<1>5. \A j \in Levels : j < t => DOMAIN levels'[j] = {}
  BY <1>3, <1>4, EmptyMap DEF Levels
<1>6. /\ merge'.merging = FALSE
      /\ merge' \in [merging : BOOLEAN, target : Int, limit : Int, next : Int,
                     room : {merge'.room}, tmp : ItemMaps]
  BY <1>1, EmptyMap DEF Idle
<1> HIDE DEF tmp
<1>7. Shape'
  <2>1. levels' \in [Levels -> ItemMaps]
    BY <1>1, <1>2, <1>3, EmptyMap
  <2>2. \A i \in Levels : i >= used_levels' => DOMAIN levels'[i] = {}
    BY <1>1, <1>2, <1>3, <1>4, EmptyMap DEF IInv, Shape, Levels
  <2> QED
    BY <1>1, <1>6, <2>1, <2>2 DEF IInv, Shape
<1>8. Indexes'
  <2>1. /\ pgms \in Seq(SUBSET Keys)
        /\ Len(pgms) = IF used_levels > min_index_level THEN used_levels - min_index_level ELSE 0
        /\ \A i \in Levels : i < used_levels /\ has_pgm(i) => pgms[PgmOf(i)] = DOMAIN levels[i]
    BY DEF IInv, Indexes
  <2>2. pgms' = [m \in DOMAIN pgms |-> IF has_pgm(t) /\ m = PgmOf(t) THEN DOMAIN tmp ELSE pgms[m]]
    BY <1>1 DEF Indexed
  <2>3. DOMAIN tmp \subseteq Keys
    BY <1>3, ItemMap
  <2>4. pgms' \in Seq(SUBSET Keys) /\ Len(pgms') = Len(pgms) /\ DOMAIN pgms = 1 .. Len(pgms)
    BY <2>1, <2>2, <2>3
  <2>5. \A i \in Levels : i < used_levels /\ has_pgm(i) => PgmOf(i) \in 1 .. Len(pgms)
    BY <1>2, <2>1 DEF has_pgm, PgmOf
  <2>6. ASSUME NEW i \in Levels, i < used_levels, has_pgm(i)
        PROVE  pgms'[PgmOf(i)] = DOMAIN levels'[i]
    <3>1. PgmOf(i) \in DOMAIN pgms /\ i # min_level
      BY <2>4, <2>5, <2>6 DEF has_pgm
    <3>2. CASE i = t
      BY <1>4, <2>2, <2>6, <3>1, <3>2
    <3>3. CASE i # t
      <4>1. PgmOf(i) # PgmOf(t)
        BY <1>3, <3>3 DEF PgmOf, Levels
      <4> QED
        BY <1>4, <2>1, <2>2, <2>6, <3>1, <3>3, <4>1
    <3> QED
      BY <3>2, <3>3
  <2> QED
    BY <1>1, <2>1, <2>4, <2>6 DEF Indexes, has_pgm, PgmOf
<1>9. Newest'
  <2> SUFFICES ASSUME NEW k \in Keys
               PROVE  Tell(k, min_level)'
    BY <1>6 DEF Newest
  <2>0. IF k \in DOMAIN tmp THEN Offset(tmp[k]) = latest[k] ELSE Tell(k, n)
    BY <1>0, <1>1 DEF IInv, Newest, tmp
  <2>1. CASE k \in DOMAIN tmp
    <3>1. ASSUME NEW i \in Levels, First(i, k, min_level)'
          PROVE  i = t
      BY <1>3, <1>4, <1>5, <2>1, <3>1 DEF First, Levels
    <3>2. ~Nowhere(k, min_level)'
      BY <1>1, <1>3, <1>4, <2>1 DEF Nowhere, Levels
    <3> QED
      BY <1>1, <1>4, <2>0, <2>1, <3>1, <3>2 DEF Tell, Offset, deleted
  <2>2. CASE k \notin DOMAIN tmp
    <3>1. \A i \in Levels : i <= t => k \notin DOMAIN levels'[i]
      BY <1>3, <1>4, <1>5, <2>2 DEF Levels
    <3>2. \A i \in Levels : i > t => levels'[i] = levels[i]
      BY <1>3, <1>4 DEF Levels
    <3>3. \A i \in Levels : n <= i /\ i <= t => k \notin DOMAIN levels[i]
      BY <1>3 DEF Levels
    <3>4. \A i \in Levels : i > t => i >= n
      BY <1>3 DEF Levels
    <3>5. ASSUME NEW i \in Levels, First(i, k, min_level)'
          PROVE  Offset(levels'[i][k]) = latest[k]
      <4>1. i > t /\ i < used_levels /\ k \in DOMAIN levels[i]
        <5>1. i < used_levels /\ k \in DOMAIN levels'[i]
          BY <1>1, <3>5 DEF First
        <5>2. ~(i <= t) /\ i \in Int /\ t \in Int
          BY <1>3, <3>1, <5>1
        <5> QED
          BY <3>2, <5>1, <5>2
      <4>2. ASSUME NEW j \in Levels, n <= j, j < i
            PROVE  k \notin DOMAIN levels[j]
        <5>1. k \notin DOMAIN levels'[j]
          BY <3>5, <4>2 DEF First, Levels
        <5> QED
          BY <1>3, <3>2, <3>3, <4>2, <5>1 DEF Levels
      <4>3. First(i, k, n)
        BY <3>4, <4>1, <4>2 DEF First
      <4> QED
        BY <2>0, <2>2, <3>2, <4>1, <4>3 DEF Tell
    <3>6. ASSUME Nowhere(k, min_level)'
          PROVE  latest[k] = NONE
      <4>1. ASSUME NEW i \in Levels, n <= i, i < used_levels
            PROVE  k \notin DOMAIN levels[i]
        <5>1. k \notin DOMAIN levels'[i]
          <6>1. min_level <= i
            BY DEF Levels
          <6> QED
            BY <1>1, <3>6, <4>1, <6>1 DEF Nowhere
        <5> QED
          BY <1>3, <3>2, <3>3, <4>1, <5>1 DEF Levels
      <4>2. Nowhere(k, n)
        BY <4>1 DEF Nowhere
      <4> QED
        BY <2>0, <2>2, <4>2 DEF Tell
    <3> QED
      BY <1>1, <3>5, <3>6 DEF Tell, Offset, deleted
  <2> QED
    BY <2>1, <2>2
<1> QED
  BY <1>6, <1>7, <1>8, <1>9 DEF IInv, MergeShape

-----------------------------------------------------------------------------
\* The inductive invariant: the shape of the levels while they are merged,
\* that indexes describe their levels, and where the newest items are.
THEOREM DynamicPGMInvariant == Spec => []IInv
<1>1. Init => IInv
  BY InitInvariant
<1>2. IInv /\ [Next]_vars => IInv'
  <2> SUFFICES ASSUME IInv, [Next]_vars PROVE IInv'
    OBVIOUS
  <2>1. ASSUME NEW call \in Calls, Insert(call[1], call[2])
        PROVE  IInv'
    <3>1. call[1] \in Keys /\ call[2] \in Items
      BY Constants
    <3>2. ~merge.merging /\ Inserted(call[1], call[2])
      BY <2>1 DEF Insert
    <3>3. CASE Overwrite(call[1], call[2])
      <4>1. used_levels # min_level
        BY <3>3, Constants DEF IInv, Shape, Overwrite
      <4> QED
        BY <3>1, <3>2, <3>3, <4>1, FirstLevelInvariant DEF Overwrite
    <3>4. CASE Add(call[1], call[2])
      BY <3>1, <3>2, <3>4, FirstLevelInvariant DEF Add
    <3>5. CASE StartMerge(call[1], call[2])
      BY <3>1, <3>2, <3>5, StartMergeInvariant
    <3> QED
      BY <2>1, <3>3, <3>4, <3>5 DEF Insert
  <2>2. CASE MergeLevel
    BY <2>2, MergeLevelInvariant
  <2>3. CASE FinishMerge
    BY <2>3, FinishMergeInvariant
  <2>4. CASE UNCHANGED vars
    <3>1. /\ levels' = levels /\ used_levels' = used_levels /\ pgms' = pgms
          /\ merge' = merge /\ latest' = latest
      BY <2>4 DEF vars
    <3>2. Shape' /\ MergeShape'
      BY <3>1 DEF IInv, Shape, MergeShape
    <3>3. Indexes'
      BY <3>1 DEF IInv, Indexes, has_pgm, PgmOf
    <3>4. Newest'
      BY <3>1 DEF IInv, Newest, Tell, First, Nowhere, Offset, deleted
    <3> QED
      BY <3>2, <3>3, <3>4 DEF IInv
  <2> QED
    BY <2>1, <2>2, <2>3, <2>4 DEF Next
<1> QED
  BY <1>1, <1>2, PTL DEF Spec

\* Every PGM index in use was built from what its level holds, at every step of
\* a merge too.
THEOREM IndexesAreCurrent == Spec => []PgmsAreCurrent
<1>1. IInv => PgmsAreCurrent
  <2> SUFFICES ASSUME IInv, NEW i \in InUse, has_pgm(i)
               PROVE  PgmOf(i) \in DOMAIN pgms /\ pgms[PgmOf(i)] = DOMAIN levels[i]
    BY DEF PgmsAreCurrent
  <2>1. i \in Levels /\ i < used_levels /\ i \in Int
    BY Constants DEF InUse
  <2>2. used_levels \in Int
    BY Constants DEF IInv, Shape
  <2>3. PgmOf(i) \in 1 .. Len(pgms)
    BY <2>1, <2>2, Constants DEF IInv, Indexes, has_pgm, PgmOf
  <2> QED
    BY <2>1, <2>3 DEF IInv, Indexes
<1> QED
  BY <1>1, DynamicPGMInvariant, PTL

\* A lookup finds the payload inserted last under its key, and nothing under a
\* key that was erased last, whatever was merged in between.
THEOREM LookupsAreCurrent == Spec => []FindReturnsLatest
<1>1. IInv => FindReturnsLatest
  <2> SUFFICES ASSUME IInv, ~merge.merging, NEW key \in Keys
               PROVE  /\ \A i \in InUse : FoundIn(i, key) => Offset(levels[i][key]) = latest[key]
                      /\ (\A i \in InUse : ~Holds(i, key)) => latest[key] = NONE
    BY DEF FindReturnsLatest
  <2>1. Tell(key, min_level)
    BY DEF IInv, Newest
  <2>2. \A i \in InUse : Holds(i, key) <=> key \in DOMAIN levels[i]
    BY DEF IInv, Indexes, InUse, Holds
  <2>3. InUse \subseteq Levels /\ \A i \in Levels : min_level <= i /\ (i < used_levels <=> i \in InUse)
    BY Constants DEF InUse, Levels
  <2>4. ASSUME NEW i \in InUse, FoundIn(i, key)
        PROVE  Offset(levels[i][key]) = latest[key]
    <3>1. key \in DOMAIN levels[i] /\ i \in Levels /\ i < used_levels
      BY <2>2, <2>3, <2>4 DEF FoundIn
    <3>2. ASSUME NEW j \in Levels, j < i
          PROVE  key \notin DOMAIN levels[j]
      <4>1. j \in InUse
        BY <2>3, <3>1, <3>2, Constants DEF IInv, Shape, InUse
      <4> QED
        BY <2>2, <2>4, <3>2, <4>1 DEF FoundIn
    <3>3. First(i, key, min_level)
      BY <2>3, <3>1, <3>2 DEF First
    <3> QED
      BY <2>1, <3>1, <3>3 DEF Tell
  <2>5. ASSUME \A i \in InUse : ~Holds(i, key)
        PROVE  latest[key] = NONE
    <3>1. Nowhere(key, min_level)
      BY <2>2, <2>3, <2>5 DEF Nowhere
    <3> QED
      BY <2>1, <3>1 DEF Tell
  <2> QED
    BY <2>4, <2>5
<1> QED
  BY <1>1, DynamicPGMInvariant, PTL

-----------------------------------------------------------------------------
(* Sizes.  A merge has room: the slots counted up to the target are those   *)
(* of tmp and of every level on the way, and bound[j] of them are for tmp   *)
(* when level j is the next to be merged.                                   *)

Sizes ==
  /\ \A i \in Levels : IsFiniteSet(DOMAIN levels[i])
  /\ Size(min_level) <= buffer_max_size
  /\ \A i \in Levels : i > min_level => Size(i) <= max_size(i)

Bounds(bound) ==
  /\ Cardinality(DOMAIN merge.tmp) <= bound[merge.next]
  /\ \A j \in merge.next .. merge.limit : bound[j + 1] = bound[j] + Size(j)
  /\ bound[merge.limit + 1] <= merge.room

Room ==
  /\ merge.room \in Nat /\ (~merge.merging => merge = Idle)
  /\ merge.merging =>
       /\ IsFiniteSet(DOMAIN merge.tmp)
       /\ merge.room <= max_size(merge.target)
       /\ \E bound \in [min_level + 1 .. merge.limit + 1 -> Nat] : Bounds(bound)

FitInv == IInv /\ Sizes /\ Room

\* Every level has at least twice the room of the one before.
LEMMA MaxSizes ==
  \A i \in Nat : max_size(i) \in Nat \ {0} /\ 2 * max_size(i) <= max_size(i + 1)
<1> TAKE i \in Nat
<1>1. log2_base \in Nat \ {0}
  BY DynamicPGMAssumption
<1> DEFINE m == i * log2_base
           n == (i + 1) * log2_base
<1>2. m \in Nat /\ n \in Nat /\ m + 1 <= n
  BY <1>1, Z3
<1> HIDE DEF m, n
<1>3. 2 ^ m \in Nat \ {0} /\ 2 ^ (m + 1) = 2 * 2 ^ m /\ 2 ^ (m + 1) <= 2 ^ n
  BY <1>2, PowerType, PowerStep, PowerGrows
<1> QED
  BY <1>3 DEF m, n, max_size

LEMMA MaxSizesGrow ==
  \A i, j \in Nat : i <= j => max_size(i) <= max_size(j)
<1> SUFFICES ASSUME NEW i \in Nat, NEW j \in Nat, i <= j
             PROVE  max_size(i) <= max_size(j)
  OBVIOUS
<1>1. log2_base \in Nat \ {0}
  BY DynamicPGMAssumption
<1> DEFINE m == i * log2_base
           n == j * log2_base
<1>2. m \in Nat /\ n \in Nat /\ m <= n
  BY <1>1, Z3
<1> HIDE DEF m, n
<1>3. 2 ^ m <= 2 ^ n
  BY <1>2, PowerGrows
<1> QED
  BY <1>3 DEF m, n, max_size

\* A level has more room than all the levels before it.
LEMMA BufferSize ==
  /\ buffer_max_size \in Nat /\ max_size(min_level) <= buffer_max_size
  /\ buffer_max_size + 1 <= max_size(min_level + 1)
<1> USE Constants
<1> DEFINE size == CHOOSE f : f = [i \in 0 .. min_level |->
                                    IF i = 0 THEN max_size(0) ELSE f[i - 1] + max_size(i)]
           S == {i \in 0 .. min_level : /\ size[i] \in Nat /\ max_size(i) <= size[i]
                                        /\ size[i] + 1 <= max_size(i + 1)}
<1>1. \A n \in 0 .. min_level : max_size(n) \in Nat \ {0} /\ 2 * max_size(n) <= max_size(n + 1)
  BY MaxSizes
<1>3. \E f : f = [i \in 0 .. min_level |->
                    IF i = 0 THEN max_size(0) ELSE f[i - 1] + max_size(i)]
  <2> DEFINE d == [n \in 1 .. min_level |-> max_size(n)]
  <2>1. d \in [1 .. min_level -> Nat] /\ max_size(0) \in Nat
    BY <1>1
  <2>2. PICK f \in [0 .. min_level -> Nat] :
           f[0] = max_size(0) /\ \A n \in 1 .. min_level : f[n] = f[n - 1] + d[n]
    <3>1. \E f : f \in Totals(min_level, max_size(0), d)
      <4> HIDE DEF d
      <4> QED
        BY <2>1, Added
    <3> HIDE DEF d
    <3> QED
      BY <3>1 DEF Totals
  <2>3. \A n \in 1 .. min_level : f[n] = f[n - 1] + max_size(n)
    BY <2>2
  <2> DEFINE e == [i \in 0 .. min_level |->
                     IF i = 0 THEN max_size(0) ELSE f[i - 1] + max_size(i)]
  <2>4. \A n \in 0 .. min_level : f[n] = e[n]
    BY <2>2, <2>3
  <2>5. f = e
    BY <2>4
  <2> QED
    BY <2>5
<1>4. size = [i \in 0 .. min_level |->
                IF i = 0 THEN max_size(0) ELSE size[i - 1] + max_size(i)]
  BY <1>3
<1> HIDE DEF size
<1>5. 0 \in S
  <2>1. size[0] = max_size(0) /\ 0 \in 0 .. min_level
    BY <1>4
  <2>2. max_size(0) \in Nat \ {0} /\ 2 * max_size(0) <= max_size(0 + 1) /\ max_size(0 + 1) \in Nat
    BY MaxSizes
  <2> QED
    BY <2>1, <2>2
<1>6. ASSUME NEW n \in 1 .. min_level, n - 1 \in S
      PROVE  n \in S
  <2>1. size[n] = size[n - 1] + max_size(n)
    BY <1>4
  <2>2. size[n - 1] \in Nat /\ size[n - 1] + 1 <= max_size(n)
    BY <1>6
  <2>3. max_size(n) \in Nat \ {0} /\ 2 * max_size(n) <= max_size(n + 1) /\ max_size(n + 1) \in Nat
    BY MaxSizes
  <2> QED
    BY <2>1, <2>2, <2>3
<1>7. min_level \in S
  <2>1. \A i \in 0 .. min_level : i \in S
    <3> HIDE DEF S
    <3> QED
      BY <1>5, <1>6, Induction
  <2> QED
    BY <2>1
<1>8. buffer_max_size = size[min_level]
  BY DEF buffer_max_size, size
<1> QED
  BY <1>7, <1>8

\* The slots counted: each level's are the ones before it and its size.
LEMMA SlotsCounted ==
  ASSUME Sizes
  PROVE  \E slots \in [min_level + 1 .. MaxLevel -> Nat] :
           /\ slots[min_level + 1] = buffer_max_size + 1
           /\ \A i \in min_level + 1 .. MaxLevel - 1 : slots[i + 1] = slots[i] + Size(i)
           /\ \A i \in min_level + 1 .. MaxLevel : Slots(i) = slots[i]
<1> USE Constants, BufferSize
<1> DEFINE lo == min_level + 1
           N == MaxLevel - lo
           d == [n \in 1 .. N |-> Size(lo + n - 1)]
<1>1. \A i \in Levels : Size(i) \in Nat
  BY FS_CardinalityType DEF Sizes, Size
<1>2. N \in Nat
  OBVIOUS
<1>3. \A n \in 1 .. N : lo + n - 1 \in Levels
  BY DEF Levels
<1>4. d \in [1 .. N -> Nat]
  BY <1>1, <1>3
<1>5. PICK g \in [0 .. N -> Nat] :
         g[0] = buffer_max_size + 1 /\ \A n \in 1 .. N : g[n] = g[n - 1] + d[n]
  <2>1. buffer_max_size + 1 \in Nat
    OBVIOUS
  <2> HIDE DEF d, N
  <2>2. \E g : g \in Totals(N, buffer_max_size + 1, d)
    BY <1>2, <1>4, <2>1, Added
  <2> QED
    BY <2>2 DEF Totals
<1>6. \A n \in 1 .. N : g[n] = g[n - 1] + Size(lo + n - 1)
  BY <1>5
<1> HIDE DEF d
<1> DEFINE slots == [i \in lo .. MaxLevel |-> g[i - lo]]
<1>7. slots \in [lo .. MaxLevel -> Nat] /\ slots[lo] = buffer_max_size + 1
  BY <1>5
<1>8. \A i \in lo .. MaxLevel - 1 : slots[i + 1] = slots[i] + Size(i)
  <2> TAKE i \in lo .. MaxLevel - 1
  <2>1. i + 1 - lo \in 1 .. N /\ lo + (i + 1 - lo) - 1 = i /\ (i + 1 - lo) - 1 = i - lo
    OBVIOUS
  <2>2. g[i + 1 - lo] = g[i - lo] + Size(i)
    BY <1>6, <2>1
  <2> QED
    BY <2>2
<1> HIDE DEF slots
<1>9. ASSUME NEW level \in lo .. MaxLevel
      PROVE  Slots(level) = slots[level]
  <2> DEFINE count == CHOOSE f : f = [i \in lo .. level |->
                        IF i = lo THEN buffer_max_size + 1 ELSE f[i - 1] + Size(i - 1)]
             f0 == [i \in lo .. level |-> slots[i]]
             S == {i \in lo .. level : count[i] = slots[i]}
  <2>1. \A i \in lo + 1 .. level : slots[i] = slots[i - 1] + Size(i - 1)
    <3> TAKE i \in lo + 1 .. level
    <3>1. i - 1 \in lo .. MaxLevel - 1
      OBVIOUS
    <3> QED
      BY <1>8, <3>1
  <2>2. f0 = [i \in lo .. level |->
                IF i = lo THEN buffer_max_size + 1 ELSE f0[i - 1] + Size(i - 1)]
    BY <1>7, <2>1
  <2>3. count = [i \in lo .. level |->
                  IF i = lo THEN buffer_max_size + 1 ELSE count[i - 1] + Size(i - 1)]
    <3> HIDE DEF f0
    <3> QED
      BY <2>2
  <2> HIDE DEF count
  <2>4. lo \in S
    BY <1>7, <2>3
  <2>5. \A i \in lo + 1 .. level : i - 1 \in S => i \in S
    BY <2>1, <2>3
  <2>6. \A i \in lo .. level : i \in S
    <3>1. lo \in Int /\ level \in Int
      OBVIOUS
    <3> HIDE DEF S, lo
    <3> QED
      BY <2>4, <2>5, <3>1, Induction
  <2>7. Slots(level) = count[level]
    BY DEF Slots, count
  <2> QED
    BY <2>6, <2>7, SMTT(30)
<1> QED
  BY <1>7, <1>8, <1>9

\* What was loaded fits into its level.
LEMMA LoadFits ==
  ASSUME NEW loaded \in Loads
  PROVE  /\ IsFiniteSet(loaded)
         /\ LoadLevel(loaded) \in Levels => Cardinality(loaded) <= max_size(LoadLevel(loaded))
<1> USE Constants
<1> DEFINE n == Cardinality(loaded)
           fit == ceil_log_base(n)
           T == {i \in 0 .. n : n <= max_size(i)}
           S == {i \in 0 .. n : i < max_size(i)}
<1>1. IsFiniteSet(loaded) /\ n \in Nat
  BY FS_CardinalityType, DynamicPGMAssumption
<1> HIDE DEF n
<1>2. n \in S
  <2>1. 0 \in S
    <3>1. max_size(0) \in Nat \ {0}
      BY MaxSizes
    <3> QED
      BY <1>1, <3>1
  <2>2. ASSUME NEW i \in 0 + 1 .. n, i - 1 \in S
        PROVE  i \in S
    <3>1. /\ max_size(i - 1) \in Nat /\ 2 * max_size(i - 1) <= max_size((i - 1) + 1)
          /\ max_size(i) \in Nat
      BY <1>1, MaxSizes
    <3>2. (i - 1) + 1 = i /\ i - 1 < max_size(i - 1) /\ i >= 1
      BY <1>1, <2>2
    <3> QED
      BY <1>1, <3>1, <3>2
  <2>3. \A i \in 0 .. n : i \in S
    <3> HIDE DEF S
    <3> QED
      BY <1>1, <2>1, <2>2, Induction
  <2> HIDE DEF S
  <2> QED
    BY <1>1, <2>3
<1>3. n \in T
  BY <1>1, <1>2, MaxSizes
<1>4. PICK least \in T : \A i \in T : least <= i
  <2>1. T \subseteq Nat
    BY <1>1
  <2> HIDE DEF T
  <2> QED
    BY <1>3, <2>1, Least
<1>5. \A i \in 0 .. n : max_size(i) \in Int
  BY <1>1, MaxSizes
<1>6. least \in 0 .. n /\ n <= max_size(least) /\ \A j \in 0 .. least - 1 : max_size(j) < n
  <2>1. \A j \in 0 .. least - 1 : j \in 0 .. n /\ j \notin T
    BY <1>1, <1>4
  <2> QED
    BY <1>1, <1>4, <1>5, <2>1
<1>7. fit \in 0 .. n /\ n <= max_size(fit)
  BY <1>6 DEF ceil_log_base
<1> HIDE DEF fit
<1>8. LoadLevel(loaded) = IF fit > min_level THEN fit ELSE min_level
  BY DEF LoadLevel, fit, n
<1>9. LoadLevel(loaded) \in Nat /\ fit \in Nat /\ fit <= LoadLevel(loaded)
  BY <1>1, <1>7, <1>8
<1>10. /\ max_size(fit) <= max_size(LoadLevel(loaded))
       /\ max_size(fit) \in Int /\ max_size(LoadLevel(loaded)) \in Int
  BY <1>9, MaxSizes, MaxSizesGrow
<1>11. n <= max_size(LoadLevel(loaded))
  BY <1>1, <1>7, <1>10
<1> QED
  BY <1>1, <1>11 DEF n

LEMMA InitFits == Init => Sizes /\ Room
<1> SUFFICES ASSUME Init PROVE Sizes /\ Room
  OBVIOUS
<1> USE Constants
<1>1. PICK loaded \in Loads : IF loaded = {} THEN InitEmpty ELSE InitLoaded(loaded)
  BY DEF Init
<1>2. Room
  BY DEF Init, Idle, Room
<1>3. IsFiniteSet(DOMAIN Empty) /\ Cardinality(DOMAIN Empty) = 0
  BY EmptyMap, FS_EmptySet
<1>4. \A i \in Levels : i \in Nat /\ max_size(i) \in Nat
  BY MaxSizes DEF Levels
<1>5. CASE loaded = {}
  <2>1. levels = [i \in Levels |-> Empty]
    BY <1>1, <1>5 DEF InitEmpty
  <2> QED
    BY <1>2, <1>3, <1>4, <2>1, BufferSize DEF Sizes, Size
<1>6. CASE loaded # {}
  <2> DEFINE L == LoadLevel(loaded)
             map == [k \in loaded |-> LoadedWith]
  <2>1. levels = [i \in Levels |-> IF i = L THEN map ELSE Empty]
    BY <1>1, <1>6 DEF InitLoaded
  <2>2. L \in Levels
    BY <1>6, LoadsFit
  <2>3. /\ IsFiniteSet(DOMAIN map) /\ Cardinality(DOMAIN map) <= max_size(L)
        /\ Cardinality(DOMAIN map) \in Nat
    BY <2>2, LoadFits, FS_CardinalityType
  <2> HIDE DEF L, map
  <2>4. \A i \in Levels : /\ IsFiniteSet(DOMAIN levels[i])
                          /\ Size(i) \in Nat /\ Size(i) <= max_size(i)
    BY <1>3, <1>4, <2>1, <2>3 DEF Size
  <2>5. Size(min_level) <= buffer_max_size
    BY <1>4, <2>4, BufferSize
  <2> QED
    BY <1>2, <2>4, <2>5 DEF Sizes
<1> QED
  BY <1>5, <1>6

\* Adding one key to an item map.
LEMMA WithSize ==
  ASSUME NEW f \in ItemMaps, NEW key \in Keys, NEW item \in Items, IsFiniteSet(DOMAIN f)
  PROVE  /\ IsFiniteSet(DOMAIN With(f, key, item))
         /\ Cardinality(DOMAIN f) \in Nat
         /\ Cardinality(DOMAIN With(f, key, item)) =
              IF key \in DOMAIN f THEN Cardinality(DOMAIN f) ELSE Cardinality(DOMAIN f) + 1
<1>1. DOMAIN With(f, key, item) = DOMAIN f \cup {key}
  BY WithItem
<1> DEFINE S == DOMAIN f
<1>2. /\ IsFiniteSet(S \cup {key}) /\ Cardinality(S) \in Nat
      /\ Cardinality(S \cup {key}) = IF key \in S THEN Cardinality(S) ELSE Cardinality(S) + 1
  <2> HIDE DEF S
  <2>1. IsFiniteSet(S)
    BY DEF S
  <2> QED
    BY <2>1, FS_AddElement, FS_CardinalityType
<1> QED
  BY <1>1, <1>2

\* The first level is written: a key is replaced, or there is room for it.
LEMMA FirstLevelFits ==
  ASSUME IInv, Sizes, Room, NEW key \in Keys, NEW item \in Items, ~merge.merging,
         Overwrite(key, item) \/ Add(key, item)
  PROVE  Sizes' /\ Room'
<1> USE Constants
<1>1. /\ levels' = [levels EXCEPT ![min_level] = With(levels[min_level], key, item)]
      /\ merge' = merge
      /\ key \in DOMAIN levels[min_level] \/ Size(min_level) < buffer_max_size
  BY DEF Overwrite, Add
<1>2. levels \in [Levels -> ItemMaps] /\ levels[min_level] \in ItemMaps
  BY DEF IInv, Shape
<1> DEFINE new == With(levels[min_level], key, item)
<1>3. /\ IsFiniteSet(DOMAIN new) /\ Size(min_level) \in Nat
      /\ Cardinality(DOMAIN new) = IF key \in DOMAIN levels[min_level]
                                   THEN Size(min_level) ELSE Size(min_level) + 1
  BY <1>2, WithSize DEF Sizes, Size
<1>4. levels'[min_level] = new /\ \A i \in Levels : i # min_level => levels'[i] = levels[i]
  BY <1>1, <1>2
<1> HIDE DEF new
<1>5. Cardinality(DOMAIN new) <= buffer_max_size
  BY <1>1, <1>3, BufferSize DEF Sizes
<1>6. Sizes'
  <2>1. \A i \in Levels : IsFiniteSet(DOMAIN levels'[i])
    BY <1>3, <1>4 DEF Sizes
  <2>2. ASSUME NEW i \in Levels, i > min_level
        PROVE  Cardinality(DOMAIN levels'[i]) <= max_size(i)
    <3>1. i # min_level
      BY <2>2
    <3> QED
      BY <1>4, <2>2, <3>1 DEF Sizes, Size
  <2> QED
    BY <1>4, <1>5, <2>1, <2>2 DEF Sizes, Size, buffer_max_size, max_size
<1>7. Room'
  BY <1>1 DEF Room
<1> QED
  BY <1>6, <1>7

\* A merge begins: the slots counted up to the target are enough, and a new
\* target has more room than all the levels before it.
LEMMA StartMergeFits ==
  ASSUME IInv, Sizes, Room, NEW key \in Keys, NEW item \in Items, ~merge.merging,
         StartMerge(key, item)
  PROVE  Sizes' /\ Room'
<1> USE Constants
<1> DEFINE tmp == With(levels[min_level], key, item)
<1>1. PICK target \in (min_level + 1) .. used_levels :
        /\ IsTarget(target) /\ target <= MaxLevel
        /\ merge' = [merging |-> TRUE, target |-> target,
                     limit |-> IF DOMAIN levels[target] = {} THEN target - 1 ELSE target,
                     next |-> min_level + 1,
                     room |-> Slots(target) + Size(target),
                     tmp |-> tmp]
  BY DEF StartMerge
<1>2. levels' = levels
  BY DEF StartMerge
<1>3. /\ levels \in [Levels -> ItemMaps] /\ levels[min_level] \in ItemMaps
      /\ used_levels \in min_level .. MaxLevel + 1
  BY DEF IInv, Shape
<1>4. Sizes'
  BY <1>2 DEF Sizes, Size, buffer_max_size, max_size
<1>5. /\ IsFiniteSet(DOMAIN tmp) /\ Size(min_level) \in Nat
      /\ Cardinality(DOMAIN tmp) \in Nat /\ Cardinality(DOMAIN tmp) <= Size(min_level) + 1
  BY <1>3, WithSize, FS_CardinalityType DEF Sizes, Size
<1>6. Size(min_level) <= buffer_max_size /\ buffer_max_size \in Nat
  BY BufferSize DEF Sizes
<1>7. \A i \in Levels : /\ Size(i) \in Nat /\ max_size(i) \in Nat
                        /\ 2 * max_size(i) <= max_size(i + 1) /\ max_size(i + 1) \in Nat
  <2> TAKE i \in Levels
  <2>1. i \in Nat
    BY DEF Levels
  <2> QED
    BY <2>1, MaxSizes, FS_CardinalityType DEF Sizes, Size
<1> HIDE DEF tmp
<1> DEFINE lo == min_level + 1
<1>8. PICK slots \in [lo .. MaxLevel -> Nat] :
        /\ slots[lo] = buffer_max_size + 1
        /\ \A i \in lo .. MaxLevel - 1 : slots[i + 1] = slots[i] + Size(i)
        /\ \A i \in lo .. MaxLevel : Slots(i) = slots[i]
  BY SlotsCounted
<1>9. target \in lo .. MaxLevel /\ target \in Levels /\ lo \in Int
  BY <1>1, <1>3 DEF Levels
<1>10. \A i \in lo .. MaxLevel : slots[i] <= max_size(i)
  <2> DEFINE S == {i \in lo .. MaxLevel : slots[i] <= max_size(i)}
  <2>1. lo \in S
    BY <1>8, <1>9, BufferSize
  <2>2. ASSUME NEW i \in lo + 1 .. MaxLevel, i - 1 \in S
        PROVE  i \in S
    <3>1. i - 1 \in lo .. MaxLevel - 1 /\ i - 1 \in Levels /\ (i - 1) + 1 = i
      BY DEF Levels
    <3>2. slots[i] = slots[i - 1] + Size(i - 1) /\ slots[i - 1] \in Nat
      BY <1>8, <3>1
    <3>3. Size(i - 1) <= max_size(i - 1)
      BY <3>1 DEF Sizes
    <3>4. 2 * max_size(i - 1) <= max_size(i) /\ max_size(i - 1) \in Nat /\ max_size(i) \in Nat
      BY <1>7, <3>1
    <3>5. Size(i - 1) \in Nat
      BY <1>7, <3>1
    <3> QED
      BY <2>2, <3>2, <3>3, <3>4, <3>5
  <2>3. \A i \in lo .. MaxLevel : i \in S
    <3>1. lo \in Int /\ MaxLevel \in Int
      OBVIOUS
    <3> HIDE DEF S, lo
    <3> QED
      BY <2>1, <2>2, <3>1, Induction
  <2> QED
    BY <2>3
<1>11. /\ Slots(target) \in Nat /\ Slots(target) = slots[target] /\ Size(target) \in Nat
       /\ max_size(target) \in Nat
  BY <1>7, <1>8, <1>9
<1>12. Slots(target) + Size(target) <= max_size(target)
  <2>1. CASE target < used_levels
    <3>1. Slots(target) <= max_size(target) - Size(target)
      BY <1>1, <2>1 DEF IsTarget, HasRoom
    <3> QED
      BY <1>11, <3>1
  <2>2. CASE target = used_levels
    <3>1. DOMAIN levels[target] = {}
      BY <1>9, <2>2 DEF IInv, Shape, Levels
    <3>2. Size(target) = 0
      BY <3>1, FS_EmptySet DEF Size
    <3> QED
      BY <1>9, <1>10, <1>11, <3>2
  <2> QED
    BY <1>1, <1>3, <2>1, <2>2
<1>13. /\ merge'.merging = TRUE /\ merge'.target = target /\ merge'.next = lo
       /\ merge'.tmp = tmp /\ merge'.room = Slots(target) + Size(target)
       /\ merge'.limit = IF DOMAIN levels[target] = {} THEN target - 1 ELSE target
  BY <1>1
<1>14. \E bound \in [lo .. merge'.limit + 1 -> Nat] : Bounds(bound)'
  <2> DEFINE bound == [j \in lo .. merge'.limit + 1 |->
                         IF j <= target THEN slots[j] ELSE slots[target] + Size(target)]
  <2>1. merge'.limit \in {target - 1, target} /\ merge'.limit \in Int
    BY <1>9, <1>13
  <2>2. \A j \in lo .. merge'.limit + 1 : j <= target => slots[j] \in Nat
    BY <1>8, <1>9
  <2>3. bound \in [lo .. merge'.limit + 1 -> Nat]
    BY <1>11, <2>2
  <2>4. Cardinality(DOMAIN tmp) <= bound[lo]
    <3>1. lo <= target /\ lo \in lo .. merge'.limit + 1
      BY <1>9, <2>1
    <3>2. bound[lo] = buffer_max_size + 1
      BY <1>8, <3>1
    <3> QED
      BY <1>5, <1>6, <3>2
  <2>5. ASSUME NEW j \in lo .. merge'.limit
        PROVE  bound[j + 1] = bound[j] + Size(j)
    <3>1. j <= target /\ j \in lo .. merge'.limit + 1 /\ j + 1 \in lo .. merge'.limit + 1
      BY <1>9, <2>1
    <3>2. CASE j < target
      <4>1. j \in lo .. MaxLevel - 1 /\ j + 1 <= target
        BY <1>9, <2>1, <3>2
      <4> QED
        BY <1>8, <3>1, <4>1
    <3>3. CASE j = target
      <4>1. bound[j] = slots[target] /\ ~(j + 1 <= target)
        BY <1>9, <3>1, <3>3
      <4> QED
        BY <3>1, <3>3, <4>1
    <3> QED
      BY <1>9, <3>1, <3>2, <3>3
  <2>6. bound[merge'.limit + 1] <= merge'.room
    <3>1. CASE merge'.limit = target - 1
      <4>1. merge'.limit + 1 = target
        BY <1>9, <3>1
      <4> QED
        BY <1>9, <1>11, <1>13, <4>1
    <3>2. CASE merge'.limit = target
      BY <1>9, <1>11, <1>13, <3>2
    <3> QED
      BY <2>1, <3>1, <3>2
  <2> HIDE DEF bound
  <2>7. PICK b : b = bound
    OBVIOUS
  <2>8. /\ Cardinality(DOMAIN tmp) <= b[lo] /\ b[merge'.limit + 1] <= merge'.room
        /\ \A j \in lo .. merge'.limit : b[j + 1] = b[j] + Size(j)
        /\ b \in [lo .. merge'.limit + 1 -> Nat]
    BY <2>3, <2>4, <2>5, <2>6, <2>7
  <2>9. Bounds(b)'
    BY <1>2, <1>13, <2>8 DEF Bounds, Size
  <2> QED
    BY <2>8, <2>9
<1>15. Room'
  <2>1. merge'.room \in Nat /\ merge'.room <= max_size(target)
    BY <1>11, <1>12, <1>13
  <2> QED
    BY <1>5, <1>13, <1>14, <2>1 DEF Room, max_size
<1> QED
  BY <1>4, <1>15

\* A level's items move into tmp: no more than were counted for it.
LEMMA MergeLevelFits ==
  ASSUME IInv, Sizes, Room, MergeLevel
  PROVE  Sizes' /\ Room'
<1> USE Constants
<1>0. PICK n : n = merge.next
  OBVIOUS
<1> DEFINE tmp == Merged(merge.tmp, n)
<1>1. /\ merge.merging /\ n <= merge.limit
      /\ merge' = [merge EXCEPT !.next = n + 1, !.tmp = tmp]
      /\ levels' = [levels EXCEPT ![n] = Empty]
  BY <1>0 DEF MergeLevel
<1>2. levels \in [Levels -> ItemMaps]
  BY DEF IInv, Shape
<1>3. /\ merge.target \in (min_level + 1) .. MaxLevel
      /\ merge.limit \in {merge.target, merge.target - 1}
      /\ n \in (min_level + 1) .. merge.limit
  BY <1>0, <1>1 DEF IInv, MergeShape
<1>4. n \in Levels /\ n \in Nat
  BY <1>3 DEF Levels
<1>5. levels'[n] = Empty /\ \A i \in Levels : i # n => levels'[i] = levels[i]
  BY <1>1, <1>2, <1>4
<1>6. /\ merge'.merging = merge.merging /\ merge'.target = merge.target
      /\ merge'.limit = merge.limit /\ merge'.next = n + 1 /\ merge'.tmp = tmp
      /\ merge'.room = merge.room
  BY <1>1 DEF IInv, Shape
<1>7. IsFiniteSet(DOMAIN Empty) /\ Cardinality(DOMAIN Empty) = 0
  BY EmptyMap, FS_EmptySet
<1>8. Sizes'
  <2>1. \A i \in Levels : IsFiniteSet(DOMAIN levels'[i])
    BY <1>5, <1>7 DEF Sizes
  <2>2. levels'[min_level] = levels[min_level]
    BY <1>3, <1>5
  <2>3. max_size(n) \in Nat
    BY <1>4, MaxSizes
  <2>4. \A i \in Levels : i > min_level => Cardinality(DOMAIN levels'[i]) <= max_size(i)
    BY <1>5, <1>7, <2>3 DEF Sizes, Size
  <2> QED
    BY <2>1, <2>2, <2>4 DEF Sizes, Size, buffer_max_size, max_size
<1>9. /\ IsFiniteSet(DOMAIN tmp) /\ Cardinality(DOMAIN tmp) \in Nat
      /\ Cardinality(DOMAIN merge.tmp) \in Nat /\ Size(n) \in Nat
      /\ Cardinality(DOMAIN tmp) <= Cardinality(DOMAIN merge.tmp) + Size(n)
  <2> DEFINE A == DOMAIN merge.tmp
             B == DOMAIN levels[n]
  <2>1. IsFiniteSet(A) /\ IsFiniteSet(B)
    BY <1>1, <1>4 DEF Room, Sizes
  <2>2. DOMAIN tmp \in SUBSET (A \cup B)
    BY DEF Merged
  <2> HIDE DEF A, B, tmp
  <2>3. /\ IsFiniteSet(A \cup B)
        /\ Cardinality(A \cup B) = Cardinality(A) + Cardinality(B) - Cardinality(A \cap B)
        /\ IsFiniteSet(A \cap B)
    BY <2>1, FS_Union, FS_Intersection
  <2>4. IsFiniteSet(DOMAIN tmp) /\ Cardinality(DOMAIN tmp) <= Cardinality(A \cup B)
    BY <2>2, <2>3, FS_Subset
  <2>5. /\ Cardinality(A) \in Nat /\ Cardinality(B) \in Nat /\ Cardinality(A \cap B) \in Nat
        /\ Cardinality(DOMAIN tmp) \in Nat
    BY <2>1, <2>3, <2>4, FS_CardinalityType
  <2> QED
    BY <2>3, <2>4, <2>5 DEF A, B, Size
<1> HIDE DEF tmp
<1>10. PICK bound \in [min_level + 1 .. merge.limit + 1 -> Nat] : Bounds(bound)
  BY <1>1 DEF Room
<1>11. Bounds(bound)'
  <2>1. bound[n + 1] = bound[n] + Size(n) /\ bound[n] \in Nat
    <3>1. n \in merge.next .. merge.limit /\ n \in min_level + 1 .. merge.limit + 1
      BY <1>0, <1>3
    <3> QED
      BY <1>10, <3>1 DEF Bounds
  <2>2. Cardinality(DOMAIN merge.tmp) <= bound[n]
    BY <1>0, <1>10 DEF Bounds
  <2>3. Cardinality(DOMAIN tmp) <= bound[n + 1]
    BY <1>9, <2>1, <2>2
  <2>4. ASSUME NEW j \in n + 1 .. merge.limit
        PROVE  bound[j + 1] = bound[j] + Cardinality(DOMAIN levels'[j])
    <3>1. j \in n .. merge.limit /\ j # n /\ j \in Levels
      BY <1>3 DEF Levels
    <3> QED
      BY <1>0, <1>5, <1>10, <3>1 DEF Bounds, Size
  <2> QED
    BY <1>6, <1>10, <2>3, <2>4 DEF Bounds, Size
<1>12. Room'
  BY <1>1, <1>6, <1>9, <1>10, <1>11 DEF Room, max_size
<1> QED
  BY <1>8, <1>12

\* The result has no more items than the target has room for.
LEMMA FinishMergeFits ==
  ASSUME IInv, Sizes, Room, FinishMerge
  PROVE  Sizes' /\ Room'
<1> USE Constants
<1>0. PICK t, n : t = merge.target /\ n = merge.next
  OBVIOUS
<1> DEFINE tmp == merge.tmp
<1>1. /\ merge.merging /\ n > merge.limit
      /\ levels' = [levels EXCEPT ![min_level] = Empty, ![t] = tmp]
      /\ merge' = Idle
  BY <1>0 DEF FinishMerge
<1>2. levels \in [Levels -> ItemMaps]
  BY DEF IInv, Shape
<1>3. /\ t \in (min_level + 1) .. MaxLevel /\ t \in Levels /\ t \in Nat
      /\ merge.limit \in Int /\ n = merge.limit + 1
  BY <1>0, <1>1 DEF IInv, MergeShape, Levels
<1>4. /\ levels'[t] = tmp /\ levels'[min_level] = Empty
      /\ \A i \in Levels : i # t /\ i # min_level => levels'[i] = levels[i]
  BY <1>1, <1>2, <1>3
<1>5. IsFiniteSet(DOMAIN tmp) /\ Cardinality(DOMAIN tmp) <= max_size(t)
  <2>1. PICK bound \in [min_level + 1 .. merge.limit + 1 -> Nat] : Bounds(bound)
    BY <1>1 DEF Room
  <2>2. /\ Cardinality(DOMAIN tmp) <= bound[n] /\ bound[n] <= merge.room
        /\ merge.room <= max_size(t) /\ merge.room \in Nat /\ IsFiniteSet(DOMAIN tmp)
    BY <1>0, <1>1, <1>3, <2>1 DEF Bounds, Room
  <2>3. Cardinality(DOMAIN tmp) \in Nat /\ max_size(t) \in Nat
    BY <1>3, <2>2, FS_CardinalityType, MaxSizes
  <2>4. bound[n] \in Nat
    <3>1. n \in min_level + 1 .. merge.limit + 1
      BY <1>0, <1>1, <1>3 DEF IInv, MergeShape
    <3> QED
      BY <2>1, <3>1
  <2> QED
    BY <2>2, <2>3, <2>4
<1>6. IsFiniteSet(DOMAIN Empty) /\ Cardinality(DOMAIN Empty) = 0
  BY EmptyMap, FS_EmptySet
<1> HIDE DEF tmp
<1>7. Sizes'
  <2>1. \A i \in Levels : IsFiniteSet(DOMAIN levels'[i])
    BY <1>4, <1>5, <1>6 DEF Sizes
  <2>2. Cardinality(DOMAIN levels'[min_level]) <= buffer_max_size
    BY <1>4, <1>6, BufferSize
  <2>3. \A i \in Levels : i > min_level => Cardinality(DOMAIN levels'[i]) <= max_size(i)
    <3> TAKE i \in Levels
    <3>1. i > min_level => i # min_level
      OBVIOUS
    <3> QED
      BY <1>4, <1>5, <3>1 DEF Sizes, Size
  <2> QED
    BY <2>1, <2>2, <2>3 DEF Sizes, Size, buffer_max_size, max_size
<1>8. Room'
  BY <1>1 DEF Room, Idle
<1> QED
  BY <1>7, <1>8

\* The invariant of the sizes, with the one of the levels it rests on.
THEOREM SizesInvariant == Spec => []FitInv
<1>1. Init => FitInv
  BY InitInvariant, InitFits DEF FitInv
<1>2. FitInv /\ IInv' /\ [Next]_vars => FitInv'
  <2> SUFFICES ASSUME FitInv, IInv', [Next]_vars PROVE Sizes' /\ Room'
    BY DEF FitInv
  <2>1. ASSUME NEW call \in Calls, Insert(call[1], call[2])
        PROVE  Sizes' /\ Room'
    <3>1. call[1] \in Keys /\ call[2] \in Items
      BY Constants
    <3> QED
      BY <2>1, <3>1, FirstLevelFits, StartMergeFits DEF FitInv, Insert
  <2>2. CASE MergeLevel
    BY <2>2, MergeLevelFits DEF FitInv
  <2>3. CASE FinishMerge
    BY <2>3, FinishMergeFits DEF FitInv
  <2>4. CASE UNCHANGED vars
    BY <2>4 DEF vars, FitInv, Sizes, Room, Bounds, Size, buffer_max_size, max_size
  <2> QED
    BY <2>1, <2>2, <2>3, <2>4 DEF Next
<1> QED
  BY <1>1, <1>2, DynamicPGMInvariant, PTL DEF Spec

\* No level outgrows its maximum size, and a merge never writes more items than
\* the arrays it allocated have room for, for any base and number of levels.
THEOREM LevelsHaveRoom == Spec => []LevelsFit
<1>1. FitInv => LevelsFit
  <2> SUFFICES ASSUME FitInv, merge.merging
               PROVE  Cardinality(DOMAIN merge.tmp) <= merge.room
    BY DEF FitInv, Sizes, LevelsFit
  <2>1. PICK bound \in [min_level + 1 .. merge.limit + 1 -> Nat] : Bounds(bound)
    BY DEF FitInv, Room
  <2>2. /\ merge.limit \in Int /\ merge.limit + 1 \in Int /\ min_level \in Int
        /\ merge.next \in min_level + 1 .. merge.limit + 1
    BY Constants DEF FitInv, IInv, MergeShape
  <2> DEFINE S == {j \in merge.next .. merge.limit + 1 : bound[merge.next] <= bound[j]}
  <2>3. \A j \in merge.next .. merge.limit + 1 : bound[j] \in Nat
    BY <2>1, <2>2, Constants
  <2>4. merge.next \in S
    BY <2>2, <2>3
  <2>5. ASSUME NEW j \in merge.next + 1 .. merge.limit + 1, j - 1 \in S
        PROVE  j \in S
    <3>1. j - 1 \in merge.next .. merge.limit /\ (j - 1) + 1 = j /\ j - 1 \in Levels
      BY <2>2, Constants DEF FitInv, IInv, MergeShape, Levels
    <3>2. bound[j] = bound[j - 1] + Size(j - 1)
      BY <2>1, <3>1 DEF Bounds
    <3>3. Size(j - 1) \in Nat
      BY <3>1, FS_CardinalityType DEF FitInv, Sizes, Size
    <3>4. bound[j - 1] \in Nat /\ bound[j] \in Nat /\ bound[merge.next] \in Nat
      BY <2>2, <2>3, <3>1
    <3> QED
      BY <2>2, <2>5, <3>2, <3>3, <3>4
  <2>6. \A j \in merge.next .. merge.limit + 1 : j \in S
    <3>1. merge.next \in Int /\ merge.limit + 1 \in Int
      BY <2>2
    <3> HIDE DEF S
    <3> QED
      BY <2>4, <2>5, <3>1, Induction
  <2>7. bound[merge.next] <= bound[merge.limit + 1]
    BY <2>2, <2>6
  <2>8. /\ Cardinality(DOMAIN merge.tmp) <= bound[merge.next]
        /\ bound[merge.limit + 1] <= merge.room
        /\ Cardinality(DOMAIN merge.tmp) \in Nat /\ merge.room \in Nat
    BY <2>1, FS_CardinalityType DEF Bounds, FitInv, Room
  <2>9. bound[merge.next] \in Nat /\ bound[merge.limit + 1] \in Nat
    BY <2>2, <2>3
  <2> QED
    BY <2>7, <2>8, <2>9
<1> QED
  BY <1>1, SizesInvariant, PTL

\* The types.
THEOREM LevelTypes == Spec => []TypeOK
<1>1. FitInv => TypeOK
  <2> SUFFICES ASSUME FitInv PROVE TypeOK
    OBVIOUS
  <2>1. /\ levels \in [Levels -> ItemMaps] /\ used_levels \in min_level .. MaxLevel + 1
        /\ latest \in [Keys -> Payloads \cup {NONE}]
        /\ merge.merging \in BOOLEAN /\ merge.tmp \in ItemMaps
    BY DEF FitInv, IInv, Shape
  <2>2. /\ pgms \in Seq(SUBSET Keys)
        /\ \A n \in DOMAIN pgms : n <= PgmOf(MaxLevel)
    BY <2>1, Constants DEF FitInv, IInv, Indexes, PgmOf
  <2>3. merge.room \in Nat
    BY DEF FitInv, Room
  <2>4. merge.target \in Nat /\ merge.limit \in Nat /\ merge.next \in Nat
    <3>1. CASE merge.merging
      BY <3>1, Constants DEF FitInv, IInv, MergeShape
    <3>2. CASE ~merge.merging
      BY <3>2 DEF FitInv, Room, Idle
    <3> QED
      BY <3>1, <3>2
  <2> QED
    BY <2>1, <2>2, <2>3, <2>4 DEF TypeOK, ItemMaps
<1> QED
  BY <1>1, SizesInvariant, PTL

-----------------------------------------------------------------------------
(* lower_bound.  After level i the scan has the least live key of the       *)
(* levels up to i, and of the keys before it that it met, all are erased.   *)

least(S) == CHOOSE k \in S : \A l \in S : k <= l

Seen == [lb : Nat, deleted : SUBSET Keys]

\* What one level adds to what was seen before it.
Candidates(key, i, seen) ==
  {k \in DOMAIN levels[i] : key <= k /\ (seen.lb = 0 \/ k < seen.lb)}
Live(key, i, seen) ==
  {k \in Candidates(key, i, seen) : ~deleted(levels[i][k]) /\ k \notin seen.deleted}
Passed(key, i, seen) ==
  {k \in Candidates(key, i, seen) :
     Live(key, i, seen) = {} \/ k < least(Live(key, i, seen))}
Scanned(key, i, seen) ==
  [lb |-> IF Live(key, i, seen) = {} THEN seen.lb ELSE least(Live(key, i, seen)),
   deleted |-> seen.deleted \cup {k \in Passed(key, i, seen) : deleted(levels[i][k])}]

Nothing == [lb |-> 0, deleted |-> {}]
Scan(key) ==
  CHOOSE f : f = [i \in (min_level - 1) .. (used_levels - 1) |->
                    IF i < min_level THEN Nothing ELSE Scanned(key, i, f[i - 1])]

\* Level j is the first of the levels up to i that has key k.
FirstUpTo(i, k, j) ==
  /\ j \in min_level .. i /\ k \in DOMAIN levels[j]
  /\ \A m \in min_level .. j - 1 : k \notin DOMAIN levels[m]
Met(i, k) == \E j \in min_level .. i : k \in DOMAIN levels[j]

Good(key, i, seen) ==
  /\ seen \in Seen
  /\ seen.lb # 0 =>
       /\ seen.lb \in Keys /\ key <= seen.lb
       /\ \E j \in Levels : FirstUpTo(i, seen.lb, j) /\ ~deleted(levels[j][seen.lb])
  /\ \A k \in Keys : key <= k /\ (seen.lb = 0 \/ k < seen.lb) /\ Met(i, k) => k \in seen.deleted
  /\ \A k \in seen.deleted : \E j \in Levels : FirstUpTo(i, k, j) /\ deleted(levels[j][k])

LEMMA LeastKey ==
  ASSUME NEW S \in SUBSET Keys, S # {}
  PROVE  least(S) \in S /\ \A l \in S : least(S) <= l
<1>1. S \subseteq Nat
  BY Constants
<1>2. \E k \in S : \A l \in S : k <= l
  BY <1>1, Least
<1> QED
  BY <1>2 DEF least

LEMMA ScannedParts ==
  ASSUME Shape, NEW key \in Keys, NEW i \in Levels, NEW seen \in Seen
  PROVE  /\ Candidates(key, i, seen) \subseteq Keys
         /\ Live(key, i, seen) \subseteq Keys
         /\ Scanned(key, i, seen) \in Seen
         /\ Scanned(key, i, seen).lb =
              IF Live(key, i, seen) = {} THEN seen.lb ELSE least(Live(key, i, seen))
         /\ Scanned(key, i, seen).deleted =
              seen.deleted \cup {k \in Passed(key, i, seen) : deleted(levels[i][k])}
<1>1. levels[i] \in ItemMaps
  BY DEF Shape
<1>2. DOMAIN levels[i] \subseteq Keys
  BY <1>1, ItemMap
<1>3. Candidates(key, i, seen) \subseteq Keys /\ Live(key, i, seen) \subseteq Keys
  BY <1>2 DEF Candidates, Live
<1>4. seen.lb \in Nat /\ seen.deleted \subseteq Keys
  BY DEF Seen
<1>5. Live(key, i, seen) # {} => least(Live(key, i, seen)) \in Nat
  BY <1>3, LeastKey, Constants
<1>6. Passed(key, i, seen) \subseteq Keys
  BY <1>3 DEF Passed
<1> QED
  BY <1>3, <1>4, <1>5, <1>6 DEF Scanned, Seen

\* One level more.
LEMMA ScannedGood ==
  ASSUME Shape, NEW key \in Keys, NEW i \in Levels, NEW seen, Good(key, i - 1, seen)
  PROVE  Good(key, i, Scanned(key, i, seen))
<1> USE Constants
<1> DEFINE new == Scanned(key, i, seen)
           keys == Candidates(key, i, seen)
           live == Live(key, i, seen)
<1>1. seen \in Seen /\ seen.lb \in Nat /\ seen.deleted \subseteq Keys
  BY DEF Good, Seen
<1>2. /\ keys \subseteq Keys /\ live \subseteq Keys /\ new \in Seen
      /\ new.lb = IF live = {} THEN seen.lb ELSE least(live)
      /\ new.deleted = seen.deleted \cup {k \in Passed(key, i, seen) : deleted(levels[i][k])}
  BY <1>1, ScannedParts
<1>3. i \in Int /\ min_level \in Int /\ min_level <= i
  BY DEF Levels
<1>4. live # {} => least(live) \in live /\ \A l \in live : least(live) <= l
  BY <1>2, LeastKey
<1>5. \A k, j : FirstUpTo(i - 1, k, j) => FirstUpTo(i, k, j)
  BY <1>3 DEF FirstUpTo
<1>6. \A k : Met(i, k) => Met(i - 1, k) \/ k \in DOMAIN levels[i]
  BY <1>3 DEF Met
<1>7. ASSUME NEW k \in keys, k \notin seen.deleted
      PROVE  FirstUpTo(i, k, i)
  <2>1. k \in Keys /\ key <= k /\ (seen.lb = 0 \/ k < seen.lb) /\ k \in DOMAIN levels[i]
    BY <1>2 DEF Candidates
  <2>2. ~Met(i - 1, k)
    BY <1>7, <2>1 DEF Good
  <2> QED
    BY <1>3, <2>1, <2>2 DEF Met, FirstUpTo
<1>8. \A k \in live : k \in keys /\ k \notin seen.deleted /\ ~deleted(levels[i][k])
  BY DEF Live
<1>9. \A k : k \in Passed(key, i, seen) <=> k \in keys /\ (live = {} \/ k < least(live))
  BY DEF Passed
<1>10. \A k \in keys : key <= k /\ (seen.lb = 0 \/ k < seen.lb)
  BY DEF Candidates
<1>11. \A k \in keys : k \in live \/ k \in seen.deleted \/ deleted(levels[i][k])
  BY DEF Live
<1>12. \A k \in Keys : k \in DOMAIN levels[i] /\ key <= k /\ (seen.lb = 0 \/ k < seen.lb) => k \in keys
  BY DEF Candidates
<1> HIDE DEF new, keys, live
<1>13. ASSUME new.lb # 0
       PROVE  /\ new.lb \in Keys /\ key <= new.lb
              /\ \E j \in Levels : FirstUpTo(i, new.lb, j) /\ ~deleted(levels[j][new.lb])
  <2>1. CASE live = {}
    BY <1>2, <1>5, <1>13, <2>1 DEF Good
  <2>2. CASE live # {}
    BY <1>2, <1>4, <1>7, <1>8, <1>10, <2>2
  <2> QED
    BY <2>1, <2>2
<1>14. ASSUME NEW k \in Keys, key <= k, new.lb = 0 \/ k < new.lb, Met(i, k)
       PROVE  k \in new.deleted
  <2>1. (seen.lb = 0 \/ k < seen.lb) /\ (live = {} \/ k < least(live))
    <3>1. CASE live = {}
      BY <1>2, <1>14, <3>1
    <3>2. CASE live # {}
      <4>1. least(live) \in live /\ least(live) \in Nat \ {0} /\ new.lb = least(live)
        BY <1>2, <1>4, <3>2
      <4>2. k < least(live)
        BY <1>14, <4>1
      <4>3. seen.lb = 0 \/ least(live) < seen.lb
        BY <1>8, <1>10, <4>1
      <4>4. k \in Nat /\ seen.lb \in Nat /\ least(live) \in Nat
        BY <1>1, <4>1
      <4>5. seen.lb # 0 => k < seen.lb
        BY <4>2, <4>3, <4>4
      <4> QED
        BY <4>2, <4>5
    <3> QED
      BY <3>1, <3>2
  <2>2. CASE Met(i - 1, k)
    BY <1>2, <1>14, <2>1, <2>2 DEF Good
  <2>3. CASE k \in DOMAIN levels[i]
    <3>1. k \in keys
      BY <1>12, <1>14, <2>1, <2>3
    <3>2. k \notin live
      <4>1. SUFFICES ASSUME k \in live PROVE FALSE
        OBVIOUS
      <4>2. least(live) \in Nat /\ least(live) <= k /\ k < least(live)
        BY <1>2, <1>4, <2>1, <4>1
      <4> QED
        BY <4>2
    <3> QED
      BY <1>2, <1>9, <1>11, <2>1, <3>1, <3>2
  <2> QED
    BY <1>6, <1>14, <2>2, <2>3
<1>15. ASSUME NEW k \in new.deleted
       PROVE  \E j \in Levels : FirstUpTo(i, k, j) /\ deleted(levels[j][k])
  <2>1. CASE k \in seen.deleted
    BY <1>5, <2>1 DEF Good
  <2>2. CASE k \notin seen.deleted
    BY <1>2, <1>7, <1>9, <1>15, <2>2
  <2> QED
    BY <2>1, <2>2
<1> QED
  BY <1>2, <1>13, <1>14, <1>15 DEF Good, new

\* The scan of the levels in use is what lower_bound computes.
LEMMA ScanDefined ==
  ASSUME Shape, NEW key \in Keys
  PROVE  /\ lower_bound(key) = Scan(key)[used_levels - 1].lb
         /\ Scan(key) = [i \in (min_level - 1) .. (used_levels - 1) |->
                           IF i < min_level THEN Nothing ELSE Scanned(key, i, Scan(key)[i - 1])]
<1> USE Constants
<1> DEFINE lo == min_level - 1
           N == used_levels - min_level
           F == [n \in 1 .. N |-> [seen \in Seen |-> Scanned(key, lo + n, seen)]]
<1>1. used_levels \in min_level .. MaxLevel + 1 /\ N \in Nat /\ lo \in Int
  BY DEF Shape
<1>2. Nothing \in Seen
  BY DEF Nothing, Seen
<1>3. \A n \in 1 .. N : lo + n \in Levels
  BY <1>1 DEF Levels
<1>4. F \in [1 .. N -> [Seen -> Seen]]
  <2>1. \A n \in 1 .. N, seen \in Seen : Scanned(key, lo + n, seen) \in Seen
    BY <1>3, ScannedParts
  <2> HIDE DEF N, lo
  <2> QED
    BY <2>1
<1>5. PICK g : g \in Repetitions(N, Seen, Nothing, F)
  <2> HIDE DEF F, N
  <2> QED
    BY <1>1, <1>2, <1>4, Repeated
<1>6. g \in [0 .. N -> Seen] /\ g[0] = Nothing
  BY <1>5 DEF Repetitions
<1>7. ASSUME NEW n \in 1 .. N
      PROVE  g[n] = Scanned(key, lo + n, g[n - 1])
  <2>1. g[n] = F[n][g[n - 1]]
    <3> HIDE DEF F, N, lo
    <3> QED
      BY <1>5 DEF Repetitions
  <2>2. g[n - 1] \in Seen
    <3>1. n - 1 \in 0 .. N
      BY <1>1
    <3> HIDE DEF N, F
    <3> QED
      BY <1>6, <3>1
  <2> HIDE DEF N, lo
  <2> QED
    BY <2>1, <2>2
<1> HIDE DEF F
<1> DEFINE f == [i \in lo .. used_levels - 1 |-> g[i - lo]]
           e == [i \in lo .. used_levels - 1 |->
                   IF i < min_level THEN Nothing ELSE Scanned(key, i, f[i - 1])]
<1>8. f = e
  <2>1. ASSUME NEW i \in lo .. used_levels - 1
        PROVE  f[i] = e[i]
    <3>1. CASE i < min_level
      <4>1. i = lo
        BY <1>1, <3>1
      <4> QED
        BY <1>1, <1>6, <3>1, <4>1
    <3>2. CASE ~(i < min_level)
      <4>1. /\ i - lo \in 1 .. N /\ lo + (i - lo) = i /\ (i - lo) - 1 = (i - 1) - lo
            /\ i - 1 \in lo .. used_levels - 1
        BY <1>1, <3>2
      <4>2. g[i - lo] = Scanned(key, i, g[(i - 1) - lo])
        <5> HIDE DEF N, lo
        <5>1. g[i - lo] = Scanned(key, lo + (i - lo), g[(i - lo) - 1])
          BY <1>7, <4>1
        <5> QED
          BY <4>1, <5>1
      <4> QED
        BY <3>2, <4>1, <4>2
    <3> QED
      BY <3>1, <3>2
  <2> QED
    BY <2>1
<1>9. \E h : h = [i \in (min_level - 1) .. (used_levels - 1) |->
                    IF i < min_level THEN Nothing ELSE Scanned(key, i, h[i - 1])]
  <2> HIDE DEF f
  <2> QED
    BY <1>8
<1>10. Scan(key) = [i \in (min_level - 1) .. (used_levels - 1) |->
                      IF i < min_level THEN Nothing ELSE Scanned(key, i, Scan(key)[i - 1])]
  BY <1>9 DEF Scan
<1>11. lower_bound(key) = Scan(key)[used_levels - 1].lb
  BY DEF lower_bound, Scan, Scanned, Passed, Live, Candidates, Nothing, least
<1> QED
  BY <1>10, <1>11

\* lower_bound returns the least key from its bound on that is not erased, for
\* any base, levels and payloads.
THEOREM LowerBoundsAreRight == Spec => []LowerBoundIsNextKey
<1>1. IInv => LowerBoundIsNextKey
  <2> SUFFICES ASSUME IInv, ~merge.merging, NEW key \in Keys
               PROVE  LET live == {k \in Keys : key <= k /\ latest[k] # NONE}
                      IN  IF live = {} THEN lower_bound(key) = 0
                          ELSE lower_bound(key) \in live /\ \A k \in live : lower_bound(key) <= k
    BY DEF LowerBoundIsNextKey
  <2> USE Constants
  <2> DEFINE top == used_levels - 1
             S == {i \in (min_level - 1) .. top : Good(key, i, Scan(key)[i])}
  <2>1. Shape /\ used_levels \in min_level .. MaxLevel + 1 /\ top \in Int /\ min_level - 1 \in Int
    BY DEF IInv, Shape
  <2>2. (min_level - 1) \in S
    <3>1. Scan(key)[min_level - 1] = Nothing
      BY <2>1, ScanDefined
    <3>2. \A k : ~Met(min_level - 1, k)
      BY DEF Met
    <3>3. Good(key, min_level - 1, Nothing)
      BY <3>2 DEF Good, Nothing, Seen
    <3> QED
      BY <2>1, <3>1, <3>3
  <2>3. ASSUME NEW i \in (min_level - 1) + 1 .. top, i - 1 \in S
        PROVE  i \in S
    <3>1. i \in Levels /\ ~(i < min_level) /\ i \in (min_level - 1) .. top
      BY <2>1 DEF Levels
    <3>2. Scan(key)[i] = Scanned(key, i, Scan(key)[i - 1])
      BY <2>1, <3>1, ScanDefined
    <3>3. Good(key, i - 1, Scan(key)[i - 1])
      BY <2>3
    <3> QED
      BY <2>1, <3>1, <3>2, <3>3, ScannedGood
  <2>4. Good(key, top, Scan(key)[top])
    <3>1. \A i \in (min_level - 1) .. top : i \in S
      <4> HIDE DEF S, top
      <4> QED
        BY <2>1, <2>2, <2>3, Induction
    <3> QED
      BY <2>1, <3>1
  <2> DEFINE seen == Scan(key)[top]
  <2>5. lower_bound(key) = seen.lb
    BY <2>1, ScanDefined
  <2> HIDE DEF seen
  <2>6. ASSUME NEW k \in Keys, NEW j \in Levels, FirstUpTo(top, k, j)
        PROVE  Offset(levels[j][k]) = latest[k]
    <3>1. First(j, k, min_level)
      BY <2>1, <2>6 DEF First, FirstUpTo, Levels
    <3> QED
      BY <3>1 DEF IInv, Newest, Tell
  <2>7. ASSUME NEW k \in Keys, latest[k] # NONE
        PROVE  Met(top, k)
    <3>1. ~Nowhere(k, min_level)
      BY <2>7 DEF IInv, Newest, Tell
    <3> QED
      BY <2>1, <3>1 DEF Nowhere, Met, Levels
  <2>8. ASSUME NEW k \in seen.deleted
        PROVE  latest[k] = NONE
    <3>1. PICK j \in Levels : FirstUpTo(top, k, j) /\ deleted(levels[j][k])
      BY <2>4, <2>8 DEF Good, seen
    <3>2. k \in Keys
      BY <2>4, <2>8 DEF Good, Seen, seen
    <3> QED
      BY <2>6, <3>1, <3>2 DEF Offset
  <2>9. ASSUME NEW k \in Keys, key <= k, latest[k] # NONE
        PROVE  seen.lb # 0 /\ seen.lb <= k
    <3>1. ~(seen.lb = 0 \/ k < seen.lb)
      BY <2>4, <2>7, <2>8, <2>9 DEF Good, seen
    <3>2. seen.lb \in Nat /\ k \in Nat
      BY <2>4 DEF Good, Seen, seen
    <3> QED
      BY <3>1, <3>2
  <2>10. ASSUME seen.lb # 0
         PROVE  seen.lb \in Keys /\ key <= seen.lb /\ latest[seen.lb] # NONE
    <3>1. seen.lb \in Keys /\ key <= seen.lb
      BY <2>4, <2>10 DEF Good, seen
    <3>2. PICK j \in Levels : FirstUpTo(top, seen.lb, j) /\ ~deleted(levels[j][seen.lb])
      BY <2>4, <2>10 DEF Good, seen
    <3>3. levels[j] \in ItemMaps /\ seen.lb \in DOMAIN levels[j]
      BY <2>1, <3>2 DEF Shape, FirstUpTo
    <3>4. levels[j][seen.lb] \in Items
      BY <3>3, ItemMap
    <3>5. Offset(levels[j][seen.lb]) \in Payloads
      BY <3>2, <3>4 DEF Offset, deleted, Items
    <3> QED
      BY <2>6, <3>1, <3>2, <3>5
  <2> QED
    BY <2>5, <2>9, <2>10
<1> QED
  BY <1>1, DynamicPGMInvariant, PTL
=============================================================================
