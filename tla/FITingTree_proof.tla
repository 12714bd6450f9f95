-------------------------- MODULE FITingTree_proof --------------------------
(***************************************************************************)
(* Proofs about both FITing-trees, for any keys, payloads, loaded records, *)
(* error and buffer size: a lookup returns what was upserted last, a range *)
(* query is complete, every leaf is in order and is the one its keys are   *)
(* looked for in.  Bottom up: arrays, the search of an array, leaves, the  *)
(* merge of a buffer, the tree of leaves, then the inductive invariant and *)
(* what follows from it.                                                   *)
(***************************************************************************)
EXTENDS FITingTree, FiniteSetTheorems, SequenceTheorems, TLAPS

-----------------------------------------------------------------------------
(* Sets of numbers, functions given by repetition.                         *)

\* A set of numbers that is not empty has a least element.
LEMMA Least ==
    ASSUME NEW T, T \subseteq Nat, T # {}
    PROVE  \E x \in T : \A y \in T : x <= y
<1>1. IsWellFoundedOn(OpToRel(<, Nat), Nat)
  BY NatLessThanWellFounded
<1>2. \E x \in T : \A y \in T : ~(<<y, x>> \in OpToRel(<, Nat))
  BY <1>1, WFMin
<1>3. \A x, y \in Nat : ~(<<y, x>> \in OpToRel(<, Nat)) => x <= y
  BY DEF OpToRel
<1>4. QED  BY <1>2, <1>3

\* Induction over the numbers from lo to hi.
LEMMA Induction ==
    ASSUME NEW lo \in Int, NEW hi \in Int, NEW S, lo \in S,
           \A n \in lo + 1 .. hi : n - 1 \in S => n \in S
    PROVE  \A n \in lo .. hi : n \in S
<1> DEFINE T == {m \in Nat : lo + m <= hi /\ lo + m \notin S}
<1>1. ASSUME T # {}
      PROVE  FALSE
  <2>1. PICK m \in T : \A k \in T : m <= k
    <3>1. T \subseteq Nat  OBVIOUS
    <3> HIDE DEF T
    <3>2. QED  BY <1>1, <3>1, Least
  <2>2. m # 0  BY <2>1
  <2>3. m - 1 \notin T
    <3>1. m \in Nat  BY <2>1
    <3> HIDE DEF T
    <3>2. QED  BY <2>1, <3>1
  <2>4. lo + m - 1 \in S  BY <2>1, <2>2, <2>3
  <2>5. lo + m \in lo + 1 .. hi  BY <2>1, <2>2
  <2>6. lo + m \in S  BY <2>4, <2>5
  <2>7. QED  BY <2>1, <2>6
<1>2. ASSUME NEW n \in lo .. hi
      PROVE  n \in S
  <2>1. n - lo \in Nat /\ lo + (n - lo) = n  OBVIOUS
  <2>2. n - lo \notin T
    <3> HIDE DEF T
    <3>1. QED  BY <1>1
  <2>3. QED  BY <2>1, <2>2
<1>3. QED  BY <1>2

\* N steps that stay in A, from a value in A.
Repetitions(N, A, a, F) ==
    {f \in [0 .. N -> A] : f[0] = a /\ \A n \in 1 .. N : f[n] = F[n][f[n - 1]]}

LEMMA Repeated ==
    ASSUME NEW N \in Nat, NEW A, NEW a \in A, NEW F \in [1 .. N -> [A -> A]]
    PROVE  \E f : f \in Repetitions(N, A, a, F)
<1> DEFINE Good(m, f) == f[0] = a /\ \A n \in 1 .. m : f[n] = F[n][f[n - 1]]
           T == {m \in 0 .. N : ~\E f \in [0 .. m -> A] : Good(m, f)}
<1>1. ASSUME T # {}
      PROVE  FALSE
  <2>1. PICK m \in T : \A k \in T : m <= k
    <3>1. T \subseteq Nat  OBVIOUS
    <3> HIDE DEF T
    <3>2. QED  BY <1>1, <3>1, Least
  <2>2. CASE m = 0
    <3>1. Good(0, [n \in 0 .. 0 |-> a])  OBVIOUS
    <3>2. [n \in 0 .. 0 |-> a] \in [0 .. 0 -> A]  OBVIOUS
    <3>3. QED  BY <2>2, <3>1, <3>2
  <2>3. CASE m # 0
    <3>1. m \in 1 .. N /\ m - 1 \in 0 .. N  BY <2>3
    <3>2. m - 1 \notin T
      <4> HIDE DEF T
      <4>1. QED  BY <2>1, <3>1
    <3>3. PICK f \in [0 .. m - 1 -> A] : Good(m - 1, f)  BY <3>1, <3>2
    <3> DEFINE g == [n \in 0 .. m |-> IF n = m THEN F[m][f[m - 1]] ELSE f[n]]
    <3>4. F[m][f[m - 1]] \in A  BY <3>1
    <3>5. g \in [0 .. m -> A]  BY <3>1, <3>4
    <3>6. g[0] = a  BY <3>1, <3>3
    <3>7. \A n \in 1 .. m : g[n] = F[n][g[n - 1]]
      <4> TAKE n \in 1 .. m
      <4>1. CASE n = m
        <5>1. g[n] = F[m][f[m - 1]] /\ g[n - 1] = f[m - 1]  BY <4>1, <3>1
        <5>2. QED  BY <4>1, <5>1
      <4>2. CASE n # m
        <5>1. n \in 1 .. m - 1 /\ g[n] = f[n] /\ g[n - 1] = f[n - 1]
          BY <4>2, <3>1
        <5>2. f[n] = F[n][f[n - 1]]  BY <3>3, <5>1
        <5>3. QED  BY <5>1, <5>2
      <4>3. QED  BY <4>1, <4>2
    <3> HIDE DEF g
    <3>8. QED  BY <3>5, <3>6, <3>7, <2>1
  <2>4. QED  BY <2>2, <2>3
<1>2. N \notin T
  <2> HIDE DEF T
  <2>1. QED  BY <1>1
<1>3. N \in 0 .. N  OBVIOUS
<1>4. QED  BY <1>2, <1>3 DEF Repetitions

-----------------------------------------------------------------------------
(* Sorted arrays of records.                                               *)

\* A record's key and payload, and what makes a record.
LEMMA RecordFields ==
    /\ \A k \in Keys, p \in Payloads :
          Record(k, p) \in Records /\ Record(k, p).key = k /\ Record(k, p).payload = p
    /\ \A r \in Records :
          r.key \in Keys /\ r.key \in Nat \ {0} /\ r.payload \in Payloads
             /\ r = Record(r.key, r.payload)
<1>1. Keys \subseteq Nat \ {0}
  BY FITingTreeAssumption DEF FITingTreeAssumption
<1>2. ASSUME NEW k \in Keys, NEW p \in Payloads
      PROVE  Record(k, p) \in Records /\ Record(k, p).key = k /\ Record(k, p).payload = p
  BY DEF Records, Record
<1>3. ASSUME NEW r \in Records
      PROVE  r.key \in Keys /\ r.payload \in Payloads /\ r = Record(r.key, r.payload)
  BY DEF Records, Record
<1> QED
  BY <1>1, <1>2, <1>3

\* An array by its positions.
LEMMA ArrayFacts ==
    ASSUME NEW s \in Seq(Records)
    PROVE  /\ Len(s) \in Nat /\ DOMAIN s = 1 .. Len(s)
           /\ \A i \in DOMAIN s : s[i] \in Records /\ s[i].key \in Keys /\ s[i].key \in Nat
           /\ \A r : r \in Range(s) <=> \E i \in DOMAIN s : r = s[i]
<1>1. Len(s) \in Nat /\ DOMAIN s = 1 .. Len(s)
  OBVIOUS
<1>2. \A i \in DOMAIN s : s[i] \in Records
  OBVIOUS
<1> QED
  BY <1>1, <1>2, RecordFields DEF Range

\* The scan of an array stops at the first key that is not less.
LEMMA FirstNotLessIsRight ==
    ASSUME NEW s \in Seq(Records), NEW key \in Nat
    PROVE  LET i == FirstNotLess(s, key)
           IN  /\ i \in 1 .. Len(s) + 1
               /\ i \in DOMAIN s => s[i].key >= key
               /\ \A j \in 1 .. i - 1 : s[j].key < key
<1> DEFINE Good(i) == /\ i \in DOMAIN s => s[i].key >= key
                      /\ \A j \in 1 .. i - 1 : s[j].key < key
           T == {i \in 1 .. Len(s) + 1 : i \in DOMAIN s => s[i].key >= key}
<1>1. /\ Len(s) \in Nat /\ DOMAIN s = 1 .. Len(s)
      /\ \A i \in DOMAIN s : s[i].key \in Nat
  BY ArrayFacts
<1>2. T \subseteq Nat /\ Len(s) + 1 \in T
  BY <1>1
<1>3. PICK i \in T : \A j \in T : i <= j
  <2> HIDE DEF T
  <2> QED BY <1>2, Least
<1>4. i \in 1 .. Len(s) + 1 /\ Good(i)
  <2>1. i \in 1 .. Len(s) + 1 /\ (i \in DOMAIN s => s[i].key >= key)
    BY <1>3
  <2>2. ASSUME NEW j \in 1 .. i - 1
        PROVE  s[j].key < key
    <3>1. j \notin T
      <4> HIDE DEF T
      <4> QED BY <1>2, <1>3
    <3> QED BY <1>1, <2>1, <3>1
  <2> QED BY <2>1, <2>2
<1>5. FirstNotLess(s, key) = CHOOSE x \in 1 .. Len(s) + 1 : Good(x)
  BY DEF FirstNotLess
<1> HIDE DEF Good
<1>6. FirstNotLess(s, key) \in 1 .. Len(s) + 1 /\ Good(FirstNotLess(s, key))
  BY <1>4, <1>5
<1> QED
  BY <1>6 DEF Good

\* In a sorted array a key is at one place.
LEMMA SortedIsInjective ==
    ASSUME NEW s \in Seq(Records), Sorted(s), NEW i \in DOMAIN s, NEW j \in DOMAIN s,
           s[i].key <= s[j].key
    PROVE  i <= j
<1>1. /\ DOMAIN s = 1 .. Len(s) /\ Len(s) \in Nat
      /\ s[i].key \in Nat /\ s[j].key \in Nat
  BY ArrayFacts
<1>2. j < i => s[j].key < s[i].key
  BY DEF Sorted
<1> QED
  BY <1>1, <1>2

\* InsertAt shifts the records from position i on, as the loops of both upserts
\* do.
LEMMA InsertedAt ==
    ASSUME NEW s \in Seq(Records), NEW i \in 1 .. Len(s) + 1, NEW r \in Records
    PROVE  LET t == InsertAt(s, i, r)
           IN  /\ t \in Seq(Records) /\ Len(t) = Len(s) + 1
               /\ \A j \in 1 .. i - 1 : t[j] = s[j]
               /\ t[i] = r
               /\ \A j \in i + 1 .. Len(s) + 1 : t[j] = s[j - 1]
<1> DEFINE t == InsertAt(s, i, r)
<1>1. t = SubSeq(s, 1, i - 1) \o <<r>> \o SubSeq(s, i, Len(s))
  BY DEF InsertAt
<1>0. /\ Len(s) \in Nat
      /\ \A j \in 1 .. i - 1 : s[j] \in Records
      /\ \A j \in i .. Len(s) : s[j] \in Records
  BY ArrayFacts
<1>2. PICK a : a = SubSeq(s, 1, i - 1)
  OBVIOUS
<1>3. PICK b : b = SubSeq(s, i, Len(s))
  OBVIOUS
<1>4. a \in Seq(Records) /\ Len(a) = i - 1 /\ \A j \in 1 .. i - 1 : a[j] = s[j]
  BY <1>0, <1>2, SubSeqProperties
<1>5. /\ b \in Seq(Records) /\ Len(b) = Len(s) + 1 - i
      /\ \A j \in 1 .. Len(b) : b[j] = s[j + i - 1]
  BY <1>0, <1>3, SubSeqProperties
<1>6. t = a \o <<r>> \o b
  BY <1>1, <1>2, <1>3
<1>7. PICK c : c = a \o <<r>>
  OBVIOUS
<1>8. /\ c \in Seq(Records) /\ Len(c) = i /\ c[i] = r
      /\ \A j \in 1 .. i - 1 : c[j] = s[j]
  BY <1>4, <1>7
<1>9. t = c \o b
  BY <1>6, <1>7
<1> HIDE DEF t
<1>10. t \in Seq(Records) /\ Len(t) = Len(s) + 1
  BY <1>5, <1>8, <1>9
<1>11. ASSUME NEW j \in 1 .. Len(s) + 1
       PROVE  t[j] = IF j <= i THEN c[j] ELSE b[j - i]
  BY <1>5, <1>8, <1>9
<1>12. \A j \in 1 .. i - 1 : t[j] = s[j]
  BY <1>8, <1>11
<1>13. t[i] = r
  BY <1>8, <1>11
<1>14. ASSUME NEW j \in i + 1 .. Len(s) + 1
       PROVE  t[j] = s[j - 1]
  <2>1. j - i \in 1 .. Len(b)
    BY <1>5
  <2>2. t[j] = b[j - i]
    BY <1>11
  <2>3. (j - i) + i - 1 = j - 1
    OBVIOUS
  <2> QED BY <1>5, <2>1, <2>2, <2>3
<1> QED
  BY <1>10, <1>12, <1>13, <1>14 DEF t

\* What an upsert of key does to a set of records.
With(S, key, payload) == {r \in S : r.key # key} \cup {Record(key, payload)}

\* A record inserted at its place leaves the array in order.
LEMMA InsertedInOrder ==
    ASSUME NEW s \in Seq(Records), Sorted(s), NEW r \in Records, NEW i \in 1 .. Len(s) + 1,
           \A j \in 1 .. i - 1 : s[j].key < r.key,
           \A j \in i .. Len(s) : r.key < s[j].key
    PROVE  LET t == InsertAt(s, i, r)
           IN  /\ t \in Seq(Records) /\ Len(t) = Len(s) + 1 /\ Sorted(t)
               /\ Range(t) = Range(s) \cup {r}
               /\ Range(t) = With(Range(s), r.key, r.payload)
               /\ i > 1 => t[1] = s[1]
<1>1. PICK t : t = InsertAt(s, i, r)
  OBVIOUS
<1>2. /\ t \in Seq(Records) /\ Len(t) = Len(s) + 1
      /\ \A j \in 1 .. i - 1 : t[j] = s[j]
      /\ t[i] = r
      /\ \A j \in i + 1 .. Len(s) + 1 : t[j] = s[j - 1]
  BY <1>1, InsertedAt
<1>3. /\ DOMAIN s = 1 .. Len(s) /\ Len(s) \in Nat /\ DOMAIN t = 1 .. Len(s) + 1
      /\ \A j \in 1 .. Len(s) : s[j].key \in Nat /\ s[j] \in Records
      /\ \A x : x \in Range(s) <=> \E j \in 1 .. Len(s) : x = s[j]
      /\ \A x : x \in Range(t) <=> \E j \in 1 .. Len(s) + 1 : x = t[j]
  <2>1. /\ DOMAIN s = 1 .. Len(s) /\ Len(s) \in Nat
        /\ \A j \in 1 .. Len(s) : s[j].key \in Nat /\ s[j] \in Records
        /\ \A x : x \in Range(s) <=> \E j \in 1 .. Len(s) : x = s[j]
    BY ArrayFacts
  <2>2. DOMAIN t = 1 .. Len(t) /\ \A x : x \in Range(t) <=> \E j \in DOMAIN t : x = t[j]
    BY <1>2, ArrayFacts
  <2>3. DOMAIN t = 1 .. Len(s) + 1
    BY <1>2, <2>2
  <2> QED BY <2>1, <2>2, <2>3, Zenon
<1>4. r.key \in Nat /\ r = Record(r.key, r.payload)
  BY RecordFields
<1>5. ASSUME NEW j \in DOMAIN t, NEW k \in DOMAIN t, j < k
      PROVE  t[j].key < t[k].key
  <2>1. \A m, n \in 1 .. Len(s) : m < n => s[m].key < s[n].key
    BY <1>3 DEF Sorted
  <2>2. CASE k < i
    BY <1>2, <1>3, <1>5, <2>1, <2>2
  <2>3. CASE k = i
    BY <1>2, <1>3, <1>5, <2>3
  <2>4. CASE k > i
    <3>1. t[k] = s[k - 1] /\ k - 1 \in i .. Len(s)
      BY <1>2, <1>3, <2>4
    <3>2. CASE j < i
      <4>1. t[j] = s[j] /\ j < k - 1 /\ j \in 1 .. Len(s)
        BY <1>2, <1>3, <2>4, <3>2
      <4> QED BY <2>1, <3>1, <4>1
    <3>3. CASE j = i
      BY <1>2, <3>1, <3>3
    <3>4. CASE j > i
      <4>1. t[j] = s[j - 1] /\ j - 1 < k - 1 /\ j - 1 \in 1 .. Len(s)
        BY <1>2, <1>3, <1>5, <3>4
      <4> QED BY <2>1, <3>1, <4>1
    <3> QED BY <1>3, <3>2, <3>3, <3>4
  <2> QED BY <1>3, <2>2, <2>3, <2>4
<1>6. Range(t) = Range(s) \cup {r}
  <2>1. ASSUME NEW x \in Range(t)
        PROVE  x \in Range(s) \cup {r}
    <3>1. PICK j \in 1 .. Len(s) + 1 : x = t[j]
      BY <1>3
    <3>2. CASE j < i
      BY <1>2, <1>3, <3>1, <3>2
    <3>3. CASE j = i
      BY <1>2, <3>1, <3>3
    <3>4. CASE j > i
      <4>1. x = s[j - 1] /\ j - 1 \in 1 .. Len(s)
        BY <1>2, <1>3, <3>1, <3>4
      <4> QED BY <1>3, <4>1
    <3> QED BY <3>2, <3>3, <3>4
  <2>2. r \in Range(t)
    BY <1>2, <1>3
  <2>3. ASSUME NEW x \in Range(s)
        PROVE  x \in Range(t)
    <3>1. PICK j \in 1 .. Len(s) : x = s[j]
      BY <1>3
    <3>2. CASE j < i
      BY <1>2, <1>3, <3>1, <3>2
    <3>3. CASE j >= i
      <4>1. j + 1 \in i + 1 .. Len(s) + 1 /\ (j + 1) - 1 = j
        BY <1>3, <3>3
      <4>2. t[j + 1] = x
        BY <1>2, <3>1, <4>1
      <4>3. j + 1 \in 1 .. Len(s) + 1
        BY <1>3
      <4> QED BY <1>3, <4>2, <4>3
    <3> QED BY <3>2, <3>3
  <2> QED BY <2>1, <2>2, <2>3
<1>7. \A x \in Range(s) : x.key # r.key
  <2> TAKE x \in Range(s)
  <2>1. PICK j \in 1 .. Len(s) : x = s[j]
    BY <1>3
  <2> QED BY <1>3, <1>4, <2>1
<1>8. Range(t) = With(Range(s), r.key, r.payload)
  BY <1>4, <1>6, <1>7 DEF With
<1>9. i > 1 => t[1] = s[1]
  BY <1>2
<1> QED
  BY <1>1, <1>2, <1>5, <1>6, <1>8, <1>9 DEF Sorted

Replaced(s, i, payload) == [s EXCEPT ![i].payload = payload]

\* A payload replaced leaves the keys as they were.
LEMMA PayloadReplaced ==
    ASSUME NEW s \in Seq(Records), Sorted(s), NEW i \in DOMAIN s,
           NEW key \in Keys, s[i].key = key, NEW payload \in Payloads
    PROVE  LET t == Replaced(s, i, payload)
           IN  /\ t \in Seq(Records) /\ Len(t) = Len(s) /\ Sorted(t)
               /\ Range(t) = With(Range(s), key, payload)
               /\ t[1].key = s[1].key
<1>1. PICK t : t = [s EXCEPT ![i] = [s[i] EXCEPT !.payload = payload]]
  OBVIOUS
<1>0. t = Replaced(s, i, payload)
  BY <1>1 DEF Replaced
<1>2. /\ DOMAIN s = 1 .. Len(s) /\ Len(s) \in Nat
      /\ \A j \in 1 .. Len(s) : s[j].key \in Nat /\ s[j] \in Records
      /\ \A x : x \in Range(s) <=> \E j \in 1 .. Len(s) : x = s[j]
  BY ArrayFacts
<1>3. [s[i] EXCEPT !.payload = payload] = Record(key, payload)
  <2>1. s[i] = Record(key, s[i].payload)
    BY <1>2, RecordFields
  <2>2. \A q : [Record(key, q) EXCEPT !.payload = payload] = Record(key, payload)
    BY DEF Record
  <2> QED BY <2>1, <2>2, Zenon
<1>4. Record(key, payload) \in Records /\ Record(key, payload).key = key
  BY RecordFields
<1>5. /\ t \in Seq(Records) /\ Len(t) = Len(s) /\ DOMAIN t = 1 .. Len(s)
      /\ t[i] = Record(key, payload)
      /\ \A j \in 1 .. Len(s) : j # i => t[j] = s[j]
  BY <1>1, <1>2, <1>3, <1>4
<1>6. \A j \in 1 .. Len(s) : t[j].key = s[j].key
  BY <1>4, <1>5
<1>7. Sorted(t)
  BY <1>2, <1>5, <1>6 DEF Sorted
<1>8. \A x : x \in Range(t) <=> \E j \in 1 .. Len(s) : x = t[j]
  BY <1>5, ArrayFacts
<1>9. \A j \in 1 .. Len(s) : s[j].key = key => j = i
  <2> TAKE j \in 1 .. Len(s)
  <2>1. s[j].key = key => j <= i /\ i <= j
    BY <1>2, SortedIsInjective
  <2> QED BY <1>2, <2>1
<1>10. Range(t) = With(Range(s), key, payload)
  <2>1. ASSUME NEW x \in Range(t)
        PROVE  x \in With(Range(s), key, payload)
    <3>1. PICK j \in 1 .. Len(s) : x = t[j]
      BY <1>8
    <3> QED BY <1>2, <1>5, <1>9, <3>1 DEF With
  <2>2. ASSUME NEW x \in With(Range(s), key, payload)
        PROVE  x \in Range(t)
    <3>1. CASE x = Record(key, payload)
      BY <1>2, <1>5, <1>8, <3>1
    <3>2. CASE x \in Range(s) /\ x.key # key
      <4>1. PICK j \in 1 .. Len(s) : x = s[j]
        BY <1>2, <3>2
      <4>2. j # i
        BY <3>2, <4>1
      <4> QED BY <1>5, <1>8, <4>1, <4>2
    <3> QED BY <2>2, <3>1, <3>2 DEF With
  <2> QED BY <2>1, <2>2
<1>11. t[1].key = s[1].key
  BY <1>2, <1>6
<1> QED
  BY <1>0, <1>5, <1>7, <1>10, <1>11

-----------------------------------------------------------------------------
(* Buffers.                                                                *)

\* An upsert into a buffer: it stays in order and has the record of the upsert
\* in place of any other of its key.
LEMMA BufferUpserted ==
    ASSUME NEW s \in Seq(Records), Sorted(s), NEW key \in Keys, NEW payload \in Payloads
    PROVE  LET t == BufferUpsert(s, key, payload)
           IN  /\ t \in Seq(Records) /\ Sorted(t) /\ t # << >>
               /\ Len(t) \in Len(s) .. Len(s) + 1
               /\ Range(t) = With(Range(s), key, payload)
<1>1. PICK i : i = FirstNotLess(s, key)
  OBVIOUS
<1>2. key \in Nat /\ Record(key, payload) \in Records
      /\ Record(key, payload).key = key /\ Record(key, payload).payload = payload
  <2>1. Record(key, payload) \in Records /\ Record(key, payload).key = key
        /\ Record(key, payload).payload = payload
    BY RecordFields
  <2> QED BY <2>1, RecordFields
<1>3. /\ i \in 1 .. Len(s) + 1
      /\ i \in DOMAIN s => s[i].key >= key
      /\ \A j \in 1 .. i - 1 : s[j].key < key
  BY <1>1, <1>2, FirstNotLessIsRight
<1>4. /\ DOMAIN s = 1 .. Len(s) /\ Len(s) \in Nat
      /\ \A j \in 1 .. Len(s) : s[j].key \in Nat
  BY ArrayFacts
<1>5. CASE Holds(s, i, key)
  <2>1. i \in DOMAIN s /\ s[i].key = key
    BY <1>5 DEF Holds
  <2>2. PICK t : t = Replaced(s, i, payload)
    OBVIOUS
  <2>3. BufferUpsert(s, key, payload) = t
    BY <1>1, <1>5, <2>2 DEF BufferUpsert, Replaced
  <2>4. /\ t \in Seq(Records) /\ Len(t) = Len(s) /\ Sorted(t)
        /\ Range(t) = With(Range(s), key, payload)
    BY <2>1, <2>2, PayloadReplaced
  <2>5. t # << >>
    BY <1>4, <2>1, <2>4
  <2> QED BY <1>4, <2>3, <2>4, <2>5
<1>6. CASE ~Holds(s, i, key)
  <2>1. \A j \in i .. Len(s) : key < s[j].key
    <3> TAKE j \in i .. Len(s)
    <3>1. i \in DOMAIN s /\ j \in DOMAIN s
      BY <1>3, <1>4
    <3>2. key < s[i].key
      BY <1>2, <1>3, <1>4, <1>6, <3>1 DEF Holds
    <3>3. i < j => s[i].key < s[j].key
      BY <3>1 DEF Sorted
    <3> QED BY <1>2, <1>3, <1>4, <3>1, <3>2, <3>3
  <2>2. PICK t : t = InsertAt(s, i, Record(key, payload))
    OBVIOUS
  <2>3. BufferUpsert(s, key, payload) = t
    BY <1>1, <1>6, <2>2 DEF BufferUpsert
  <2>4. /\ t \in Seq(Records) /\ Len(t) = Len(s) + 1 /\ Sorted(t)
        /\ Range(t) = With(Range(s), key, payload)
    BY <1>2, <1>3, <2>1, <2>2, InsertedInOrder
  <2>5. t # << >>
    BY <1>4, <2>4
  <2> QED BY <1>4, <2>3, <2>4, <2>5
<1> QED
  BY <1>5, <1>6

\* A buffer's scan finds the record of a key exactly when there is one.
LEMMA BufferFound ==
    ASSUME NEW s \in Seq(Records), Sorted(s), NEW key \in Keys
    PROVE  /\ \A r \in Range(s) : r.key = key => BufferFind(s, key) = r.payload
           /\ (\A r \in Range(s) : r.key # key) => BufferFind(s, key) = NONE
<1>1. PICK i : i = FirstNotLess(s, key)
  OBVIOUS
<1>2. /\ DOMAIN s = 1 .. Len(s) /\ Len(s) \in Nat
      /\ \A j \in 1 .. Len(s) : s[j].key \in Nat
      /\ \A x : x \in Range(s) <=> \E j \in 1 .. Len(s) : x = s[j]
  BY ArrayFacts
<1>3. key \in Nat
  BY FITingTreeAssumption DEF FITingTreeAssumption
<1>4. /\ i \in 1 .. Len(s) + 1
      /\ i \in DOMAIN s => s[i].key >= key
      /\ \A j \in 1 .. i - 1 : s[j].key < key
  BY <1>1, <1>3, FirstNotLessIsRight
<1>5. BufferFind(s, key) = IF Holds(s, i, key) THEN s[i].payload ELSE NONE
  BY <1>1 DEF BufferFind
<1>6. ASSUME NEW r \in Range(s), r.key = key
      PROVE  BufferFind(s, key) = r.payload
  <2>1. PICK j \in 1 .. Len(s) : r = s[j]
    BY <1>2
  <2>2. ~(j < i)
    BY <1>2, <1>3, <1>4, <1>6, <2>1
  <2>3. i \in DOMAIN s /\ s[j].key <= s[i].key
    BY <1>2, <1>3, <1>4, <1>6, <2>1, <2>2
  <2>4. j <= i
    BY <1>2, <2>1, <2>3, SortedIsInjective
  <2>5. j = i
    BY <1>2, <1>4, <2>2, <2>4
  <2> QED BY <1>5, <1>6, <2>1, <2>3, <2>5 DEF Holds
<1>7. ASSUME \A r \in Range(s) : r.key # key
      PROVE  BufferFind(s, key) = NONE
  <2>1. ~Holds(s, i, key)
    BY <1>2, <1>7 DEF Holds
  <2> QED BY <1>5, <2>1
<1> QED
  BY <1>6, <1>7

-----------------------------------------------------------------------------
(* The search of an array ends at the key or, when the array does not hold *)
(* it, next to its place, from every prediction within the error.          *)

\* b records of the array are less than the key.
Below(s, key, b) ==
    /\ b \in 0 .. Len(s)
    /\ \A i \in 1 .. b : s[i].key < key
    /\ \A i \in b + 1 .. Len(s) : s[i].key >= key

\* In a sorted array the smaller keys are the first ones.
LEMMA BelowIsCount ==
    ASSUME NEW s \in Seq(Records), Sorted(s), NEW key \in Keys
    PROVE  Below(s, key, Cardinality({i \in DOMAIN s : s[i].key < key}))
<1>1. PICK i : i = FirstNotLess(s, key)
  OBVIOUS
<1>2. /\ DOMAIN s = 1 .. Len(s) /\ Len(s) \in Nat
      /\ \A j \in 1 .. Len(s) : s[j].key \in Nat
  BY ArrayFacts
<1>3. key \in Nat
  BY FITingTreeAssumption DEF FITingTreeAssumption
<1>4. /\ i \in 1 .. Len(s) + 1
      /\ i \in DOMAIN s => s[i].key >= key
      /\ \A j \in 1 .. i - 1 : s[j].key < key
  BY <1>1, <1>3, FirstNotLessIsRight
<1>5. \A j \in i .. Len(s) : s[j].key >= key
  <2> TAKE j \in i .. Len(s)
  <2>1. i \in DOMAIN s /\ j \in DOMAIN s /\ s[i].key >= key
    BY <1>2, <1>4
  <2>2. i < j => s[i].key < s[j].key
    BY <2>1 DEF Sorted
  <2> QED BY <1>2, <1>3, <1>4, <2>1, <2>2
<1>6. {j \in DOMAIN s : s[j].key < key} = 1 .. i - 1
  BY <1>2, <1>3, <1>4, <1>5
<1>7. Cardinality(1 .. i - 1) = i - 1
  <2>1. 1 \in Int /\ i - 1 \in Int
    BY <1>4
  <2>2. Cardinality(1 .. i - 1) = IF 1 > i - 1 THEN 0 ELSE (i - 1) - 1 + 1
    BY <2>1, FS_Interval
  <2> QED BY <1>2, <1>4, <2>2
<1>8. PICK b : b = i - 1
  OBVIOUS
<1>9. Cardinality({j \in DOMAIN s : s[j].key < key}) = b
  BY <1>6, <1>7, <1>8
<1>10. b \in 0 .. Len(s) /\ b + 1 = i
  BY <1>2, <1>4, <1>8
<1> QED
  BY <1>4, <1>5, <1>8, <1>9, <1>10 DEF Below

\* The positions lo .. hi are the place of the key, or its two neighbours, and
\* p is at most n away from them.
Place(s, key, lo, hi) ==
    /\ lo \in 0 .. Len(s) /\ hi \in 1 .. Len(s) + 1
    /\ \/ lo = hi /\ s[lo].key = key
       \/ hi = lo + 1 /\ \A i \in DOMAIN s : s[i].key # key
    /\ \A i \in DOMAIN s : s[i].key < key <=> i < hi
    /\ \A i \in DOMAIN s : s[i].key > key <=> i > lo

Within(p, lo, hi, n) == lo - p <= n /\ p - hi <= n

Reach(step) == IF step = 0 THEN 0 ELSE 2 * step - 1

Near(s, key, p) ==
    /\ p \in DOMAIN s
    /\ \/ s[p].key = key
       \/ /\ \A i \in DOMAIN s : s[i].key # key
          /\ \A i \in DOMAIN s : i < p => s[i].key < key
          /\ \A i \in DOMAIN s : i > p => s[i].key > key

\* Every key has a place: its own position or, when the array does not hold it,
\* the two positions it would be between.
LEMMA PlaceExists ==
    ASSUME NEW s \in Seq(Records), Sorted(s), NEW key \in Keys, NEW b, Below(s, key, b)
    PROVE  Place(s, key, IF Holds(s, b + 1, key) THEN b + 1 ELSE b, b + 1)
<1>1. /\ DOMAIN s = 1 .. Len(s) /\ Len(s) \in Nat
      /\ \A j \in 1 .. Len(s) : s[j].key \in Nat
  BY ArrayFacts
<1>2. key \in Nat
  BY FITingTreeAssumption DEF FITingTreeAssumption
<1>3. /\ b \in 0 .. Len(s)
      /\ \A i \in 1 .. b : s[i].key < key
      /\ \A i \in b + 1 .. Len(s) : s[i].key >= key
  BY DEF Below
<1>4. \A i \in b + 1 .. Len(s) : b + 1 \in DOMAIN s /\ (b + 1 < i => s[b + 1].key < s[i].key)
  BY <1>1, <1>3 DEF Sorted
<1>5. \A i \in 1 .. Len(s) : s[i].key < key <=> i < b + 1
  BY <1>1, <1>2, <1>3
<1>6. CASE Holds(s, b + 1, key)
  <2>1. b + 1 \in 1 .. Len(s) /\ s[b + 1].key = key
    BY <1>1, <1>6 DEF Holds
  <2>2. \A i \in 1 .. Len(s) : s[i].key > key <=> i > b + 1
    <3> TAKE i \in 1 .. Len(s)
    <3>1. CASE i < b + 1
      BY <1>1, <1>2, <1>3, <1>5, <3>1
    <3>2. CASE i = b + 1
      BY <1>2, <1>3, <2>1, <3>2
    <3>3. CASE i > b + 1
      BY <1>1, <1>2, <1>3, <1>4, <2>1, <3>3
    <3> QED BY <1>3, <3>1, <3>2, <3>3
  <2> QED BY <1>1, <1>3, <1>5, <1>6, <2>1, <2>2 DEF Place
<1>7. CASE ~Holds(s, b + 1, key)
  <2>1. \A i \in b + 1 .. Len(s) : s[i].key > key
    <3> TAKE i \in b + 1 .. Len(s)
    <3>1. b + 1 \in DOMAIN s /\ s[b + 1].key > key
      BY <1>1, <1>2, <1>3, <1>4, <1>7 DEF Holds
    <3> QED BY <1>1, <1>2, <1>3, <1>4, <3>1
  <2>2. \A i \in 1 .. Len(s) : s[i].key > key <=> i > b
    <3> TAKE i \in 1 .. Len(s)
    <3>1. i < b + 1 => s[i].key < key
      BY <1>5
    <3>2. i > b => s[i].key > key
      BY <1>3, <2>1
    <3> QED BY <1>1, <1>2, <1>3, <3>1, <3>2
  <2>3. \A i \in 1 .. Len(s) : s[i].key # key
    <3> TAKE i \in 1 .. Len(s)
    <3> QED BY <1>1, <1>2, <1>3, <1>5, <2>2
  <2> QED BY <1>1, <1>3, <1>5, <1>7, <2>2, <2>3 DEF Place
<1> QED
  BY <1>6, <1>7

\* A position at distance 0 from the place is where the search should end.
LEMMA PlaceIsNear ==
    ASSUME NEW s \in Seq(Records), NEW key \in Keys, NEW lo, NEW hi, Place(s, key, lo, hi),
           NEW p \in DOMAIN s, Within(p, lo, hi, 0)
    PROVE  Near(s, key, p)
<1>1. DOMAIN s = 1 .. Len(s) /\ Len(s) \in Nat
  BY ArrayFacts
<1>2. CASE lo = hi /\ s[lo].key = key
  <2>1. p = lo
    BY <1>1, <1>2 DEF Place, Within
  <2> QED BY <1>2, <2>1 DEF Near
<1>3. CASE hi = lo + 1 /\ \A i \in DOMAIN s : s[i].key # key
  <2>1. lo <= p /\ p <= hi
    BY <1>1, <1>3 DEF Place, Within
  <2>2. \A i \in DOMAIN s : i < p => s[i].key < key
    BY <1>1, <1>3, <2>1 DEF Place
  <2>3. \A i \in DOMAIN s : i > p => s[i].key > key
    BY <1>1, <1>3, <2>1 DEF Place
  <2> QED BY <1>3, <2>2, <2>3 DEF Near
<1> QED
  BY <1>2, <1>3 DEF Place

\* One round of the search halves the distance that is left.
Searching(s, key, lo, hi, now) ==
    /\ now.at \in DOMAIN s
    /\ s[now.at].key = key \/ Within(now.at, lo, hi, Reach(now.step))

\* One round of find_precise_position: the position stays in the array, the
\* distance left stays within the reach of the step, and the step gets smaller.
\* The step may have been clipped at an end of the array and is halved as it was
\* clipped.
LEMMA RoundHalves ==
    ASSUME NEW s \in Seq(Records), NEW key \in Keys, NEW lo, NEW hi, Place(s, key, lo, hi),
           NEW now \in [at : DOMAIN s, step : 0 .. Len(s)], Searching(s, key, lo, hi, now)
    PROVE  LET next == SearchRound(s, key, now)
           IN  /\ next \in [at : DOMAIN s, step : 0 .. Len(s)]
               /\ Searching(s, key, lo, hi, next)
               /\ s[next.at].key = key \/ next.step = 0 \/ next.step < now.step
<1>1. /\ DOMAIN s = 1 .. Len(s) /\ Len(s) \in Nat
      /\ \A j \in 1 .. Len(s) : s[j].key \in Nat
  BY ArrayFacts
<1>2. key \in Nat
  BY FITingTreeAssumption DEF FITingTreeAssumption
<1>3. PICK p \in 1 .. Len(s), step \in 0 .. Len(s) : now = [at |-> p, step |-> step]
  BY <1>1
<1>4. now.at = p /\ now.step = step
  BY <1>3
<1>5. CASE s[p].key = key \/ step = 0
  <2>1. SearchRound(s, key, now) = now
    BY <1>4, <1>5 DEF SearchRound
  <2> QED BY <1>4, <1>5, <2>1
<1>6. CASE s[p].key # key /\ step # 0
  <2>1. /\ lo \in 0 .. Len(s) /\ hi \in 1 .. Len(s) + 1 /\ (lo = hi \/ hi = lo + 1)
        /\ lo = hi => p # lo
        /\ s[p].key < key <=> p < hi
        /\ s[p].key > key <=> p > lo
        /\ lo - p <= 2 * step - 1 /\ p - hi <= 2 * step - 1
    BY <1>1, <1>4, <1>6 DEF Place, Searching, Within, Reach
  <2>2. PICK m \in 0 .. Len(s) : m = Smaller(step, Room(s, key, p)) /\ m <= step
    <3>1. Room(s, key, p) \in 0 .. Len(s)
      BY <1>1 DEF Room
    <3> QED BY <1>1, <3>1 DEF Smaller
  <2>3. PICK half \in 0 .. Len(s) : half = IF m > 1 THEN (m + 1) \div 2 ELSE 0
    <3>1. (m + 1) \div 2 \in 0 .. Len(s) + 1 /\ (m > 1 => (m + 1) \div 2 <= m)
      BY <1>1, <2>2
    <3> QED BY <1>1, <2>2, <3>1
  <2>4. half < step /\ m - 1 <= Reach(half) /\ Reach(half) \in Int /\ Reach(half) >= 0
    <3>1. CASE m > 1
      <4>1. half < m /\ m <= 2 * half /\ half # 0
        BY <1>1, <2>2, <2>3, <3>1
      <4> QED BY <1>1, <2>2, <4>1 DEF Reach
    <3>2. CASE ~(m > 1)
      BY <1>1, <1>6, <2>2, <2>3, <3>2 DEF Reach
    <3> QED BY <3>1, <3>2
  <2> DEFINE q == IF s[p].key > key THEN p - m ELSE p + m
  <2>5. SearchRound(s, key, now) = [at |-> q, step |-> half]
    BY <1>3, <1>4, <1>6, <2>2, <2>3 DEF SearchRound
  <2>6. q \in 1 .. Len(s) /\ (Within(q, lo, hi, m - 1) \/ Within(q, lo, hi, 0))
    <3>1. CASE s[p].key > key
      <4>1. Room(s, key, p) = p - 1
        BY <3>1 DEF Room
      <4>2. m = (IF step < p - 1 THEN step ELSE p - 1) /\ q = p - m
        BY <2>2, <3>1, <4>1 DEF Smaller
      <4>3. p >= hi /\ p > lo
        BY <1>1, <1>2, <2>1, <3>1
      <4>4. CASE step < p - 1
        BY <1>1, <2>1, <4>2, <4>3, <4>4 DEF Within
      <4>5. CASE ~(step < p - 1)
        BY <1>1, <2>1, <4>2, <4>3, <4>5 DEF Within
      <4> QED BY <4>4, <4>5
    <3>2. CASE ~(s[p].key > key)
      <4>1. Room(s, key, p) = Len(s) - p
        BY <3>2 DEF Room
      <4>2. m = (IF step < Len(s) - p THEN step ELSE Len(s) - p) /\ q = p + m
        BY <2>2, <3>2, <4>1 DEF Smaller
      <4>3. p <= lo /\ p < hi
        BY <1>1, <1>2, <1>6, <2>1, <3>2
      <4>4. CASE step < Len(s) - p
        BY <1>1, <2>1, <4>2, <4>3, <4>4 DEF Within
      <4>5. CASE ~(step < Len(s) - p)
        BY <1>1, <2>1, <4>2, <4>3, <4>5 DEF Within
      <4> QED BY <4>4, <4>5
    <3> QED BY <3>1, <3>2
  <2> HIDE DEF q
  <2>7. Within(q, lo, hi, Reach(half))
    <3>1. PICK reach \in Int : reach = Reach(half)
      BY <2>4
    <3>2. m - 1 <= reach /\ 0 <= reach
      BY <2>4, <3>1
    <3>3. q \in Int /\ lo \in Int /\ hi \in Int
      BY <2>1, <2>6
    <3>4. \/ lo - q <= m - 1 /\ q - hi <= m - 1
          \/ lo - q <= 0 /\ q - hi <= 0
      BY <2>6 DEF Within
    <3>5. lo - q <= reach /\ q - hi <= reach
      BY <3>2, <3>3, <3>4
    <3> QED BY <3>1, <3>5 DEF Within
  <2>8. [at |-> q, step |-> half] \in [at : DOMAIN s, step : 0 .. Len(s)]
    BY <1>1, <2>3, <2>6
  <2>9. Searching(s, key, lo, hi, [at |-> q, step |-> half])
    BY <1>1, <2>6, <2>7 DEF Searching
  <2>10. [at |-> q, step |-> half].step = half
    OBVIOUS
  <2> QED BY <1>4, <2>4, <2>5, <2>8, <2>9, <2>10, Zenon
<1> QED
  BY <1>5, <1>6

\* The rounds of a search, from the position and the step it begins with.
Searches(s, key, first) ==
    {f \in [0 .. Len(s) -> [at : DOMAIN s, step : 0 .. Len(s)]] :
        f = [n \in 0 .. Len(s) |-> IF n = 0 THEN first ELSE SearchRound(s, key, f[n - 1])]}

\* The recursive function of PrecisePosition is a function: it has a value for
\* every round.
LEMMA SearchExists ==
    ASSUME NEW s \in Seq(Records), NEW key \in Keys, NEW lo, NEW hi, Place(s, key, lo, hi),
           NEW first \in [at : DOMAIN s, step : 0 .. Len(s)], Searching(s, key, lo, hi, first)
    PROVE  \E f : f \in Searches(s, key, first)
<1> DEFINE A == {now \in [at : DOMAIN s, step : 0 .. Len(s)] : Searching(s, key, lo, hi, now)}
           F == [n \in 1 .. Len(s) |-> [now \in A |-> SearchRound(s, key, now)]]
<1>1. Len(s) \in Nat
  BY ArrayFacts
<1>2. \A now \in A : SearchRound(s, key, now) \in A
  <2> TAKE now \in A
  <2>1. now \in [at : DOMAIN s, step : 0 .. Len(s)] /\ Searching(s, key, lo, hi, now)
    OBVIOUS
  <2>2. /\ SearchRound(s, key, now) \in [at : DOMAIN s, step : 0 .. Len(s)]
        /\ Searching(s, key, lo, hi, SearchRound(s, key, now))
    BY <2>1, RoundHalves
  <2> QED BY <2>2
<1>3. first \in A
  OBVIOUS
<1>4. A \subseteq [at : DOMAIN s, step : 0 .. Len(s)]
  OBVIOUS
<1> HIDE DEF A
<1>5. F \in [1 .. Len(s) -> [A -> A]]
  BY <1>2
<1>6. PICK f : f \in Repetitions(Len(s), A, first, F)
  <2> HIDE DEF F
  <2> QED BY <1>1, <1>3, <1>5, Repeated
<1>7. /\ f \in [0 .. Len(s) -> A] /\ f[0] = first
      /\ \A n \in 1 .. Len(s) : f[n] = F[n][f[n - 1]]
  BY <1>6 DEF Repetitions
<1>8. ASSUME NEW n \in 0 .. Len(s)
      PROVE  f[n] = IF n = 0 THEN first ELSE SearchRound(s, key, f[n - 1])
  <2>1. CASE n = 0
    BY <1>7, <2>1
  <2>2. CASE n # 0
    <3>1. n \in 1 .. Len(s) /\ n - 1 \in 0 .. Len(s)
      BY <1>1, <2>2
    <3>2. f[n - 1] \in A /\ f[n] = F[n][f[n - 1]]
      BY <1>7, <3>1
    <3>3. F[n] = [now \in A |-> SearchRound(s, key, now)]
      BY <3>1
    <3>4. F[n][f[n - 1]] = SearchRound(s, key, f[n - 1])
      BY <3>2, <3>3
    <3> QED BY <2>2, <3>2, <3>4
  <2> QED BY <2>1, <2>2
<1>9. f \in [0 .. Len(s) -> [at : DOMAIN s, step : 0 .. Len(s)]]
  BY <1>4, <1>7
<1>10. f = [n \in 0 .. Len(s) |-> IF n = 0 THEN first ELSE SearchRound(s, key, f[n - 1])]
  BY <1>8, <1>9
<1> QED
  BY <1>9, <1>10 DEF Searches

\* After as many rounds as there are records the step is 0 or the key is found.
LEMMA SearchEnds ==
    ASSUME NEW s \in Seq(Records), NEW key \in Keys, NEW lo, NEW hi, Place(s, key, lo, hi),
           NEW first \in [at : DOMAIN s, step : 0 .. Len(s)], Searching(s, key, lo, hi, first),
           NEW f, f = [n \in 0 .. Len(s) |->
                         IF n = 0 THEN first ELSE SearchRound(s, key, f[n - 1])]
    PROVE  Near(s, key, f[Len(s)].at)
<1> DEFINE S == {n \in 0 .. Len(s) :
                   /\ f[n] \in [at : DOMAIN s, step : 0 .. Len(s)]
                   /\ Searching(s, key, lo, hi, f[n])
                   /\ s[f[n].at].key = key \/ f[n].step <= Len(s) - n}
<1>1. Len(s) \in Nat /\ DOMAIN s = 1 .. Len(s)
  BY ArrayFacts
<1>2. f[0] = first /\ \A n \in 1 .. Len(s) : f[n] = SearchRound(s, key, f[n - 1])
  <2>1. f[0] = first
    BY <1>1
  <2>2. ASSUME NEW n \in 1 .. Len(s)
        PROVE  f[n] = SearchRound(s, key, f[n - 1])
    BY <1>1
  <2> QED BY <2>1, <2>2
<1>3. 0 \in S
  BY <1>1, <1>2
<1>4. ASSUME NEW n \in 1 .. Len(s), n - 1 \in S
      PROVE  n \in S
  <2>1. PICK now \in [at : DOMAIN s, step : 0 .. Len(s)] : now = f[n - 1]
    BY <1>4
  <2>2. /\ Searching(s, key, lo, hi, now)
        /\ s[now.at].key = key \/ now.step <= Len(s) - (n - 1)
    BY <1>4, <2>1
  <2>3. PICK after : after = SearchRound(s, key, now)
    OBVIOUS
  <2>7. f[n] = after
    BY <1>2, <2>1, <2>3
  <2>8. /\ after \in [at : DOMAIN s, step : 0 .. Len(s)]
        /\ Searching(s, key, lo, hi, after)
        /\ s[after.at].key = key \/ after.step = 0 \/ after.step < now.step
    BY <2>2, <2>3, RoundHalves
  <2>4. /\ f[n] \in [at : DOMAIN s, step : 0 .. Len(s)]
        /\ Searching(s, key, lo, hi, f[n])
        /\ s[f[n].at].key = key \/ f[n].step = 0 \/ f[n].step < now.step
    BY <2>7, <2>8, Zenon
  <2>5. CASE s[now.at].key = key
    <3>1. f[n] = now
      BY <2>3, <2>5, <2>7 DEF SearchRound
    <3> QED BY <2>4, <2>5, <3>1
  <2>6. CASE now.step <= Len(s) - (n - 1)
    <3>1. now.step \in Nat /\ f[n].step \in Nat
      BY <2>1, <2>4
    <3>2. s[f[n].at].key = key \/ f[n].step <= Len(s) - n
      BY <1>1, <2>4, <2>6, <3>1
    <3> QED BY <2>4, <3>2
  <2> QED BY <2>2, <2>5, <2>6
<1>5. Len(s) \in S
  <2> HIDE DEF S
  <2>1. \A n \in 0 + 1 .. Len(s) : n - 1 \in S => n \in S
    BY <1>4
  <2>3. 0 \in Int /\ Len(s) \in Int
    BY <1>1
  <2>2. \A n \in 0 .. Len(s) : n \in S
    BY <1>3, <2>1, <2>3, Induction
  <2> QED BY <1>1, <2>2
<1>6. PICK last \in [at : DOMAIN s, step : 0 .. Len(s)] : last = f[Len(s)]
  BY <1>5
<1>7. /\ Searching(s, key, lo, hi, last)
      /\ s[last.at].key = key \/ last.step <= 0
  BY <1>1, <1>5, <1>6
<1>8. CASE s[last.at].key = key
  BY <1>6, <1>8 DEF Near
<1>9. CASE s[last.at].key # key
  <2>1. last.step = 0
    BY <1>7, <1>9
  <2>2. Within(last.at, lo, hi, 0)
    BY <1>7, <1>9, <2>1 DEF Searching, Reach
  <2>3. Near(s, key, last.at)
    BY <2>2, PlaceIsNear
  <2> QED BY <1>6, <2>3
<1> QED
  BY <1>8, <1>9

\* The array of a leaf.
ArrayOK(leaf) ==
    /\ leaf.records \in Seq(Records) /\ leaf.records # << >> /\ Sorted(leaf.records)
    /\ leaf.inserted \in Nat

\* The model of a leaf has a prediction to make for every key.
LEMMA PredictionsExist ==
    ASSUME NEW leaf, ArrayOK(leaf), NEW key \in Keys
    PROVE  Predicted(leaf, key) # {}
<1>1. PICK s \in Seq(Records) : s = leaf.records
  BY DEF ArrayOK
<1>2. PICK b : b = Cardinality({i \in DOMAIN s : s[i].key < key})
  OBVIOUS
<1>3. Below(s, key, b)
  BY <1>1, <1>2, BelowIsCount DEF ArrayOK
<1>4. PICK err \in Nat : err = Error(leaf)
  BY FITingTreeAssumption DEF FITingTreeAssumption, ArrayOK, Error
<1>5. DOMAIN s = 1 .. Len(s) /\ Len(s) \in Nat /\ Len(s) # 0
  <2>1. DOMAIN s = 1 .. Len(s) /\ Len(s) \in Nat
    BY ArrayFacts
  <2>2. s # << >>
    BY <1>1 DEF ArrayOK
  <2> QED BY <2>1, <2>2
<1>6. b \in 0 .. Len(s)
  BY <1>3 DEF Below
<1>7. PICK lo : lo = IF Holds(s, b + 1, key) THEN b + 1 ELSE b
  OBVIOUS
<1>8. lo \in b .. b + 1 /\ (lo = b + 1 => b + 1 \in 1 .. Len(s))
  BY <1>5, <1>6, <1>7 DEF Holds
<1>9. Predicted(leaf, key) = {p \in DOMAIN s : lo <= p + err /\ p <= b + 1 + err}
  BY <1>1, <1>2, <1>4, <1>7 DEF Predicted
<1>10. CASE b = 0
  <2>1. 1 \in DOMAIN s /\ lo <= 1 + err /\ 1 <= b + 1 + err
    BY <1>5, <1>8, <1>10
  <2> QED BY <1>9, <2>1
<1>11. CASE b # 0
  <2>1. CASE lo = b
    <3>1. b \in DOMAIN s /\ lo <= b + err /\ b <= b + 1 + err
      BY <1>5, <1>6, <1>11, <2>1
    <3> QED BY <1>9, <3>1
  <2>2. CASE lo = b + 1
    <3>1. b + 1 \in DOMAIN s /\ lo <= b + 1 + err /\ b + 1 <= b + 1 + err
      BY <1>5, <1>6, <1>8, <2>2
    <3> QED BY <1>9, <3>1
  <2> QED BY <1>6, <1>8, <2>1, <2>2
<1> QED
  BY <1>10, <1>11

\* find_precise_position ends at the key or, when the array does not hold it,
\* next to its place, wherever within the error it began.
LEMMA SearchEndsNear ==
    ASSUME NEW leaf, ArrayOK(leaf), NEW key \in Keys, NEW p \in Predicted(leaf, key)
    PROVE  Near(leaf.records, key, PrecisePosition(leaf, key, p))
<1>1. PICK s \in Seq(Records) : s = leaf.records
  BY DEF ArrayOK
<1>2. PICK b : b = Cardinality({i \in DOMAIN s : s[i].key < key})
  OBVIOUS
<1>3. Below(s, key, b)
  BY <1>1, <1>2, BelowIsCount DEF ArrayOK
<1>4. PICK err \in Nat : err = Error(leaf)
  BY FITingTreeAssumption DEF FITingTreeAssumption, ArrayOK, Error
<1>5. /\ DOMAIN s = 1 .. Len(s) /\ Len(s) \in Nat
      /\ \A j \in 1 .. Len(s) : s[j].key \in Nat
  BY ArrayFacts
<1>6. PICK lo, hi : lo = (IF Holds(s, b + 1, key) THEN b + 1 ELSE b) /\ hi = b + 1
  OBVIOUS
<1>7. Place(s, key, lo, hi)
  BY <1>1, <1>3, <1>6, PlaceExists DEF ArrayOK
<1>8. p \in 1 .. Len(s) /\ lo - p <= err /\ p - hi <= err
  <2>1. Predicted(leaf, key) = {x \in DOMAIN s : lo <= x + err /\ x <= hi + err}
    BY <1>1, <1>2, <1>4, <1>6 DEF Predicted
  <2>2. p \in DOMAIN s /\ lo <= p + err /\ p <= hi + err
    BY <2>1
  <2>3. lo \in Nat /\ hi \in Nat
    BY <1>5, <1>7 DEF Place
  <2> QED BY <1>5, <2>2, <2>3
<1>9. PICK step : step = FirstStep(leaf, key, p)
  OBVIOUS
<1>10. PICK first : first = [at |-> p, step |-> step]
  OBVIOUS
<1>11. step \in 0 .. Len(s) /\ (s[p].key = key \/ Within(p, lo, hi, Reach(step)))
  <2>1. key \in Nat
    BY FITingTreeAssumption DEF FITingTreeAssumption
  <2>2. PICK room : room = Room(s, key, p)
    OBVIOUS
  <2>3. room \in 0 .. Len(s) - 1
    <3>1. p \in 1 .. Len(s) /\ Len(s) \in Nat
      BY <1>5, <1>8
    <3>2. room = p - 1 \/ room = Len(s) - p
      BY <2>2 DEF Room
    <3> QED BY <3>1, <3>2
  <2>4. PICK m : m = IF err < room THEN err ELSE room
    OBVIOUS
  <2>5. step = (m + 2) \div 2
    BY <1>1, <1>4, <1>9, <2>2, <2>4 DEF FirstStep, Smaller
  <2>6. m \in 0 .. Len(s) - 1
    BY <1>4, <2>3, <2>4
  <2>7. step \in 1 .. Len(s) /\ m <= 2 * step - 1
    BY <1>5, <2>5, <2>6
  <2>8. ASSUME s[p].key # key
        PROVE  Within(p, lo, hi, 2 * step - 1)
    <3>1. /\ lo \in 0 .. Len(s) /\ hi \in 1 .. Len(s) + 1 /\ (lo = hi \/ hi = lo + 1)
          /\ lo = hi => p # lo
          /\ s[p].key < key <=> p < hi
          /\ s[p].key > key <=> p > lo
      BY <1>5, <1>7, <1>8, <2>8 DEF Place
    <3>2. lo - p <= m /\ p - hi <= m
      <4>1. CASE s[p].key > key
        <5>1. room = p - 1 /\ p > lo
          BY <2>2, <3>1, <4>1 DEF Room
        <5> QED BY <1>4, <1>5, <1>8, <2>4, <2>6, <3>1, <5>1
      <4>2. CASE ~(s[p].key > key)
        <5>1. room = Len(s) - p /\ p < hi
          <6>1. s[p].key < key
            BY <1>5, <1>8, <2>1, <2>8, <4>2
          <6> QED BY <2>2, <3>1, <4>2, <6>1 DEF Room
        <5>2. p \in Nat /\ lo \in Nat /\ hi \in Nat /\ Len(s) \in Nat /\ lo <= Len(s)
          BY <1>5, <1>8, <3>1
        <5>3. lo - p <= room /\ lo - p <= err /\ p - hi <= 0
          BY <1>8, <5>1, <5>2
        <5> QED BY <1>4, <2>3, <2>4, <5>2, <5>3
      <4> QED BY <4>1, <4>2
    <3> QED BY <1>8, <2>6, <2>7, <3>1, <3>2 DEF Within
  <2>9. Reach(step) = 2 * step - 1
    BY <2>7 DEF Reach
  <2> QED BY <2>7, <2>8, <2>9
<1>12. first \in [at : DOMAIN s, step : 0 .. Len(s)] /\ Searching(s, key, lo, hi, first)
  BY <1>5, <1>8, <1>10, <1>11 DEF Searching
<1> DEFINE IsSearch(f) == f = [n \in 0 .. Len(s) |->
                                 IF n = 0 THEN first ELSE SearchRound(s, key, f[n - 1])]
<1>13. PICK g : IsSearch(g)
  <2>1. PICK g : g \in Searches(s, key, first)
    BY <1>7, <1>12, SearchExists
  <2> QED BY <2>1 DEF Searches
<1>14. PrecisePosition(leaf, key, p) = (CHOOSE f : IsSearch(f))[Len(s)].at
  BY <1>1, <1>9, <1>10 DEF PrecisePosition
<1>15. PICK f : f = CHOOSE x : IsSearch(x)
  OBVIOUS
<1>16. IsSearch(f)
  <2> HIDE DEF IsSearch
  <2> QED BY <1>13, <1>15
<1>17. Near(s, key, f[Len(s)].at)
  BY <1>7, <1>12, <1>16, SearchEnds
<1> QED
  <2> HIDE DEF IsSearch
  <2> QED BY <1>1, <1>14, <1>15, <1>17

-----------------------------------------------------------------------------
(* Leaves.                                                                 *)

Leaf == [records : Seq(Records), inserted : Nat, buffer : Seq(Records)]

Content(leaf) == Range(leaf.records) \cup Range(leaf.buffer)

\* A leaf whose first key is f.
LeafOK(leaf, f) ==
    /\ leaf \in Leaf
    /\ leaf.records # << >> /\ leaf.records[1].key = f
    /\ Sorted(leaf.records) /\ Sorted(leaf.buffer)
    /\ \A r \in Range(leaf.buffer) : f <= r.key
    /\ \A q \in Range(leaf.records), r \in Range(leaf.buffer) : q.key # r.key
    /\ inplace => leaf.buffer = << >>

\* What the conditions on a leaf say, by its records.
LEMMA LeafFacts ==
    ASSUME NEW leaf, NEW f, LeafOK(leaf, f)
    PROVE  /\ ArrayOK(leaf)
           /\ leaf.records \in Seq(Records) /\ leaf.buffer \in Seq(Records)
           /\ Len(leaf.records) \in Nat \ {0} /\ 1 \in DOMAIN leaf.records
           /\ f \in Keys /\ f \in Nat
           /\ \A r \in Content(leaf) : r \in Records /\ f <= r.key
           /\ \E r \in Content(leaf) : r.key = f
<1>1. /\ ArrayOK(leaf)
      /\ leaf.records \in Seq(Records) /\ leaf.buffer \in Seq(Records)
  BY DEF LeafOK, Leaf, ArrayOK
<1>2. PICK s \in Seq(Records) : s = leaf.records
  BY <1>1
<1>3. s # << >> /\ s[1].key = f /\ Sorted(s)
  BY <1>2 DEF LeafOK
<1>4. /\ DOMAIN s = 1 .. Len(s) /\ Len(s) \in Nat
      /\ \A j \in DOMAIN s : s[j] \in Records /\ s[j].key \in Keys /\ s[j].key \in Nat
      /\ \A x : x \in Range(s) <=> \E j \in DOMAIN s : x = s[j]
  BY ArrayFacts
<1>5. 1 \in DOMAIN s /\ Len(s) \in Nat \ {0}
  <2>1. Len(s) # 0
    BY <1>3
  <2> QED BY <1>4, <2>1
<1>6. f \in Keys /\ f \in Nat
  BY <1>3, <1>4, <1>5
<1>7. ASSUME NEW r \in Range(s)
      PROVE  r \in Records /\ f <= r.key
  <2>1. PICK j \in DOMAIN s : r = s[j]
    BY <1>4
  <2>2. 1 < j => s[1].key < s[j].key
    BY <1>3, <1>5 DEF Sorted
  <2> QED BY <1>3, <1>4, <1>6, <2>1, <2>2
<1>8. ASSUME NEW r \in Range(leaf.buffer)
      PROVE  r \in Records /\ f <= r.key
  <2>1. r \in Records
    BY <1>1, ArrayFacts
  <2> QED BY <2>1 DEF LeafOK
<1>9. s[1] \in Range(s)
  BY <1>4, <1>5
<1> QED
  BY <1>1, <1>2, <1>3, <1>5, <1>6, <1>7, <1>8, <1>9 DEF Content

\* An upsert into a leaf, of either kind: its first key stays, its order is
\* kept, and it has the record of the upsert in place of any other of its key.
LEMMA LeafUpserted ==
    ASSUME NEW leaf, NEW f, LeafOK(leaf, f), NEW key \in Keys, NEW payload \in Payloads,
           f <= key, NEW p \in Predicted(leaf, key)
    PROVE  LET t == LeafUpsert(leaf, key, payload, p)
           IN  /\ LeafOK(t, f)
               /\ Content(t) = With(Content(leaf), key, payload)
               /\ IF inplace THEN t.buffer = leaf.buffer
                             ELSE t.inserted = leaf.inserted
<1>1. PICK s \in Seq(Records), b \in Seq(Records), n \in Nat :
         leaf = [records |-> s, inserted |-> n, buffer |-> b]
  BY DEF LeafOK, Leaf
<1>2. s = leaf.records /\ b = leaf.buffer /\ n = leaf.inserted
  BY <1>1
<1>3. PICK t : t = LeafUpsert(leaf, key, payload, p)
  OBVIOUS
<1>4. PICK q : q = PrecisePosition(leaf, key, p)
  OBVIOUS
<1>5. /\ s # << >> /\ s[1].key = f /\ Sorted(s) /\ Sorted(b)
      /\ \A r \in Range(b) : f <= r.key
      /\ \A x \in Range(s), r \in Range(b) : x.key # r.key
      /\ inplace => b = << >>
  BY <1>2 DEF LeafOK
<1>6. Near(s, key, q)
  <2>1. ArrayOK(leaf)
    BY LeafFacts
  <2> QED BY <1>2, <1>4, <2>1, SearchEndsNear
<1>7. /\ DOMAIN s = 1 .. Len(s) /\ Len(s) \in Nat
      /\ \A j \in DOMAIN s : s[j].key \in Nat
      /\ \A x : x \in Range(s) <=> \E j \in DOMAIN s : x = s[j]
  BY ArrayFacts
<1>8. key \in Nat /\ f \in Nat /\ 1 \in DOMAIN s
  <2>1. key \in Nat
    BY FITingTreeAssumption DEF FITingTreeAssumption
  <2> QED BY <1>2, <2>1, LeafFacts
<1>9. /\ Record(key, payload) \in Records
      /\ Record(key, payload).key = key /\ Record(key, payload).payload = payload
  BY RecordFields
<1>10. q \in DOMAIN s
  BY <1>6 DEF Near
<1>11. CASE s[q].key = key
  <2>1. PICK z : z = Replaced(s, q, payload)
    OBVIOUS
  <2>2. /\ z \in Seq(Records) /\ Len(z) = Len(s) /\ Sorted(z)
        /\ Range(z) = With(Range(s), key, payload)
        /\ z[1].key = s[1].key
    <3>1. Sorted(s)
      BY <1>5
    <3>2. q \in DOMAIN s /\ s[q].key = key
      BY <1>10, <1>11
    <3> QED BY <2>1, <3>1, <3>2, PayloadReplaced
  <2>3. t = [leaf EXCEPT !.records[q].payload = payload]
    BY <1>2, <1>3, <1>4, <1>10, <1>11 DEF LeafUpsert, Holds
  <2>4. t = [records |-> z, inserted |-> n, buffer |-> b]
    <3>1. t = [leaf EXCEPT !.records = [leaf.records EXCEPT ![q].payload = payload]]
      BY <2>3
    <3>2. t = [leaf EXCEPT !.records = z]
      BY <1>2, <2>1, <3>1 DEF Replaced
    <3> QED BY <1>1, <3>2
  <2>5. t \in Leaf /\ t.records = z /\ t.buffer = b /\ t.inserted = n
    BY <2>2, <2>4 DEF Leaf
  <2>6. s[q] \in Range(s)
    BY <1>7, <1>10
  <2>7. \A r \in Range(b) : r.key # key
    BY <1>5, <1>11, <2>6
  <2>8. z # << >>
    BY <1>7, <1>8, <2>2
  <2>9. \A x \in Range(z), r \in Range(b) : x.key # r.key
    BY <1>5, <1>9, <2>2, <2>7 DEF With
  <2>10. Content(t) = With(Content(leaf), key, payload)
    BY <1>2, <2>2, <2>5, <2>7 DEF Content, With
  <2>11. LeafOK(t, f)
    BY <1>5, <2>2, <2>5, <2>8, <2>9 DEF LeafOK
  <2> QED BY <1>2, <1>3, <2>5, <2>10, <2>11
<1>12. CASE s[q].key # key
  <2>1. /\ \A i \in DOMAIN s : s[i].key # key
        /\ \A i \in DOMAIN s : i < q => s[i].key < key
        /\ \A i \in DOMAIN s : i > q => s[i].key > key
    BY <1>6, <1>12 DEF Near
  <2>2. \A r \in Range(s) : r.key # key
    BY <1>7, <2>1
  <2>3. CASE inplace
    <3>1. PICK at : at = IF s[q].key < key THEN q + 1 ELSE q
      OBVIOUS
    <3>2. PICK z : z = InsertAt(s, at, Record(key, payload))
      OBVIOUS
    <3>3. at \in 1 .. Len(s) + 1 /\ at > 1
      <4>1. s[1].key < key
        BY <1>5, <1>7, <1>8, <2>1
      <4>2. q = 1 => at = 2
        BY <3>1, <4>1
      <4> QED BY <1>7, <1>10, <3>1, <4>2
    <3>4. \A j \in 1 .. at - 1 : s[j].key < Record(key, payload).key
      <4> TAKE j \in 1 .. at - 1
      <4>1. j \in DOMAIN s
        BY <1>7, <3>3
      <4>2. CASE s[q].key < key
        <5>1. j < q \/ j = q
          BY <1>7, <1>10, <3>1, <4>2
        <5> QED BY <1>9, <2>1, <4>1, <4>2, <5>1
      <4>3. CASE ~(s[q].key < key)
        <5>1. j < q
          BY <1>7, <1>10, <3>1, <4>3
        <5> QED BY <1>9, <2>1, <4>1, <5>1
      <4> QED BY <4>2, <4>3
    <3>5. \A j \in at .. Len(s) : Record(key, payload).key < s[j].key
      <4> TAKE j \in at .. Len(s)
      <4>1. j \in DOMAIN s
        BY <1>7, <3>3
      <4>2. CASE s[q].key < key
        <5>1. j > q
          BY <1>7, <1>10, <3>1, <4>2
        <5> QED BY <1>7, <1>8, <1>9, <2>1, <4>1, <5>1
      <4>3. CASE ~(s[q].key < key)
        <5>1. j > q \/ j = q
          BY <1>7, <1>10, <3>1, <4>3
        <5>2. s[j].key > key
          BY <1>7, <1>8, <2>1, <4>1, <4>3, <5>1
        <5> QED BY <1>7, <1>8, <1>9, <4>1, <5>2
      <4> QED BY <4>2, <4>3
    <3>6. /\ z \in Seq(Records) /\ Len(z) = Len(s) + 1 /\ Sorted(z)
          /\ Range(z) = With(Range(s), key, payload)
          /\ z[1] = s[1]
      <4>1. PICK r \in Records : r = Record(key, payload)
        BY <1>9
      <4>2. r.key = key /\ r.payload = payload /\ z = InsertAt(s, at, r)
        BY <1>9, <3>2, <4>1
      <4>3. /\ \A j \in 1 .. at - 1 : s[j].key < r.key
            /\ \A j \in at .. Len(s) : r.key < s[j].key
        BY <3>4, <3>5, <4>1
      <4>4. Sorted(s) /\ at \in 1 .. Len(s) + 1 /\ at > 1
        BY <1>5, <3>3
      <4>5. /\ z \in Seq(Records) /\ Len(z) = Len(s) + 1 /\ Sorted(z)
            /\ Range(z) = With(Range(s), r.key, r.payload)
            /\ z[1] = s[1]
        BY <4>2, <4>3, <4>4, InsertedInOrder
      <4> QED BY <4>2, <4>5
    <3>7. t = [leaf EXCEPT !.records = z, !.inserted = n + 1]
      BY <1>2, <1>3, <1>4, <1>12, <2>3, <3>1, <3>2 DEF LeafUpsert, Holds
    <3>8. t = [records |-> z, inserted |-> n + 1, buffer |-> b]
      BY <1>1, <3>7
    <3>9. t \in Leaf /\ t.records = z /\ t.buffer = b
      BY <3>6, <3>8 DEF Leaf
    <3>10. Range(b) = {}
      BY <1>5, <2>3 DEF Range
    <3>11. z # << >>
      BY <1>7, <3>6
    <3>12. Content(t) = With(Content(leaf), key, payload)
      BY <1>2, <3>6, <3>9, <3>10 DEF Content
    <3>13. LeafOK(t, f)
      BY <1>5, <3>6, <3>9, <3>10, <3>11 DEF LeafOK
    <3> QED BY <1>2, <1>3, <2>3, <3>9, <3>12, <3>13
  <2>4. CASE ~inplace
    <3>1. PICK z : z = BufferUpsert(b, key, payload)
      OBVIOUS
    <3>2. /\ z \in Seq(Records) /\ Sorted(z)
          /\ Range(z) = With(Range(b), key, payload)
      BY <1>5, <3>1, BufferUpserted
    <3>3. t = [leaf EXCEPT !.buffer = z]
      BY <1>2, <1>3, <1>4, <1>12, <2>4, <3>1 DEF LeafUpsert, Holds
    <3>4. t = [records |-> s, inserted |-> n, buffer |-> z]
      BY <1>1, <3>3
    <3>5. t \in Leaf /\ t.records = s /\ t.buffer = z /\ t.inserted = n
      BY <3>2, <3>4 DEF Leaf
    <3>6. \A r \in Range(z) : f <= r.key
      BY <1>5, <1>9, <3>2 DEF With
    <3>7. \A x \in Range(s), r \in Range(z) : x.key # r.key
      BY <1>5, <1>9, <2>2, <3>2 DEF With
    <3>8. Content(t) = With(Content(leaf), key, payload)
      BY <1>2, <2>2, <3>2, <3>5 DEF Content, With
    <3>9. LeafOK(t, f)
      BY <1>5, <2>4, <3>2, <3>5, <3>6, <3>7 DEF LeafOK
    <3> QED BY <1>2, <1>3, <2>4, <3>5, <3>8, <3>9
  <2> QED BY <2>3, <2>4
<1> QED
  BY <1>11, <1>12

\* A leaf's find returns the payload of the key's record, in the array or in
\* the buffer, and NONE when there is none.
LEMMA LeafFound ==
    ASSUME NEW leaf, NEW f, LeafOK(leaf, f), NEW key \in Keys, NEW p \in Predicted(leaf, key)
    PROVE  /\ \A r \in Content(leaf) : r.key = key => LeafFind(leaf, key, p) = r.payload
           /\ (\A r \in Content(leaf) : r.key # key) => LeafFind(leaf, key, p) = NONE
<1>1. PICK s \in Seq(Records) : s = leaf.records
  BY LeafFacts
<1>2. PICK b \in Seq(Records) : b = leaf.buffer
  BY LeafFacts
<1>3. PICK q : q = PrecisePosition(leaf, key, p)
  OBVIOUS
<1>4. Near(s, key, q)
  <2>1. ArrayOK(leaf)
    BY LeafFacts
  <2> QED BY <1>1, <1>3, <2>1, SearchEndsNear
<1>5. /\ Sorted(s) /\ Sorted(b)
      /\ \A x \in Range(s), r \in Range(b) : x.key # r.key
      /\ inplace => b = << >>
  BY <1>1, <1>2 DEF LeafOK
<1>6. /\ DOMAIN s = 1 .. Len(s) /\ Len(s) \in Nat
      /\ \A j \in DOMAIN s : s[j].key \in Nat
      /\ \A x : x \in Range(s) <=> \E j \in DOMAIN s : x = s[j]
  BY ArrayFacts
<1>7. q \in DOMAIN s
  BY <1>4 DEF Near
<1>8. \A r : r \in Content(leaf) <=> r \in Range(s) \/ r \in Range(b)
  BY <1>1, <1>2 DEF Content
<1>9. CASE s[q].key = key
  <2>1. LeafFind(leaf, key, p) = s[q].payload
    BY <1>1, <1>3, <1>7, <1>9 DEF LeafFind, Holds
  <2>2. s[q] \in Range(s)
    BY <1>6, <1>7
  <2>3. ASSUME NEW r \in Content(leaf), r.key = key
        PROVE  LeafFind(leaf, key, p) = r.payload
    <3>1. r \in Range(s)
      BY <1>5, <1>8, <1>9, <2>2, <2>3
    <3>2. PICK j \in DOMAIN s : r = s[j]
      BY <1>6, <3>1
    <3>3. j <= q /\ q <= j
      BY <1>5, <1>6, <1>7, <1>9, <2>3, <3>2, SortedIsInjective
    <3> QED BY <1>6, <1>7, <2>1, <3>2, <3>3
  <2> QED BY <1>8, <1>9, <2>2, <2>3
<1>10. CASE s[q].key # key
  <2>1. \A r \in Range(s) : r.key # key
    BY <1>4, <1>6, <1>10 DEF Near
  <2>2. LeafFind(leaf, key, p) = IF inplace THEN NONE ELSE BufferFind(b, key)
    BY <1>1, <1>2, <1>3, <1>10 DEF LeafFind, Holds
  <2>3. inplace => Range(b) = {}
    BY <1>5 DEF Range
  <2>4. /\ \A r \in Range(b) : r.key = key => BufferFind(b, key) = r.payload
        /\ (\A r \in Range(b) : r.key # key) => BufferFind(b, key) = NONE
    BY <1>5, BufferFound
  <2> QED BY <1>8, <2>1, <2>2, <2>3, <2>4
<1> QED
  BY <1>9, <1>10

\* One record after the other is inserted at its place.
LEMMA MergeStep ==
    ASSUME NEW s \in Seq(Records), Sorted(s), NEW r \in Records,
           \A q \in Range(s) : q.key # r.key
    PROVE  LET t == InsertAt(s, FirstNotLess(s, r.key), r)
           IN  t \in Seq(Records) /\ Sorted(t) /\ Range(t) = Range(s) \cup {r}
<1>1. PICK i : i = FirstNotLess(s, r.key)
  OBVIOUS
<1>2. r.key \in Nat
  BY RecordFields
<1>3. /\ i \in 1 .. Len(s) + 1
      /\ i \in DOMAIN s => s[i].key >= r.key
      /\ \A j \in 1 .. i - 1 : s[j].key < r.key
  BY <1>1, <1>2, FirstNotLessIsRight
<1>4. /\ DOMAIN s = 1 .. Len(s) /\ Len(s) \in Nat
      /\ \A j \in DOMAIN s : s[j].key \in Nat
      /\ \A x : x \in Range(s) <=> \E j \in DOMAIN s : x = s[j]
  BY ArrayFacts
<1>5. \A j \in i .. Len(s) : r.key < s[j].key
  <2> TAKE j \in i .. Len(s)
  <2>1. i \in DOMAIN s /\ j \in DOMAIN s
    BY <1>3, <1>4
  <2>2. i < j => s[i].key < s[j].key
    BY <2>1 DEF Sorted
  <2>3. s[j].key # r.key
    BY <1>4, <2>1
  <2> QED BY <1>2, <1>3, <1>4, <2>1, <2>2, <2>3
<1>6. PICK t : t = InsertAt(s, i, r)
  OBVIOUS
<1>7. t \in Seq(Records) /\ Sorted(t) /\ Range(t) = Range(s) \cup {r}
  BY <1>3, <1>5, <1>6, InsertedInOrder
<1> QED
  BY <1>1, <1>6, <1>7

\* The same step, for the type alone.
LEMMA MergeType ==
    ASSUME NEW s \in Seq(Records), NEW r \in Records
    PROVE  InsertAt(s, FirstNotLess(s, r.key), r) \in Seq(Records)
<1>1. PICK i : i = FirstNotLess(s, r.key)
  OBVIOUS
<1>2. r.key \in Nat
  BY RecordFields
<1>3. i \in 1 .. Len(s) + 1
  BY <1>1, <1>2, FirstNotLessIsRight
<1>4. PICK t : t = InsertAt(s, i, r)
  OBVIOUS
<1>5. t \in Seq(Records)
  BY <1>3, <1>4, InsertedAt
<1> QED
  BY <1>1, <1>4, <1>5

\* merge_buffer loses no record, repeats none, and leaves them in order.
LEMMA MergedInOrder ==
    ASSUME NEW leaf, NEW f, LeafOK(leaf, f)
    PROVE  LET m == Merged(leaf)
           IN  /\ m \in Seq(Records) /\ m # << >> /\ Sorted(m)
               /\ Range(m) = Content(leaf)
               /\ m[1].key = f
<1>1. PICK s \in Seq(Records) : s = leaf.records
  BY LeafFacts
<1>2. PICK b \in Seq(Records) : b = leaf.buffer
  BY LeafFacts
<1>3. /\ Sorted(s) /\ Sorted(b)
      /\ \A q \in Range(s), r \in Range(b) : q.key # r.key
  BY <1>1, <1>2 DEF LeafOK
<1>4. PICK N \in Nat : N = Len(b)
  OBVIOUS
<1>5. /\ DOMAIN b = 1 .. N
      /\ \A j \in 1 .. N : b[j] \in Records /\ b[j].key \in Nat
      /\ \A x : x \in Range(b) <=> \E j \in 1 .. N : x = b[j]
  <2>1. DOMAIN b = 1 .. Len(b)
    BY ArrayFacts
  <2>2. DOMAIN b = 1 .. N
    BY <1>4, <2>1
  <2> QED BY <2>2, ArrayFacts
<1> DEFINE Step(x, n) == InsertAt(x, FirstNotLess(x, b[n].key), b[n])
           IsMerge(g) == g = [n \in 0 .. N |-> IF n = 0 THEN s ELSE Step(g[n - 1], n)]
           F == [n \in 1 .. N |-> [x \in Seq(Records) |-> Step(x, n)]]
<1>6. \A x \in Seq(Records), n \in 1 .. N : Step(x, n) \in Seq(Records)
  BY <1>5, MergeType
<1>7. PICK g : IsMerge(g)
  <2> HIDE DEF Step
  <2>1. F \in [1 .. N -> [Seq(Records) -> Seq(Records)]]
    BY <1>6
  <2>2. PICK g : g \in Repetitions(N, Seq(Records), s, F)
    <3> HIDE DEF F
    <3> QED BY <2>1, Repeated
  <2>3. /\ g \in [0 .. N -> Seq(Records)] /\ g[0] = s
        /\ \A n \in 1 .. N : g[n] = F[n][g[n - 1]]
    BY <2>2 DEF Repetitions
  <2>4. ASSUME NEW n \in 0 .. N
        PROVE  g[n] = IF n = 0 THEN s ELSE Step(g[n - 1], n)
    <3>1. CASE n = 0
      BY <2>3, <3>1
    <3>2. CASE n # 0
      <4>1. n \in 1 .. N /\ n - 1 \in 0 .. N
        BY <3>2
      <4>2. g[n - 1] \in Seq(Records) /\ g[n] = F[n][g[n - 1]]
        BY <2>3, <4>1
      <4>3. F[n] = [x \in Seq(Records) |-> Step(x, n)]
        BY <4>1
      <4>4. F[n][g[n - 1]] = Step(g[n - 1], n)
        BY <4>2, <4>3
      <4> QED BY <3>2, <4>2, <4>4
    <3> QED BY <3>1, <3>2
  <2>5. g = [n \in 0 .. N |-> g[n]]
    BY <2>3
  <2>6. g = [n \in 0 .. N |-> IF n = 0 THEN s ELSE Step(g[n - 1], n)]
    BY <2>4, <2>5
  <2> QED BY <2>6
<1>8. PICK h : h = CHOOSE x : IsMerge(x)
  OBVIOUS
<1>9. IsMerge(h)
  <2> HIDE DEF IsMerge
  <2> QED BY <1>7, <1>8
<1>10. Merged(leaf) = h[N]
  BY <1>1, <1>2, <1>4, <1>8 DEF Merged
<1> DEFINE S == {n \in 0 .. N : /\ h[n] \in Seq(Records) /\ Sorted(h[n])
                                /\ Range(h[n]) = Range(s) \cup {b[j] : j \in 1 .. n}}
<1>11. h[0] = s /\ \A n \in 1 .. N : h[n] = Step(h[n - 1], n)
  <2> HIDE DEF Step
  <2>1. h[0] = s
    BY <1>9
  <2>2. ASSUME NEW n \in 1 .. N
        PROVE  h[n] = Step(h[n - 1], n)
    <3>1. n \in 0 .. N /\ n # 0
      OBVIOUS
    <3> QED BY <1>9, <3>1
  <2> QED BY <2>1, <2>2
<1>12. 0 \in S
  <2>1. {b[j] : j \in 1 .. 0} = {}
    OBVIOUS
  <2>2. 0 \in 0 .. N
    OBVIOUS
  <2> QED BY <1>3, <1>11, <2>1, <2>2
<1>13. ASSUME NEW n \in 1 .. N, n - 1 \in S
       PROVE  n \in S
  <2>1. PICK x \in Seq(Records) : x = h[n - 1]
    BY <1>13
  <2>2. Sorted(x) /\ Range(x) = Range(s) \cup {b[j] : j \in 1 .. n - 1}
    BY <1>13, <2>1
  <2>3. b[n] \in Records
    BY <1>5
  <2>4. \A q \in Range(x) : q.key # b[n].key
    <3> TAKE q \in Range(x)
    <3>1. CASE q \in Range(s)
      BY <1>3, <1>5, <3>1
    <3>2. CASE q \in {b[j] : j \in 1 .. n - 1}
      <4>1. PICK j \in 1 .. n - 1 : q = b[j]
        BY <3>2
      <4>2. j \in 1 .. N /\ j < n
        OBVIOUS
      <4>3. b[j].key < b[n].key
        BY <1>3, <1>5, <4>2 DEF Sorted
      <4> QED BY <1>5, <4>1, <4>2, <4>3
    <3> QED BY <2>2, <3>1, <3>2
  <2>5. PICK t : t = Step(x, n)
    OBVIOUS
  <2>6. t \in Seq(Records) /\ Sorted(t) /\ Range(t) = Range(x) \cup {b[n]}
    BY <2>2, <2>3, <2>4, <2>5, MergeStep
  <2>7. h[n] = t
    BY <1>11, <2>1, <2>5
  <2>8. {b[j] : j \in 1 .. n} = {b[j] : j \in 1 .. n - 1} \cup {b[n]}
    <3>1. 1 .. n = (1 .. n - 1) \cup {n}
      OBVIOUS
    <3> QED BY <3>1
  <2>9. Range(t) = Range(s) \cup {b[j] : j \in 1 .. n}
    BY <2>2, <2>6, <2>8
  <2> QED BY <2>6, <2>7, <2>9
<1>14. N \in S
  <2> HIDE DEF S
  <2>1. \A n \in 0 + 1 .. N : n - 1 \in S => n \in S
    BY <1>13
  <2>2. 0 \in Int /\ N \in Int
    OBVIOUS
  <2>3. \A n \in 0 .. N : n \in S
    BY <1>12, <2>1, <2>2, Induction
  <2> QED BY <2>3
<1>15. PICK m \in Seq(Records) : m = h[N]
  BY <1>14
<1>16. Sorted(m) /\ Range(m) = Content(leaf)
  <2>1. {b[j] : j \in 1 .. N} = Range(b)
    BY <1>5
  <2> QED BY <1>1, <1>2, <1>14, <1>15, <2>1 DEF Content
<1>17. /\ DOMAIN m = 1 .. Len(m) /\ Len(m) \in Nat
       /\ \A j \in DOMAIN m : m[j].key \in Nat
       /\ \A x : x \in Range(m) <=> \E j \in DOMAIN m : x = m[j]
  BY ArrayFacts
<1>18. /\ f \in Nat
       /\ \A r \in Range(m) : f <= r.key
       /\ \E r \in Range(m) : r.key = f
  BY <1>16, LeafFacts
<1>19. PICK i \in DOMAIN m : m[i].key = f
  BY <1>17, <1>18
<1>20. 1 \in DOMAIN m /\ m # << >>
  BY <1>17, <1>19
<1>21. m[1].key = f
  <2>1. f <= m[1].key
    BY <1>17, <1>18, <1>20
  <2>2. 1 < i => m[1].key < m[i].key
    BY <1>16, <1>20 DEF Sorted
  <2> QED BY <1>17, <1>18, <1>19, <1>20, <2>1, <2>2
<1> QED
  BY <1>10, <1>15, <1>16, <1>20, <1>21

-----------------------------------------------------------------------------
(* The tree of leaves.                                                     *)

\* Leaves by their first keys, whose ranges of keys do not overlap.
Tree(t) ==
    /\ t = [f \in DOMAIN t |-> t[f]]
    /\ DOMAIN t \subseteq Keys
    /\ \A f \in DOMAIN t : LeafOK(t[f], f)
    /\ \A f, g \in DOMAIN t : f < g => \A r \in Content(t[f]) : r.key < g

TreeRecords(t) == UNION {Content(t[f]) : f \in DOMAIN t}

\* A segment of an array ends before the next start.
SegmentEnd(s, starts, i, e) ==
    /\ e \in i .. Len(s)
    /\ e + 1 \in starts \/ e = Len(s)
    /\ \A j \in i + 1 .. e : j \notin starts

\* Every segment ends.
LEMMA SegmentEnds ==
    ASSUME NEW s \in Seq(Records), NEW starts, starts \subseteq DOMAIN s, NEW i \in starts
    PROVE  \E e \in i .. Len(s) : SegmentEnd(s, starts, i, e)
<1> DEFINE T == {e \in i .. Len(s) : e + 1 \in starts \/ e = Len(s)}
<1>1. DOMAIN s = 1 .. Len(s) /\ Len(s) \in Nat
  BY ArrayFacts
<1>2. i \in 1 .. Len(s)
  BY <1>1
<1>3. T \subseteq Nat /\ Len(s) \in T
  BY <1>1, <1>2
<1>4. PICK e \in T : \A x \in T : e <= x
  <2> HIDE DEF T
  <2> QED BY <1>3, Least
<1>5. ASSUME NEW j \in i + 1 .. e, j \in starts
      PROVE  FALSE
  <2>1. e \in i .. Len(s)
    BY <1>4
  <2>2. j - 1 \in i .. Len(s) /\ (j - 1) + 1 = j
    <3>1. PICK n \in Nat : n = Len(s)
      BY <1>1
    <3>2. i \in 1 .. n /\ e \in i .. n
      BY <1>2, <2>1, <3>1
    <3>3. j - 1 \in i .. n /\ (j - 1) + 1 = j
      BY <3>2
    <3> QED BY <3>1, <3>3
  <2>3. j - 1 \in T
    BY <1>5, <2>2
  <2>4. e <= j - 1
    <3> HIDE DEF T
    <3> QED BY <1>4, <2>3
  <2> QED BY <1>2, <2>1, <2>4
<1>6. e \in i .. Len(s) /\ (e + 1 \in starts \/ e = Len(s))
  BY <1>4
<1> QED
  BY <1>5, <1>6 DEF SegmentEnd

\* The leaves made of a sorted array, wherever it is cut.
LEMMA LeavesAreATree ==
    ASSUME NEW s \in Seq(Records), s # << >>, Sorted(s), NEW starts \in Segmentations(s)
    PROVE  LET t == Leaves(s, starts)
           IN  /\ Tree(t)
               /\ TreeRecords(t) = Range(s)
               /\ DOMAIN t \subseteq {r.key : r \in Range(s)}
               /\ s[1].key \in DOMAIN t
               /\ \A f \in DOMAIN t : t[f].inserted = 0 /\ t[f].buffer = << >>
<1>1. /\ DOMAIN s = 1 .. Len(s) /\ Len(s) \in Nat
      /\ \A j \in DOMAIN s : s[j] \in Records /\ s[j].key \in Keys /\ s[j].key \in Nat
      /\ \A x : x \in Range(s) <=> \E j \in DOMAIN s : x = s[j]
  BY ArrayFacts
<1>2. starts \subseteq DOMAIN s /\ 1 \in starts
  BY DEF Segmentations
<1> DEFINE end(i) == CHOOSE e \in i .. Len(s) :
                       /\ e + 1 \in starts \/ e = Len(s)
                       /\ \A j \in i + 1 .. e : j \notin starts
           start(f) == CHOOSE i \in starts : s[i].key = f
           D == {s[i].key : i \in starts}
<1>3. PICK t : t = [f \in D |-> NewLeaf(SubSeq(s, start(f), end(start(f))))]
  OBVIOUS
<1>4. Leaves(s, starts) = t
  BY <1>3 DEF Leaves
<1>5. ASSUME NEW i \in starts
      PROVE  SegmentEnd(s, starts, i, end(i))
  <2>1. \E e \in i .. Len(s) : SegmentEnd(s, starts, i, e)
    BY <1>2, SegmentEnds
  <2>2. end(i) = CHOOSE e \in i .. Len(s) : SegmentEnd(s, starts, i, e)
    <3>1. \A e \in i .. Len(s) :
            SegmentEnd(s, starts, i, e) <=>
              /\ e + 1 \in starts \/ e = Len(s)
              /\ \A j \in i + 1 .. e : j \notin starts
      BY DEF SegmentEnd
    <3> QED BY <3>1, Zenon
  <2> HIDE DEF end
  <2> QED BY <2>1, <2>2
<1>6. ASSUME NEW f \in D
      PROVE  start(f) \in starts /\ s[start(f)].key = f
  <2>1. \E i \in starts : s[i].key = f
    OBVIOUS
  <2> QED BY <2>1
<1> HIDE DEF end, start
<1>7. ASSUME NEW f \in D
      PROVE  \E i \in starts, e \in DOMAIN s :
                /\ s[i].key = f /\ i <= e
                /\ SegmentEnd(s, starts, i, e)
                /\ t[f] = NewLeaf(SubSeq(s, i, e))
  <2>1. PICK i \in starts : i = start(f)
    BY <1>6
  <2>2. PICK e : e = end(i)
    OBVIOUS
  <2>3. s[i].key = f
    BY <1>6, <2>1
  <2>4. SegmentEnd(s, starts, i, e)
    BY <1>5, <2>2
  <2>5. t[f] = NewLeaf(SubSeq(s, i, e))
    BY <1>3, <2>1, <2>2, SMTT(30)
  <2>6. i \in 1 .. Len(s) /\ e \in i .. Len(s)
    BY <1>1, <1>2, <2>4 DEF SegmentEnd
  <2>7. e \in DOMAIN s /\ i <= e
    BY <1>1, <2>6
  <2> QED BY <2>3, <2>4, <2>5, <2>7
<1>8. DOMAIN t = D
  BY <1>3
<1> DEFINE Cut(f, i, e) ==
             /\ i \in starts /\ e \in DOMAIN s /\ i <= e /\ s[i].key = f
             /\ SegmentEnd(s, starts, i, e)
             /\ LeafOK(t[f], f) /\ t[f].inserted = 0 /\ t[f].buffer = << >>
             /\ \A r : r \in Content(t[f]) <=> \E j \in i .. e : r = s[j]
<1>9. ASSUME NEW f \in D
      PROVE  \E i, e : Cut(f, i, e)
  <2>1. PICK i \in starts, e \in DOMAIN s :
            /\ s[i].key = f /\ i <= e
            /\ SegmentEnd(s, starts, i, e)
            /\ t[f] = NewLeaf(SubSeq(s, i, e))
    BY <1>7
  <2>2. PICK z : z = SubSeq(s, i, e)
    OBVIOUS
  <2>3. i \in 1 .. Len(s) /\ e \in 1 .. Len(s)
    BY <1>1, <1>2
  <2>4. /\ z \in Seq(Records) /\ Len(z) = e - i + 1
        /\ \A j \in 1 .. e - i + 1 : z[j] = s[i + j - 1]
    <3>1. \A j \in i .. e : s[j] \in Records
      BY <1>1, <2>3
    <3>2. i \in Int /\ e \in Int
      BY <2>3
    <3> QED BY <2>1, <2>2, <2>3, <3>1, <3>2, SubSeqProperties
  <2>5. DOMAIN z = 1 .. e - i + 1 /\ z # << >>
    BY <2>1, <2>3, <2>4
  <2>6. Sorted(z)
    <3>1. ASSUME NEW j \in DOMAIN z, NEW k \in DOMAIN z, j < k
          PROVE  z[j].key < z[k].key
      <4>1. /\ i + j - 1 \in DOMAIN s /\ i + k - 1 \in DOMAIN s
            /\ i + j - 1 < i + k - 1
        BY <1>1, <2>3, <2>5, <3>1
      <4>2. s[i + j - 1].key < s[i + k - 1].key
        BY <4>1 DEF Sorted
      <4> QED BY <2>4, <2>5, <4>2
    <3> QED BY <3>1 DEF Sorted
  <2>7. \A r : r \in Range(z) <=> \E j \in i .. e : r = s[j]
    <3>1. \A r : r \in Range(z) <=> \E j \in DOMAIN z : r = z[j]
      BY <2>4, ArrayFacts
    <3>2. \A j \in DOMAIN z : z[j] = s[i + j - 1] /\ i + j - 1 \in i .. e
      BY <2>3, <2>4, <2>5
    <3>3. \A j \in i .. e : j - i + 1 \in DOMAIN z /\ i + (j - i + 1) - 1 = j
      BY <2>3, <2>5
    <3>4. \A j \in i .. e : s[j] = z[j - i + 1]
      BY <3>2, <3>3
    <3> QED BY <3>1, <3>2, <3>3, <3>4
  <2>8. t[f] = [records |-> z, inserted |-> 0, buffer |-> << >>]
    BY <2>1, <2>2 DEF NewLeaf
  <2>9. t[f] \in Leaf /\ t[f].records = z /\ t[f].buffer = << >> /\ t[f].inserted = 0
    <3>1. << >> \in Seq(Records)
      OBVIOUS
    <3> QED BY <2>4, <2>8, <3>1 DEF Leaf
  <2>10. z[1].key = f
    <3>1. 1 \in 1 .. e - i + 1 /\ i + 1 - 1 = i
      BY <2>1, <2>3
    <3> QED BY <2>1, <2>4, <3>1
  <2>11. Range(<< >>) = {} /\ Sorted(<< >>)
    BY DEF Range, Sorted
  <2>12. LeafOK(t[f], f)
    BY <2>5, <2>6, <2>9, <2>10, <2>11 DEF LeafOK
  <2>13. \A r : r \in Content(t[f]) <=> \E j \in i .. e : r = s[j]
    BY <2>7, <2>9, <2>11 DEF Content
  <2>14. Cut(f, i, e)
    BY <2>1, <2>9, <2>12, <2>13
  <2> QED BY <2>14
<1> HIDE DEF D
<1>10. D \subseteq Keys /\ D \subseteq {r.key : r \in Range(s)} /\ s[1].key \in D
  <2>1. \A i \in starts : s[i].key \in Keys /\ s[i] \in Range(s)
    BY <1>1, <1>2
  <2> QED BY <1>2, <2>1 DEF D
<1>11. ASSUME NEW f \in D, NEW g \in D, f < g, NEW r \in Content(t[f])
       PROVE  r.key < g
  <2>1. PICK i, e : Cut(f, i, e)
    BY <1>9
  <2>2. PICK k, l : Cut(g, k, l)
    BY <1>9
  <2>3. i \in DOMAIN s /\ k \in DOMAIN s /\ e \in DOMAIN s
    BY <1>2, <2>1, <2>2
  <2>4. i < k
    <3>1. ~(k <= i)
      <4>1. k < i => s[k].key < s[i].key
        BY <2>3 DEF Sorted
      <4> QED BY <1>1, <1>11, <2>1, <2>2, <2>3, <4>1
    <3> QED BY <1>1, <2>3, <3>1
  <2>5. e < k
    <3>1. k \in starts /\ \A j \in i + 1 .. e : j \notin starts
      BY <2>1, <2>2 DEF SegmentEnd
    <3>2. k \notin i + 1 .. e
      BY <3>1
    <3> QED BY <1>1, <2>3, <2>4, <3>2
  <2>6. PICK j \in i .. e : r = s[j]
    BY <2>1
  <2>7. j \in DOMAIN s /\ j < k
    BY <1>1, <2>3, <2>5
  <2>8. s[j].key < s[k].key
    BY <2>3, <2>7 DEF Sorted
  <2> QED BY <2>2, <2>6, <2>8
<1>12. ASSUME NEW f \in D, NEW r \in Content(t[f])
       PROVE  r \in Range(s)
  <2>1. PICK i, e : Cut(f, i, e)
    BY <1>9
  <2>2. PICK j \in i .. e : r = s[j]
    BY <2>1
  <2>3. i \in DOMAIN s /\ e \in DOMAIN s
    BY <1>2, <2>1
  <2>4. j \in DOMAIN s
    BY <1>1, <2>3
  <2> QED BY <1>1, <2>2, <2>4
<1>13. ASSUME NEW r \in Range(s)
       PROVE  \E f \in D : r \in Content(t[f])
  <2>1. PICK n \in DOMAIN s : r = s[n]
    BY <1>1
  <2> DEFINE T == {n - i : i \in {x \in starts : x <= n}}
  <2>2. n \in 1 .. Len(s) /\ starts \subseteq 1 .. Len(s)
    BY <1>1, <1>2
  <2>3. T \subseteq Nat /\ n - 1 \in T
    BY <1>2, <2>2
  <2>4. PICK d \in T : \A x \in T : d <= x
    <3> HIDE DEF T
    <3> QED BY <2>3, Least
  <2>5. PICK a \in starts : a <= n /\ d = n - a
    BY <2>4
  <2>6. \A x \in starts : x <= n => x <= a
    <3> TAKE x \in starts
    <3>1. x <= n => n - x \in T
      OBVIOUS
    <3>2. x <= n => d <= n - x
      <4> HIDE DEF T
      <4> QED BY <2>4, <3>1
    <3> QED BY <2>2, <2>5, <3>2
  <2>7. PICK f \in D : f = s[a].key
    BY DEF D
  <2>8. PICK i, e : Cut(f, i, e)
    BY <1>9
  <2>9. a \in DOMAIN s /\ i \in DOMAIN s /\ e \in DOMAIN s
    BY <1>2, <2>8
  <2>10. i = a
    <3>1. s[i].key = s[a].key
      BY <2>7, <2>8
    <3>2. i <= a /\ a <= i
      BY <1>1, <2>9, <3>1, SortedIsInjective
    <3> QED BY <1>1, <2>9, <3>2
  <2>11. n <= e
    <3>1. e + 1 \in starts \/ e = Len(s)
      BY <2>8 DEF SegmentEnd
    <3>2. CASE e = Len(s)
      BY <2>2, <3>2
    <3>3. CASE e + 1 \in starts
      <4>1. a <= e
        BY <2>8, <2>10
      <4>2. e + 1 <= n => e + 1 <= a
        BY <2>6, <3>3
      <4> QED BY <1>1, <2>2, <2>9, <4>1, <4>2
    <3> QED BY <3>1, <3>2, <3>3
  <2>12. n \in i .. e
    BY <1>1, <2>2, <2>5, <2>9, <2>10, <2>11
  <2>13. r \in Content(t[f])
    BY <2>1, <2>8, <2>12
  <2> QED BY <2>13
<1>14. \A f \in D : LeafOK(t[f], f) /\ t[f].inserted = 0 /\ t[f].buffer = << >>
  BY <1>9
<1>15. t = [f \in DOMAIN t |-> t[f]]
  BY <1>3
<1> HIDE DEF Cut
<1>16. Tree(t)
  BY <1>8, <1>10, <1>11, <1>14, <1>15 DEF Tree
<1>17. TreeRecords(t) = Range(s)
  BY <1>8, <1>12, <1>13 DEF TreeRecords
<1> QED
  BY <1>4, <1>8, <1>10, <1>14, <1>16, <1>17

\* What the conditions on a tree say, leaf by leaf.
LEMMA TreeFacts ==
    ASSUME NEW t, Tree(t)
    PROVE  /\ \A f \in DOMAIN t : f \in Keys /\ f \in Nat /\ LeafOK(t[f], f)
           /\ \A f \in DOMAIN t : \A r \in Content(t[f]) :
                 r \in Records /\ r.key \in Nat /\ f <= r.key /\ r \in TreeRecords(t)
           /\ \A r \in TreeRecords(t) : \E f \in DOMAIN t : r \in Content(t[f])
           /\ \A f, g \in DOMAIN t : f < g => \A r \in Content(t[f]) : r.key < g
<1>1. ASSUME NEW f \in DOMAIN t
      PROVE  f \in Keys /\ f \in Nat /\ LeafOK(t[f], f)
  <2>1. f \in Keys /\ LeafOK(t[f], f)
    BY DEF Tree
  <2> QED BY <2>1, FITingTreeAssumption DEF FITingTreeAssumption
<1>2. ASSUME NEW f \in DOMAIN t, NEW r \in Content(t[f])
      PROVE  r \in Records /\ r.key \in Nat /\ f <= r.key /\ r \in TreeRecords(t)
  <2>1. r \in Records /\ f <= r.key
    BY <1>1, LeafFacts
  <2>2. r.key \in Nat
    BY <2>1, RecordFields
  <2>3. r \in TreeRecords(t)
    BY DEF TreeRecords
  <2> QED BY <2>1, <2>2, <2>3
<1>3. \A r \in TreeRecords(t) : \E f \in DOMAIN t : r \in Content(t[f])
  BY DEF TreeRecords
<1>4. \A f, g \in DOMAIN t : f < g => \A r \in Content(t[f]) : r.key < g
  BY DEF Tree
<1> QED
  BY <1>1, <1>2, <1>3, <1>4

\* upper_bound finds a leaf for every key that is not below the first one.
LastUpTo(D, key, f) ==
    f \in D /\ f <= key /\ \A g \in D : g <= key => g <= f

\* For a key that is not below the first leaf, --upper_bound is a leaf: the last
\* one whose first key is not above it.
LEMMA LeafOfKey ==
    ASSUME Tree(btree), NEW key \in Keys, NEW first \in DOMAIN btree, first <= key
    PROVE  LastUpTo(DOMAIN btree, key, LeafOf(key))
<1> DEFINE T == {key - f : f \in {x \in DOMAIN btree : x <= key}}
<1>1. key \in Nat /\ DOMAIN btree \subseteq Nat
  <2>1. key \in Nat
    BY FITingTreeAssumption DEF FITingTreeAssumption
  <2> QED BY <2>1, TreeFacts
<1>2. T \subseteq Nat /\ key - first \in T
  BY <1>1
<1>3. PICK d \in T : \A x \in T : d <= x
  <2> HIDE DEF T
  <2> QED BY <1>2, Least
<1>4. PICK f \in DOMAIN btree : f <= key /\ d = key - f
  BY <1>3
<1>5. \A g \in DOMAIN btree : g <= key => g <= f
  <2> TAKE g \in DOMAIN btree
  <2>1. g <= key => key - g \in T
    OBVIOUS
  <2>2. g <= key => d <= key - g
    <3> HIDE DEF T
    <3> QED BY <1>3, <2>1
  <2> QED BY <1>1, <1>4, <2>2
<1>6. \E x \in DOMAIN btree : x <= key /\ \A g \in DOMAIN btree : g <= key => g <= x
  BY <1>4, <1>5
<1>7. LeafOf(key) = CHOOSE x \in DOMAIN btree :
                       x <= key /\ \A g \in DOMAIN btree : g <= key => g <= x
  BY DEF LeafOf
<1> QED
  BY <1>6, <1>7, Zenon DEF LastUpTo

\* Only that leaf can hold the key.
LEMMA KeyIsInItsLeaf ==
    ASSUME NEW t, Tree(t), NEW f, NEW key \in Keys, LastUpTo(DOMAIN t, key, f),
           NEW g \in DOMAIN t, NEW r \in Content(t[g]), r.key = key
    PROVE  g = f
<1>1. f \in DOMAIN t /\ f <= key /\ (g <= key => g <= f)
  BY DEF LastUpTo
<1>2. f \in Nat /\ g \in Nat /\ key \in Nat /\ g <= key
  BY <1>1, TreeFacts
<1>3. g < f => r.key < f
  BY <1>1, TreeFacts
<1> QED
  BY <1>1, <1>2, <1>3

\* Two trees whose ranges do not overlap.
Apart(t, u) ==
    \A f \in DOMAIN t, g \in DOMAIN u :
        /\ f # g
        /\ f < g => \A r \in Content(t[f]) : r.key < g
        /\ g < f => \A r \in Content(u[g]) : r.key < f

\* Leaves inserted between the leaves of a tree.
LEMMA Joined ==
    ASSUME NEW t, Tree(t), NEW u, Tree(u), Apart(t, u)
    PROVE  LET v == Inserted(u, t)
           IN  /\ Tree(v)
               /\ DOMAIN v = DOMAIN t \cup DOMAIN u
               /\ \A f \in DOMAIN t : v[f] = t[f]
               /\ \A f \in DOMAIN u : v[f] = u[f]
               /\ TreeRecords(v) = TreeRecords(t) \cup TreeRecords(u)
<1>1. PICK v : v = [f \in DOMAIN t \cup DOMAIN u |-> IF f \in DOMAIN t THEN t[f] ELSE u[f]]
  OBVIOUS
<1>2. Inserted(u, t) = v
  BY <1>1 DEF Inserted
<1>3. /\ DOMAIN v = DOMAIN t \cup DOMAIN u
      /\ \A f \in DOMAIN t : v[f] = t[f]
      /\ v = [f \in DOMAIN v |-> v[f]]
  BY <1>1
<1>4. \A f \in DOMAIN u : v[f] = u[f]
  BY <1>1 DEF Apart
<1>5. DOMAIN v \subseteq Keys /\ \A f \in DOMAIN v : LeafOK(v[f], f)
  BY <1>3, <1>4 DEF Tree
<1>6. ASSUME NEW f \in DOMAIN v, NEW g \in DOMAIN v, f < g, NEW r \in Content(v[f])
      PROVE  r.key < g
  <2>1. CASE f \in DOMAIN t /\ g \in DOMAIN t
    BY <1>3, <1>6, <2>1, TreeFacts
  <2>2. CASE f \in DOMAIN u /\ g \in DOMAIN u
    BY <1>4, <1>6, <2>2, TreeFacts
  <2>3. CASE f \in DOMAIN t /\ g \in DOMAIN u
    BY <1>3, <1>6, <2>3 DEF Apart
  <2>4. CASE f \in DOMAIN u /\ g \in DOMAIN t
    BY <1>4, <1>6, <2>4 DEF Apart
  <2> QED BY <1>3, <2>1, <2>2, <2>3, <2>4
<1>7. Tree(v)
  BY <1>3, <1>5, <1>6 DEF Tree
<1>8. TreeRecords(v) = TreeRecords(t) \cup TreeRecords(u)
  BY <1>3, <1>4 DEF TreeRecords
<1> QED
  BY <1>2, <1>3, <1>4, <1>7, <1>8

Without(t, f) == [g \in DOMAIN t \ {f} |-> t[g]]

\* A leaf is replaced by the leaves made of its records and an upserted one.
IsReplaced(v, t, f, u, key, payload) ==
    /\ Tree(v)
    /\ DOMAIN v = DOMAIN t \cup DOMAIN u
    /\ \A g \in DOMAIN t \ {f} : v[g] = t[g]
    /\ \A g \in DOMAIN u : v[g] = u[g]
    /\ TreeRecords(v) = With(TreeRecords(t), key, payload)

\* A leaf that is erased and replaced by the leaves made of its records and an
\* upserted one: the other leaves keep theirs, and the tree has the record of
\* the upsert in place of any other of its key.
LEMMA LeafReplaced ==
    ASSUME NEW t, Tree(t), NEW key \in Keys, NEW payload \in Payloads,
           NEW f, LastUpTo(DOMAIN t, key, f),
           NEW u, Tree(u), TreeRecords(u) = With(Content(t[f]), key, payload),
           \A x \in DOMAIN u : \E r \in With(Content(t[f]), key, payload) : x = r.key,
           f \in DOMAIN u,
           NEW v, v = Inserted(u, Without(t, f))
    PROVE  IsReplaced(v, t, f, u, key, payload)
<1>1. PICK o : o = Without(t, f)
  OBVIOUS
<1>2. DOMAIN o = DOMAIN t \ {f} /\ \A g \in DOMAIN t \ {f} : o[g] = t[g]
  BY <1>1 DEF Without
<1>3. f \in DOMAIN t /\ f <= key /\ \A g \in DOMAIN t : g <= key => g <= f
  BY DEF LastUpTo
<1>4. /\ \A g \in DOMAIN t : g \in Keys /\ g \in Nat /\ LeafOK(t[g], g)
      /\ \A g \in DOMAIN t : \A r \in Content(t[g]) :
            r \in Records /\ r.key \in Nat /\ g <= r.key
      /\ \A g, h \in DOMAIN t : g < h => \A r \in Content(t[g]) : r.key < h
  BY TreeFacts
<1>5. key \in Nat /\ f \in Nat
  BY <1>3, <1>4, FITingTreeAssumption DEF FITingTreeAssumption
<1>6. Tree(o)
  <2>1. o = [g \in DOMAIN o |-> o[g]]
    BY <1>1 DEF Without
  <2> QED BY <1>2, <1>4, <2>1 DEF Tree
<1>7. /\ Record(key, payload).key = key
      /\ \A x : x \in With(Content(t[f]), key, payload) =>
            x = Record(key, payload) \/ x \in Content(t[f])
  <2>1. Record(key, payload).key = key
    BY RecordFields
  <2> QED BY <2>1 DEF With
<1>8. \A x \in With(Content(t[f]), key, payload) :
         /\ x.key \in Nat /\ f <= x.key
         /\ \A g \in DOMAIN t : f < g => x.key < g
  <2> TAKE x \in With(Content(t[f]), key, payload)
  <2>1. CASE x = Record(key, payload)
    <3>1. x.key = key
      BY <1>7, <2>1
    <3>2. \A g \in DOMAIN t : f < g => key < g
      BY <1>3, <1>4, <1>5
    <3> QED BY <1>3, <1>5, <3>1, <3>2
  <2>2. CASE x \in Content(t[f])
    BY <1>3, <1>4, <2>2
  <2> QED BY <1>7, <2>1, <2>2
<1>9. \A g \in DOMAIN u : g \in Nat /\ f <= g /\ \A h \in DOMAIN t : f < h => g < h
  BY <1>8
<1>10. Apart(o, u)
  <2> SUFFICES ASSUME NEW g \in DOMAIN t \ {f}, NEW h \in DOMAIN u
               PROVE  /\ g # h
                      /\ g < h => \A r \in Content(t[g]) : r.key < h
                      /\ h < g => \A r \in Content(u[h]) : r.key < g
    BY <1>2 DEF Apart
  <2>1. h \in Nat /\ f <= h /\ (f < g => h < g)
    BY <1>9
  <2>2. g \in Nat /\ g # f
    BY <1>4
  <2>3. g # h
    BY <1>5, <2>1, <2>2
  <2>4. ASSUME g < h, NEW r \in Content(t[g])
        PROVE  r.key < h
    <3>1. g < f
      BY <1>5, <2>1, <2>2, <2>4
    <3>2. r.key < f /\ r.key \in Nat
      BY <1>3, <1>4, <2>4, <3>1
    <3> QED BY <1>5, <2>1, <3>2
  <2>5. ASSUME h < g, NEW r \in Content(u[h])
        PROVE  r.key < g
    <3>1. f < g
      BY <1>5, <2>1, <2>2, <2>5
    <3>2. r \in With(Content(t[f]), key, payload)
      BY <2>5 DEF TreeRecords
    <3> QED BY <1>8, <3>1, <3>2
  <2> QED BY <2>3, <2>4, <2>5
<1>11. v = Inserted(u, o)
  BY <1>1
<1>12. /\ Tree(v)
       /\ DOMAIN v = DOMAIN o \cup DOMAIN u
       /\ \A g \in DOMAIN o : v[g] = o[g]
       /\ \A g \in DOMAIN u : v[g] = u[g]
       /\ TreeRecords(v) = TreeRecords(o) \cup TreeRecords(u)
  <2>1. Tree(Inserted(u, o)) /\ TreeRecords(Inserted(u, o)) = TreeRecords(o) \cup TreeRecords(u)
    BY <1>6, <1>10, Joined
  <2>2. /\ DOMAIN v = DOMAIN o \cup DOMAIN u
        /\ \A g \in DOMAIN o : v[g] = o[g]
        /\ \A g \in DOMAIN u : v[g] = u[g]
    BY <1>10, <1>11 DEF Inserted, Apart
  <2> QED BY <1>11, <2>1, <2>2
<1>13. DOMAIN v = DOMAIN t \cup DOMAIN u
  BY <1>2, <1>12
<1>14. TreeRecords(v) = With(TreeRecords(t), key, payload)
  <2>1. TreeRecords(t) = TreeRecords(o) \cup Content(t[f])
    BY <1>2, <1>3 DEF TreeRecords
  <2>2. \A r \in TreeRecords(o) : r.key # key
    <3> TAKE r \in TreeRecords(o)
    <3>1. PICK g \in DOMAIN t \ {f} : r \in Content(t[g])
      BY <1>2 DEF TreeRecords
    <3> QED BY <3>1, KeyIsInItsLeaf
  <2> QED BY <1>12, <2>1, <2>2 DEF With
<1> QED
  BY <1>2, <1>12, <1>13, <1>14 DEF IsReplaced

-----------------------------------------------------------------------------
(* The invariant.                                                          *)

(* What may be read past the end of the right buffer's keys and becomes    *)
(* the new max_key: the bits of any payload.                               *)
PastEnd == Range(AsKey)

LEMMA PastEndIsNat ==
    /\ PastEnd \subseteq Nat
    /\ \A p \in Payloads : AsKey[p] \in PastEnd
  BY FITingTreeAssumption DEF FITingTreeAssumption, PastEnd, Range

AllRecords == TreeRecords(btree) \cup Range(left_buffer) \cup Range(right_buffer)

LastUpserts == {Record(k, upserted[k]) : k \in {x \in Keys : upserted[x] # NONE}}

(* The leaves are between min_key, which is the first key of the first     *)
(* one, and max_key.                                                       *)
TreeInv ==
    /\ inplace \in BOOLEAN
    /\ min_key \in Keys /\ max_key \in Keys \cup PastEnd
    /\ Tree(btree)
    /\ min_key \in DOMAIN btree
    /\ \A f \in DOMAIN btree :
          min_key <= f /\ btree[f].inserted < RESERVE /\ Len(btree[f].buffer) < RESERVE
    /\ \A r \in TreeRecords(btree) : r.key <= max_key

(* The buffers hold the records on either side of the tree. *)
BufferInv ==
    /\ left_buffer \in Seq(Records) /\ Sorted(left_buffer) /\ Len(left_buffer) < RESERVE
    /\ \A r \in Range(left_buffer) : r.key < min_key
    /\ right_buffer \in Seq(Records) /\ Sorted(right_buffer) /\ Len(right_buffer) < RESERVE
    /\ \A r \in Range(right_buffer) : r.key > max_key

(* Together they hold the last upsert of every key, and nothing else. *)
RecordInv ==
    /\ upserted \in [Keys -> Payloads \cup {NONE}]
    /\ AllRecords = LastUpserts

IInv == TreeInv /\ BufferInv /\ RecordInv

\* The records of the tree are between min_key and max_key.
LEMMA Bounds ==
    ASSUME TreeInv
    PROVE  /\ min_key \in Nat /\ max_key \in Nat /\ min_key <= max_key
           /\ RESERVE \in Nat \ {0}
           /\ \A r \in TreeRecords(btree) :
                 r \in Records /\ r.key \in Nat /\ min_key <= r.key /\ r.key <= max_key
<1>1. /\ Keys \subseteq Nat /\ PastEnd \subseteq Nat /\ RESERVE \in Nat \ {0}
  BY FITingTreeAssumption, PastEndIsNat DEF FITingTreeAssumption
<1>2. min_key \in Nat /\ max_key \in Nat
  BY <1>1 DEF TreeInv
<1>3. Tree(btree) /\ min_key \in DOMAIN btree
  BY DEF TreeInv
<1>4. ASSUME NEW r \in TreeRecords(btree)
      PROVE  r \in Records /\ r.key \in Nat /\ min_key <= r.key /\ r.key <= max_key
  <2>1. PICK f \in DOMAIN btree : r \in Content(btree[f])
    BY <1>3, TreeFacts
  <2>2. r \in Records /\ r.key \in Nat /\ f \in Nat /\ f <= r.key
    BY <1>3, <2>1, TreeFacts
  <2>3. min_key <= f /\ r.key <= max_key
    BY DEF TreeInv
  <2> QED BY <1>2, <2>2, <2>3
<1>5. min_key <= max_key
  <2>1. \E r \in Content(btree[min_key]) : r.key = min_key
    <3>1. LeafOK(btree[min_key], min_key)
      BY <1>3, TreeFacts
    <3> QED BY <3>1, LeafFacts
  <2>2. PICK r \in TreeRecords(btree) : r.key = min_key
    BY <1>3, <2>1 DEF TreeRecords
  <2> QED BY <1>4, <2>2
<1> QED
  BY <1>1, <1>2, <1>4, <1>5

\* An upsert changes the last upserts as it changes the records.
LEMMA LastUpsertsChange ==
    ASSUME upserted \in [Keys -> Payloads \cup {NONE}],
           NEW key \in Keys, NEW payload \in Payloads, Upserted(key, payload)
    PROVE  /\ upserted' \in [Keys -> Payloads \cup {NONE}]
           /\ LastUpserts' = With(LastUpserts, key, payload)
<1>1. PICK u : u = upserted'
  OBVIOUS
<1>2. u = [upserted EXCEPT ![key] = payload]
  BY <1>1 DEF Upserted
<1>3. u \in [Keys -> Payloads \cup {NONE}]
  BY <1>2
<1>4. u[key] = payload /\ \A k \in Keys : k # key => u[k] = upserted[k]
  BY <1>2
<1>5. payload # NONE
  BY FITingTreeAssumption DEF FITingTreeAssumption
<1>6. \A k \in Keys, p \in Payloads : Record(k, p).key = k
  BY RecordFields
<1>7. \A k \in Keys : upserted[k] # NONE => upserted[k] \in Payloads
  OBVIOUS
<1> DEFINE Upserts == {Record(k, u[k]) : k \in {x \in Keys : u[x] # NONE}}
<1>8. LastUpserts' = Upserts
  BY <1>1 DEF LastUpserts
<1>9. Upserts = With(LastUpserts, key, payload)
  <2>1. ASSUME NEW r \in Upserts
        PROVE  r \in With(LastUpserts, key, payload)
    <3>1. PICK k \in Keys : u[k] # NONE /\ r = Record(k, u[k])
      BY <2>1
    <3>2. CASE k = key
      BY <1>4, <3>1, <3>2 DEF With
    <3>3. CASE k # key
      <4>1. upserted[k] # NONE /\ r = Record(k, upserted[k])
        BY <1>4, <3>1, <3>3
      <4>2. r \in LastUpserts
        BY <4>1 DEF LastUpserts
      <4>3. r.key = k
        BY <1>6, <1>7, <4>1
      <4> QED BY <3>3, <4>2, <4>3 DEF With
    <3> QED BY <3>2, <3>3
  <2>2. ASSUME NEW r \in With(LastUpserts, key, payload)
        PROVE  r \in Upserts
    <3>1. CASE r = Record(key, payload)
      BY <1>4, <1>5, <3>1
    <3>2. CASE r \in LastUpserts /\ r.key # key
      <4>1. PICK k \in Keys : upserted[k] # NONE /\ r = Record(k, upserted[k])
        BY <3>2 DEF LastUpserts
      <4>2. r.key = k
        BY <1>6, <1>7, <4>1
      <4>3. u[k] = upserted[k]
        BY <1>4, <3>2, <4>2
      <4> QED BY <4>1, <4>3
    <3> QED BY <2>2, <3>1, <3>2 DEF With
  <2> QED BY <2>1, <2>2
<1> QED
  BY <1>1, <1>3, <1>8, <1>9

\* The records the index is built from.
LEMMA LoadedInOrder ==
    /\ LoadedRecords \in Seq(Records) /\ LoadedRecords # << >> /\ Sorted(LoadedRecords)
    /\ Len(LoadedRecords) = Len(Loaded)
    /\ \A i \in 1 .. Len(Loaded) : LoadedRecords[i] = Record(Loaded[i], LoadedWith)
    /\ Len(Loaded) \in Nat \ {0} /\ \A i \in 1 .. Len(Loaded) : Loaded[i] \in Keys
<1>1. /\ Loaded \in Seq(Keys) /\ Loaded # << >> /\ LoadedWith \in Payloads
      /\ \A i, j \in DOMAIN Loaded : i < j => Loaded[i] < Loaded[j]
  BY FITingTreeAssumption DEF FITingTreeAssumption
<1>2. /\ Len(Loaded) \in Nat \ {0} /\ DOMAIN Loaded = 1 .. Len(Loaded)
      /\ \A i \in 1 .. Len(Loaded) : Loaded[i] \in Keys
  BY <1>1
<1>3. PICK s : s = LoadedRecords
  OBVIOUS
<1>4. s = [i \in 1 .. Len(Loaded) |-> Record(Loaded[i], LoadedWith)]
  BY <1>2, <1>3 DEF LoadedRecords
<1>5. \A i \in 1 .. Len(Loaded) :
         /\ Record(Loaded[i], LoadedWith) \in Records
         /\ Record(Loaded[i], LoadedWith).key = Loaded[i]
  BY <1>1, <1>2, RecordFields
<1>6. s \in Seq(Records) /\ Len(s) = Len(Loaded) /\ DOMAIN s = 1 .. Len(Loaded)
  BY <1>2, <1>4, <1>5
<1>7. Sorted(s)
  BY <1>1, <1>2, <1>4, <1>5, <1>6 DEF Sorted
<1>8. s # << >>
  BY <1>2, <1>6
<1> QED
  BY <1>2, <1>3, <1>4, <1>6, <1>7, <1>8

\* The invariant holds when the index is built.
LEMMA InvInit == Init => IInv
<1> SUFFICES ASSUME Init PROVE IInv
  OBVIOUS
<1>1. PICK s \in Seq(Records) : s = LoadedRecords
  BY LoadedInOrder
<1>2. PICK n \in Nat \ {0} : n = Len(Loaded)
  BY LoadedInOrder
<1>3. /\ s # << >> /\ Sorted(s) /\ Len(s) = n /\ DOMAIN s = 1 .. n
      /\ \A i \in 1 .. n : Loaded[i] \in Keys /\ s[i] = Record(Loaded[i], LoadedWith)
  BY <1>1, <1>2, LoadedInOrder
<1>4. LoadedWith \in Payloads /\ NONE \notin Payloads /\ RESERVE \in Nat \ {0}
  BY FITingTreeAssumption DEF FITingTreeAssumption
<1>5. \A i \in 1 .. n : s[i].key = Loaded[i] /\ Loaded[i] \in Nat
  <2> TAKE i \in 1 .. n
  <2>1. s[i] = Record(Loaded[i], LoadedWith) /\ Loaded[i] \in Keys
    BY <1>3
  <2>2. s[i].key = Loaded[i]
    BY <1>4, <2>1, RecordFields
  <2>3. Loaded[i] \in Nat
    BY <2>1, FITingTreeAssumption DEF FITingTreeAssumption
  <2> QED BY <2>2, <2>3
<1>6. PICK starts \in Segmentations(s) : btree = Leaves(s, starts)
  BY <1>1 DEF Init
<1>7. /\ Tree(btree)
      /\ TreeRecords(btree) = Range(s)
      /\ DOMAIN btree \subseteq {r.key : r \in Range(s)}
      /\ s[1].key \in DOMAIN btree
      /\ \A f \in DOMAIN btree : btree[f].inserted = 0 /\ btree[f].buffer = << >>
  BY <1>3, <1>6, LeavesAreATree
<1>8. \A r : r \in Range(s) <=> \E i \in 1 .. n : r = s[i]
  BY <1>3, ArrayFacts
<1>9. min_key = Loaded[1] /\ max_key = Loaded[n] /\ left_buffer = << >> /\ right_buffer = << >>
  BY <1>2 DEF Init
<1>10. \A r \in Range(s) : min_key <= r.key /\ r.key <= max_key
  <2> TAKE r \in Range(s)
  <2>1. PICK i \in 1 .. n : r = s[i]
    BY <1>8
  <2>2. 1 < i => s[1].key < s[i].key
    BY <1>3 DEF Sorted
  <2>3. i < n => s[i].key < s[n].key
    BY <1>3 DEF Sorted
  <2> QED BY <1>5, <1>9, <2>1, <2>2, <2>3
<1>11. TreeInv
  <2>1. min_key \in Keys /\ max_key \in Keys /\ min_key \in DOMAIN btree
    BY <1>3, <1>5, <1>7, <1>9
  <2>2. \A f \in DOMAIN btree : min_key <= f
    BY <1>7, <1>10
  <2>3. Len(<< >>) = 0
    OBVIOUS
  <2>4. inplace \in BOOLEAN
    BY DEF Init
  <2>5. \A f \in DOMAIN btree : btree[f].inserted < RESERVE /\ Len(btree[f].buffer) < RESERVE
    BY <1>4, <1>7, <2>3
  <2> QED BY <1>7, <1>10, <2>1, <2>2, <2>4, <2>5 DEF TreeInv
<1>12. Range(<< >>) = {} /\ Sorted(<< >>) /\ << >> \in Seq(Records) /\ Len(<< >>) = 0
  BY DEF Range, Sorted
<1>13. BufferInv
  BY <1>4, <1>9, <1>12 DEF BufferInv
<1>14. RecordInv
  <2>1. upserted = [k \in Keys |-> IF k \in Range(Loaded) THEN LoadedWith ELSE NONE]
    BY DEF Init
  <2>2. upserted \in [Keys -> Payloads \cup {NONE}]
    BY <1>4, <2>1
  <2>3. AllRecords = Range(s)
    BY <1>7, <1>9, <1>12 DEF AllRecords
  <2>4. \A k : k \in Range(Loaded) <=> \E i \in 1 .. n : k = Loaded[i]
    <3>1. DOMAIN Loaded = 1 .. n
      BY <1>2, FITingTreeAssumption DEF FITingTreeAssumption
    <3> QED BY <3>1 DEF Range
  <2>5. \A k \in Keys : upserted[k] # NONE <=> k \in Range(Loaded)
    BY <1>4, <2>1
  <2>6. \A k \in Keys : k \in Range(Loaded) => upserted[k] = LoadedWith
    BY <2>1
  <2>7. LastUpserts = {Record(k, LoadedWith) : k \in {x \in Keys : x \in Range(Loaded)}}
    BY <2>5, <2>6 DEF LastUpserts
  <2>8. Range(s) = {Record(k, LoadedWith) : k \in {x \in Keys : x \in Range(Loaded)}}
    <3>1. ASSUME NEW r \in Range(s)
          PROVE  \E k \in Keys : k \in Range(Loaded) /\ r = Record(k, LoadedWith)
      BY <1>3, <1>8, <2>4
    <3>2. ASSUME NEW k \in Keys, k \in Range(Loaded)
          PROVE  Record(k, LoadedWith) \in Range(s)
      BY <1>3, <1>8, <2>4, <3>2
    <3> QED BY <3>1, <3>2
  <2> QED BY <2>2, <2>3, <2>7, <2>8 DEF RecordInv
<1> QED
  BY <1>11, <1>13, <1>14 DEF IInv

\* A leaf takes the upsert, or is replaced by the leaves made of its records.
LEMMA InTreeStep ==
    ASSUME IInv, NEW key \in Keys, NEW payload \in Payloads, InTree(key),
           Upserted(key, payload),
           UNCHANGED <<min_key, max_key, left_buffer, right_buffer>>,
           NEW u, Tree(u),
           TreeRecords(u) = With(Content(btree[LeafOf(key)]), key, payload),
           DOMAIN u \subseteq {r.key : r \in With(Content(btree[LeafOf(key)]), key, payload)},
           LeafOf(key) \in DOMAIN u,
           \A f \in DOMAIN u : u[f].inserted < RESERVE /\ Len(u[f].buffer) < RESERVE,
           btree' = Inserted(u, Without(btree, LeafOf(key)))
    PROVE  IInv'
<1>1. TreeInv /\ BufferInv /\ RecordInv
  BY DEF IInv
<1>2. PICK f : f = LeafOf(key)
  OBVIOUS
<1>3. Tree(btree) /\ min_key \in DOMAIN btree /\ min_key <= key /\ key <= max_key
  BY <1>1 DEF TreeInv, InTree
<1>4. LastUpTo(DOMAIN btree, key, f)
  BY <1>2, <1>3, LeafOfKey
<1>5. PICK v : v = Inserted(u, Without(btree, f))
  OBVIOUS
<1>6. /\ Tree(v)
      /\ DOMAIN v = DOMAIN btree \cup DOMAIN u
      /\ \A g \in DOMAIN btree \ {f} : v[g] = btree[g]
      /\ \A g \in DOMAIN u : v[g] = u[g]
      /\ TreeRecords(v) = With(TreeRecords(btree), key, payload)
  <2>1. /\ TreeRecords(u) = With(Content(btree[f]), key, payload)
        /\ f \in DOMAIN u
    BY <1>2
  <2>2. \A x \in DOMAIN u : \E r \in With(Content(btree[f]), key, payload) : x = r.key
    BY <1>2
  <2>3. Tree(btree)
    BY <1>3
  <2>4. IsReplaced(v, btree, f, u, key, payload)
    BY <1>4, <1>5, <2>1, <2>2, <2>3, LeafReplaced
  <2> QED BY <2>4 DEF IsReplaced
<1>7. btree' = v
  BY <1>2, <1>5
<1>8. inplace' = inplace /\ min_key' = min_key /\ max_key' = max_key
      /\ left_buffer' = left_buffer /\ right_buffer' = right_buffer
  BY DEF Upserted
<1>9. Tree(btree)'
  <2>1. \A x, g : LeafOK(x, g) => LeafOK(x, g)'
    BY <1>8 DEF LeafOK
  <2>2. /\ v = [g \in DOMAIN v |-> v[g]]
        /\ DOMAIN v \subseteq Keys
        /\ \A g \in DOMAIN v : LeafOK(v[g], g)
        /\ \A g, h \in DOMAIN v : g < h => \A r \in Content(v[g]) : r.key < h
    BY <1>6 DEF Tree
  <2>3. \A g \in DOMAIN v : LeafOK(v[g], g)'
    BY <2>1, <2>2
  <2> QED BY <1>7, <2>2, <2>3 DEF Tree
<1>10. Record(key, payload).key = key
  BY RecordFields
<1>11. \A r \in TreeRecords(v) : r.key <= max_key
  BY <1>3, <1>6, <1>10, <1>1 DEF With, TreeInv
<1>12. \A g \in DOMAIN u : min_key <= g
  <2> TAKE g \in DOMAIN u
  <2>1. PICK r \in With(Content(btree[f]), key, payload) : g = r.key
    BY <1>2
  <2>2. CASE r = Record(key, payload)
    BY <1>3, <1>10, <2>1, <2>2
  <2>3. CASE r \in Content(btree[f])
    <3>1. r \in TreeRecords(btree)
      BY <1>3, <1>4, <2>3, TreeFacts DEF LastUpTo
    <3> QED BY <1>1, <2>1, <3>1, Bounds
  <2> QED BY <2>1, <2>2, <2>3 DEF With
<1>13. \A g \in DOMAIN v :
          min_key <= g /\ v[g].inserted < RESERVE /\ Len(v[g].buffer) < RESERVE
  <2> TAKE g \in DOMAIN v
  <2>1. CASE g \in DOMAIN u
    BY <1>6, <1>12, <2>1
  <2>2. CASE g \in DOMAIN btree \ {f}
    BY <1>1, <1>6, <2>2 DEF TreeInv
  <2>3. f \in DOMAIN u
    BY <1>2
  <2> QED BY <1>6, <2>1, <2>2, <2>3
<1>14. min_key \in DOMAIN v
  BY <1>3, <1>6
<1>15. TreeInv'
  <2>1. TreeRecords(btree)' = TreeRecords(v)
    BY <1>7
  <2>2. inplace' \in BOOLEAN /\ min_key' \in Keys /\ max_key' \in Keys \cup PastEnd
    BY <1>1, <1>8 DEF TreeInv
  <2> QED BY <1>7, <1>8, <1>9, <1>11, <1>13, <1>14, <2>1, <2>2 DEF TreeInv
<1>16. BufferInv'
  BY <1>1, <1>8 DEF BufferInv
<1>17. RecordInv'
  <2>1. AllRecords' = TreeRecords(v) \cup Range(left_buffer) \cup Range(right_buffer)
    BY <1>7, <1>8 DEF AllRecords
  <2>2. \A r \in Range(left_buffer) \cup Range(right_buffer) : r.key # key
    <3>1. min_key \in Nat /\ max_key \in Nat
      BY <1>1, Bounds
    <3>2. key \in Nat
      BY FITingTreeAssumption DEF FITingTreeAssumption
    <3>3. left_buffer \in Seq(Records) /\ right_buffer \in Seq(Records)
      BY <1>1 DEF BufferInv
    <3>4. \A r \in Range(left_buffer) \cup Range(right_buffer) : r.key \in Nat
      <4>1. \A r \in Range(left_buffer) : r \in Records
        BY <3>3, ArrayFacts
      <4>2. \A r \in Range(right_buffer) : r \in Records
        BY <3>3, ArrayFacts
      <4> QED BY <4>1, <4>2, RecordFields
    <3>5. ASSUME NEW r \in Range(left_buffer)
          PROVE  r.key # key
      <4>1. r.key < min_key
        BY <1>1 DEF BufferInv
      <4> QED BY <1>3, <3>1, <3>2, <3>4, <4>1
    <3>6. ASSUME NEW r \in Range(right_buffer)
          PROVE  r.key # key
      <4>1. r.key > max_key
        BY <1>1 DEF BufferInv
      <4> QED BY <1>3, <3>1, <3>2, <3>4, <4>1
    <3> QED BY <3>5, <3>6
  <2>3. AllRecords' = With(AllRecords, key, payload)
    BY <1>6, <2>1, <2>2 DEF AllRecords, With
  <2>4. /\ upserted' \in [Keys -> Payloads \cup {NONE}]
        /\ LastUpserts' = With(LastUpserts, key, payload)
    BY <1>1, LastUpsertsChange DEF RecordInv
  <2>5. AllRecords = LastUpserts
    BY <1>1 DEF RecordInv
  <2> QED BY <2>3, <2>4, <2>5 DEF RecordInv
<1> QED
  BY <1>15, <1>16, <1>17 DEF IInv

\* What an upsert does to the leaf of its key.
LEMMA LeafTakesUpsert ==
    ASSUME TreeInv, NEW key \in Keys, NEW payload \in Payloads, InTree(key),
           NEW p \in Predicted(btree[LeafOf(key)], key)
    PROVE  LET f == LeafOf(key)
               leaf == LeafUpsert(btree[f], key, payload, p)
           IN  /\ f \in DOMAIN btree /\ LeafOK(leaf, f)
               /\ Content(leaf) = With(Content(btree[f]), key, payload)
               /\ ~IsFull(leaf) => leaf.inserted < RESERVE /\ Len(leaf.buffer) < RESERVE
<1>1. PICK f : f = LeafOf(key)
  OBVIOUS
<1>2. Tree(btree) /\ min_key \in DOMAIN btree /\ min_key <= key
  BY DEF TreeInv, InTree
<1>3. f \in DOMAIN btree /\ f <= key
  BY <1>1, <1>2, LeafOfKey DEF LastUpTo
<1>4. PICK leaf : leaf = LeafUpsert(btree[f], key, payload, p)
  OBVIOUS
<1>5. LeafOK(btree[f], f)
  BY <1>2, <1>3, TreeFacts
<1>6. /\ LeafOK(leaf, f)
      /\ Content(leaf) = With(Content(btree[f]), key, payload)
      /\ IF inplace THEN leaf.buffer = btree[f].buffer
                    ELSE leaf.inserted = btree[f].inserted
  BY <1>1, <1>3, <1>4, <1>5, LeafUpserted
<1>7. ASSUME ~IsFull(leaf)
      PROVE  leaf.inserted < RESERVE /\ Len(leaf.buffer) < RESERVE
  <2>1. btree[f].inserted < RESERVE /\ Len(btree[f].buffer) < RESERVE
    BY <1>3 DEF TreeInv
  <2>2. leaf.inserted \in Nat /\ leaf.buffer \in Seq(Records)
    BY <1>6 DEF LeafOK, Leaf
  <2>3. Len(leaf.buffer) \in Nat /\ RESERVE \in Nat
    BY <2>2, FITingTreeAssumption DEF FITingTreeAssumption
  <2>4. CASE inplace
    BY <1>6, <1>7, <2>1, <2>2, <2>3, <2>4 DEF IsFull
  <2>5. CASE ~inplace
    BY <1>6, <1>7, <2>1, <2>2, <2>3, <2>5 DEF IsFull
  <2> QED BY <2>4, <2>5
<1> QED
  BY <1>1, <1>3, <1>4, <1>6, <1>7

\* An upsert into a leaf with room keeps the invariant.
LEMMA UpsertLeafStep ==
    ASSUME IInv, NEW key \in Keys, NEW payload \in Payloads, UpsertLeaf(key, payload)
    PROVE  IInv'
<1>1. TreeInv
  BY DEF IInv
<1>2. PICK f : f = LeafOf(key)
  OBVIOUS
<1>3. PICK p \in Predicted(btree[f], key) :
         LET leaf == LeafUpsert(btree[f], key, payload, p)
         IN  ~IsFull(leaf) /\ btree' = [btree EXCEPT ![f] = leaf]
  BY <1>2 DEF UpsertLeaf
<1>4. PICK leaf : leaf = LeafUpsert(btree[f], key, payload, p)
  OBVIOUS
<1>5. ~IsFull(leaf) /\ btree' = [btree EXCEPT ![f] = leaf]
  BY <1>3, <1>4
<1>6. /\ InTree(key) /\ Upserted(key, payload)
      /\ UNCHANGED <<min_key, max_key, left_buffer, right_buffer>>
  BY DEF UpsertLeaf
<1>7. /\ f \in DOMAIN btree /\ LeafOK(leaf, f)
      /\ Content(leaf) = With(Content(btree[f]), key, payload)
      /\ leaf.inserted < RESERVE /\ Len(leaf.buffer) < RESERVE
  BY <1>1, <1>2, <1>3, <1>4, <1>5, <1>6, LeafTakesUpsert
<1>8. PICK u : u = [x \in {f} |-> leaf]
  OBVIOUS
<1>9. DOMAIN u = {f} /\ u[f] = leaf /\ u = [x \in DOMAIN u |-> u[x]]
  BY <1>8
<1>10. Tree(btree)
  BY <1>1 DEF TreeInv
<1>11. f \in Keys /\ f \in Nat
  BY <1>7, <1>10, TreeFacts
<1>12. Tree(u)
  BY <1>7, <1>9, <1>11 DEF Tree
<1>13. TreeRecords(u) = With(Content(btree[f]), key, payload)
  BY <1>7, <1>9 DEF TreeRecords
<1>14. DOMAIN u \subseteq {r.key : r \in With(Content(btree[f]), key, payload)}
  <2>1. \E r \in Content(leaf) : r.key = f
    BY <1>7, LeafFacts
  <2> QED BY <1>7, <1>9, <2>1
<1>15. btree' = Inserted(u, Without(btree, f))
  <2>1. PICK o : o = Without(btree, f)
    OBVIOUS
  <2>2. DOMAIN o = DOMAIN btree \ {f} /\ \A x \in DOMAIN o : o[x] = btree[x]
    BY <2>1 DEF Without
  <2>3. DOMAIN o \cup DOMAIN u = DOMAIN btree
    BY <1>7, <1>9, <2>2
  <2>4. Inserted(u, o) = [x \in DOMAIN btree |-> IF x \in DOMAIN o THEN o[x] ELSE u[x]]
    BY <2>3 DEF Inserted
  <2>5. \A x \in DOMAIN btree : (IF x \in DOMAIN o THEN o[x] ELSE u[x]) =
                                (IF x = f THEN leaf ELSE btree[x])
    BY <1>9, <2>2
  <2>6. btree' = [x \in DOMAIN btree |-> IF x = f THEN leaf ELSE btree[x]]
    BY <1>5, <1>10 DEF Tree
  <2>7. btree' = Inserted(u, o)
    BY <2>4, <2>5, <2>6
  <2> QED BY <2>1, <2>7
<1>16. \A x \in DOMAIN u : u[x].inserted < RESERVE /\ Len(u[x].buffer) < RESERVE
  BY <1>7, <1>9
<1> QED
  BY <1>2, <1>6, <1>9, <1>12, <1>13, <1>14, <1>15, <1>16, InTreeStep

\* An upsert that fills its leaf keeps it: no record is lost on the way through
\* merge_buffer, make_segmentation and the erase and inserts of the B-tree.
LEMMA SplitLeafStep ==
    ASSUME IInv, NEW key \in Keys, NEW payload \in Payloads, SplitLeaf(key, payload)
    PROVE  IInv'
<1>1. TreeInv
  BY DEF IInv
<1>2. PICK f : f = LeafOf(key)
  OBVIOUS
<1>3. PICK p \in Predicted(btree[f], key) :
         \E starts \in Segmentations(Merged(LeafUpsert(btree[f], key, payload, p))) :
            btree' = Inserted(Leaves(Merged(LeafUpsert(btree[f], key, payload, p)), starts),
                              [x \in DOMAIN btree \ {f} |-> btree[x]])
  BY <1>2 DEF SplitLeaf
<1>4. PICK leaf : leaf = LeafUpsert(btree[f], key, payload, p)
  OBVIOUS
<1>5. PICK m : m = Merged(leaf)
  OBVIOUS
<1>6. PICK starts \in Segmentations(m) :
         btree' = Inserted(Leaves(m, starts), [x \in DOMAIN btree \ {f} |-> btree[x]])
  BY <1>3, <1>4, <1>5
<1>7. /\ InTree(key) /\ Upserted(key, payload)
      /\ UNCHANGED <<min_key, max_key, left_buffer, right_buffer>>
  BY DEF SplitLeaf
<1>8. /\ f \in DOMAIN btree /\ LeafOK(leaf, f)
      /\ Content(leaf) = With(Content(btree[f]), key, payload)
  BY <1>1, <1>2, <1>4, <1>7, LeafTakesUpsert
<1>9. /\ m \in Seq(Records) /\ m # << >> /\ Sorted(m)
      /\ Range(m) = Content(leaf)
      /\ m[1].key = f
  BY <1>5, <1>8, MergedInOrder
<1>10. PICK u : u = Leaves(m, starts)
  OBVIOUS
<1>11. /\ Tree(u)
       /\ TreeRecords(u) = Range(m)
       /\ DOMAIN u \subseteq {r.key : r \in Range(m)}
       /\ m[1].key \in DOMAIN u
       /\ \A x \in DOMAIN u : u[x].inserted = 0 /\ u[x].buffer = << >>
  BY <1>9, <1>10, LeavesAreATree
<1>12. \A x \in DOMAIN u : u[x].inserted < RESERVE /\ Len(u[x].buffer) < RESERVE
  <2>1. Len(<< >>) = 0 /\ 0 < RESERVE
    BY FITingTreeAssumption DEF FITingTreeAssumption
  <2> QED BY <1>11, <2>1
<1>13. /\ TreeRecords(u) = With(Content(btree[f]), key, payload)
       /\ DOMAIN u \subseteq {r.key : r \in With(Content(btree[f]), key, payload)}
       /\ f \in DOMAIN u
  BY <1>8, <1>9, <1>11
<1>14. btree' = Inserted(u, Without(btree, f))
  BY <1>6, <1>10 DEF Without
<1> QED
  BY <1>2, <1>7, <1>11, <1>12, <1>13, <1>14, InTreeStep

-----------------------------------------------------------------------------
(* Buffers that are made into leaves.                                      *)

\* The conditions on a tree say nothing of the other variables.
LEMMA TreeKept ==
    ASSUME NEW v, Tree(v), btree' = v, inplace' = inplace
    PROVE  Tree(btree)' /\ TreeRecords(btree)' = TreeRecords(v)
<1>1. \A x, g : LeafOK(x, g) => LeafOK(x, g)'
  BY DEF LeafOK
<1>2. /\ v = [g \in DOMAIN v |-> v[g]]
      /\ DOMAIN v \subseteq Keys
      /\ \A g \in DOMAIN v : LeafOK(v[g], g)
      /\ \A g, h \in DOMAIN v : g < h => \A r \in Content(v[g]) : r.key < h
  BY DEF Tree
<1>3. \A g \in DOMAIN v : LeafOK(v[g], g)'
  BY <1>1, <1>2
<1>4. Tree(btree)'
  BY <1>2, <1>3 DEF Tree
<1>5. TreeRecords(btree)' = TreeRecords(v)
  BY DEF TreeRecords
<1> QED
  BY <1>4, <1>5

Grown(v, t, b) ==
    /\ Tree(v)
    /\ TreeRecords(v) = TreeRecords(t) \cup Range(b)
    /\ DOMAIN t \subseteq DOMAIN v /\ b[1].key \in DOMAIN v
    /\ \A f \in DOMAIN v : f \in DOMAIN t \/ \E r \in Range(b) : f = r.key
    /\ \A f \in DOMAIN v : v[f].inserted < RESERVE /\ Len(v[f].buffer) < RESERVE

\* All of the buffer's keys are on one side of the tree.
LEMMA TreeGrows ==
    ASSUME TreeInv, NEW b \in Seq(Records), b # << >>, Sorted(b),
           NEW starts \in Segmentations(b),
           NEW v, v = Inserted(Leaves(b, starts), btree),
           \/ \A r \in Range(b) : r.key < min_key
           \/ \A r \in Range(b) : r.key > max_key
    PROVE  Grown(v, btree, b)
<1>1. PICK u : u = Leaves(b, starts)
  OBVIOUS
<1>2. /\ Tree(u)
      /\ TreeRecords(u) = Range(b)
      /\ DOMAIN u \subseteq {r.key : r \in Range(b)}
      /\ b[1].key \in DOMAIN u
      /\ \A f \in DOMAIN u : u[f].inserted = 0 /\ u[f].buffer = << >>
  BY <1>1, LeavesAreATree
<1>3. \A g \in DOMAIN u : \E r \in Range(b) : g = r.key
  BY <1>2
<1>4. \A r \in Range(b) : r.key \in Nat
  <2>1. \A r \in Range(b) : r \in Records
    BY ArrayFacts
  <2> QED BY <2>1, RecordFields
<1>5. min_key \in Nat /\ max_key \in Nat /\ min_key <= max_key
  BY Bounds
<1>6. Tree(btree) /\ \A f \in DOMAIN btree : min_key <= f
  BY DEF TreeInv
<1>7. \A f \in DOMAIN btree :
         /\ f \in Nat /\ min_key <= f /\ f <= max_key
         /\ \A r \in Content(btree[f]) : r.key \in Nat /\ r.key <= max_key
  <2> TAKE f \in DOMAIN btree
  <2>1. f \in Nat /\ LeafOK(btree[f], f)
    BY <1>6, TreeFacts
  <2>2. \A r \in Content(btree[f]) : r.key \in Nat /\ r.key <= max_key
    <3>1. \A r \in Content(btree[f]) : r \in TreeRecords(btree)
      BY DEF TreeRecords
    <3> QED BY <3>1, Bounds
  <2>3. \E r \in Content(btree[f]) : r.key = f
    BY <2>1, LeafFacts
  <2> QED BY <1>6, <2>1, <2>2, <2>3
<1>8. Apart(btree, u)
  <2> SUFFICES ASSUME NEW f \in DOMAIN btree, NEW g \in DOMAIN u
               PROVE  /\ f # g
                      /\ f < g => \A r \in Content(btree[f]) : r.key < g
                      /\ g < f => \A r \in Content(u[g]) : r.key < f
    BY DEF Apart
  <2>1. g \in Nat /\ (g < min_key \/ g > max_key)
    BY <1>3, <1>4
  <2>2. f \in Nat /\ min_key <= f /\ f <= max_key
    BY <1>7
  <2>3. ASSUME f < g, NEW r \in Content(btree[f])
        PROVE  r.key < g
    <3>1. g > max_key
      BY <1>5, <2>1, <2>2, <2>3
    <3>2. r.key \in Nat /\ r.key <= max_key
      BY <1>7, <2>3
    <3> QED BY <1>5, <2>1, <3>1, <3>2
  <2>4. ASSUME g < f, NEW r \in Content(u[g])
        PROVE  r.key < f
    <3>1. r \in Range(b)
      BY <1>2, <2>4 DEF TreeRecords
    <3>2. g < min_key
      BY <1>5, <2>1, <2>2, <2>4
    <3>3. ~ \A q \in Range(b) : q.key > max_key
      <4>1. PICK q \in Range(b) : g = q.key
        BY <1>3
      <4> QED BY <1>5, <2>1, <3>2, <4>1
    <3>4. r.key < min_key
      BY <3>1, <3>3
    <3> QED BY <1>4, <1>5, <2>2, <3>1, <3>4
  <2> QED BY <1>5, <2>1, <2>2, <2>3, <2>4
<1>9. /\ DOMAIN v = DOMAIN btree \cup DOMAIN u
      /\ \A f \in DOMAIN btree : v[f] = btree[f]
      /\ \A f \in DOMAIN u : v[f] = u[f]
  BY <1>1, <1>8 DEF Inserted, Apart
<1>10. Tree(v) /\ TreeRecords(v) = TreeRecords(btree) \cup TreeRecords(u)
  <2>1. Tree(Inserted(u, btree)) /\
        TreeRecords(Inserted(u, btree)) = TreeRecords(btree) \cup TreeRecords(u)
    BY <1>2, <1>6, <1>8, Joined
  <2> QED BY <1>1, <2>1
<1>11. \A f \in DOMAIN v : v[f].inserted < RESERVE /\ Len(v[f].buffer) < RESERVE
  <2>1. Len(<< >>) = 0 /\ 0 < RESERVE
    BY FITingTreeAssumption DEF FITingTreeAssumption
  <2>2. \A f \in DOMAIN btree : btree[f].inserted < RESERVE /\ Len(btree[f].buffer) < RESERVE
    BY DEF TreeInv
  <2> QED BY <1>2, <1>9, <2>1, <2>2
<1> QED
  BY <1>2, <1>3, <1>9, <1>10, <1>11 DEF Grown

\* An upsert that changes the records as it should keeps them the last ones.
LEMMA RecordInvStep ==
    ASSUME RecordInv, NEW key \in Keys, NEW payload \in Payloads, Upserted(key, payload),
           AllRecords' = With(AllRecords, key, payload)
    PROVE  RecordInv'
<1>1. /\ upserted' \in [Keys -> Payloads \cup {NONE}]
      /\ LastUpserts' = With(LastUpserts, key, payload)
  BY LastUpsertsChange DEF RecordInv
<1>2. AllRecords = LastUpserts
  BY DEF RecordInv
<1> QED
  BY <1>1, <1>2 DEF RecordInv

\* A key below min_key: the left buffer may be made into leaves, before all
\* others.
LEMMA UpsertLeftStep ==
    ASSUME IInv, NEW key \in Keys, NEW payload \in Payloads, UpsertLeft(key, payload)
    PROVE  IInv'
<1>1. TreeInv /\ BufferInv /\ RecordInv
  BY DEF IInv
<1>2. PICK b : b = BufferUpsert(left_buffer, key, payload)
  OBVIOUS
<1>3. /\ b \in Seq(Records) /\ Sorted(b) /\ b # << >>
      /\ Range(b) = With(Range(left_buffer), key, payload)
  BY <1>1, <1>2, BufferUpserted DEF BufferInv
<1>4. /\ key < min_key /\ Upserted(key, payload) /\ inplace' = inplace
      /\ max_key' = max_key /\ right_buffer' = right_buffer
  BY DEF UpsertLeft, Upserted
<1>5. /\ min_key \in Nat /\ max_key \in Nat /\ min_key <= max_key /\ key \in Nat
      /\ \A r \in TreeRecords(btree) : r.key \in Nat /\ min_key <= r.key /\ r.key <= max_key
  <2>1. key \in Nat
    BY FITingTreeAssumption DEF FITingTreeAssumption
  <2> QED BY <1>1, <2>1, Bounds
<1>6. \A r \in Range(b) : r.key \in Nat /\ r.key < min_key
  <2>1. \A r \in Range(b) : r.key \in Nat
    <3>1. \A r \in Range(b) : r \in Records
      BY <1>3, ArrayFacts
    <3> QED BY <3>1, RecordFields
  <2>2. \A r \in Range(left_buffer) : r.key < min_key
    BY <1>1 DEF BufferInv
  <2>3. Record(key, payload).key = key
    BY RecordFields
  <2> QED BY <1>3, <1>4, <2>1, <2>2, <2>3 DEF With
<1>7. \A r \in Range(right_buffer) : r.key # key
  <2>1. \A r \in Range(right_buffer) : r.key > max_key /\ r.key \in Nat
    <3>1. right_buffer \in Seq(Records) /\ \A r \in Range(right_buffer) : r.key > max_key
      BY <1>1 DEF BufferInv
    <3>2. \A r \in Range(right_buffer) : r \in Records
      BY <3>1, ArrayFacts
    <3> QED BY <3>1, <3>2, RecordFields
  <2> QED BY <1>4, <1>5, <2>1
<1>8. \A r \in TreeRecords(btree) : r.key # key
  BY <1>4, <1>5
<1>9. With(AllRecords, key, payload) = TreeRecords(btree) \cup Range(b) \cup Range(right_buffer)
  BY <1>3, <1>7, <1>8 DEF AllRecords, With
<1>10. CASE Len(b) < RESERVE
  <2>1. left_buffer' = b /\ min_key' = min_key /\ btree' = btree
    <3>1. ~(Len(b) >= RESERVE)
      <4>1. Len(b) \in Nat /\ RESERVE \in Nat
        BY <1>3, FITingTreeAssumption DEF FITingTreeAssumption
      <4> QED BY <1>10, <4>1
    <3> QED BY <1>2, <3>1 DEF UpsertLeft
  <2>2. Tree(btree)' /\ TreeRecords(btree)' = TreeRecords(btree)
    BY <1>1, <1>4, <2>1, TreeKept DEF TreeInv
  <2>3. TreeInv'
    BY <1>1, <1>4, <2>1, <2>2 DEF TreeInv
  <2>4. BufferInv'
    BY <1>1, <1>3, <1>4, <1>6, <1>10, <2>1 DEF BufferInv
  <2>5. AllRecords' = With(AllRecords, key, payload)
    BY <1>4, <1>9, <2>1, <2>2 DEF AllRecords
  <2>6. RecordInv'
    BY <1>1, <1>4, <2>5, RecordInvStep
  <2> QED BY <2>3, <2>4, <2>6 DEF IInv
<1>11. CASE ~(Len(b) < RESERVE)
  <2>1. PICK starts \in Segmentations(b) : btree' = Inserted(Leaves(b, starts), btree)
    BY <1>2, <1>11 DEF UpsertLeft
  <2>2. min_key' = b[1].key /\ left_buffer' = << >>
    BY <1>2, <1>11 DEF UpsertLeft
  <2>3. PICK v : v = Inserted(Leaves(b, starts), btree)
    OBVIOUS
  <2>4. Grown(v, btree, b)
    BY <1>1, <1>3, <1>6, <2>3, TreeGrows
  <2>5. btree' = v
    BY <2>1, <2>3
  <2>6. /\ Tree(v)
        /\ TreeRecords(v) = TreeRecords(btree) \cup Range(b)
        /\ DOMAIN btree \subseteq DOMAIN v /\ b[1].key \in DOMAIN v
        /\ \A f \in DOMAIN v : f \in DOMAIN btree \/ \E r \in Range(b) : f = r.key
        /\ \A f \in DOMAIN v : v[f].inserted < RESERVE /\ Len(v[f].buffer) < RESERVE
    BY <2>4 DEF Grown
  <2>7. Tree(btree)' /\ TreeRecords(btree)' = TreeRecords(v)
    BY <1>4, <2>5, <2>6, TreeKept
  <2>8. /\ b[1] \in Range(b) /\ b[1].key \in Keys
        /\ \A r \in Range(b) : b[1].key <= r.key
    <3>1. PICK n \in Nat : n = Len(b)
      BY <1>3
    <3>2. /\ DOMAIN b = 1 .. n /\ n # 0
          /\ \A r : r \in Range(b) <=> \E i \in 1 .. n : r = b[i]
          /\ \A i \in 1 .. n : b[i].key \in Keys /\ b[i].key \in Nat
      BY <1>3, <3>1, ArrayFacts
    <3>3. ASSUME NEW r \in Range(b)
          PROVE  b[1].key <= r.key
      <4>1. PICK i \in 1 .. n : r = b[i]
        BY <3>2
      <4>2. CASE i = 1
        BY <3>2, <4>1, <4>2
      <4>3. CASE i # 1
        <5>1. b[1].key < b[i].key
          BY <1>3, <3>2, <4>3 DEF Sorted
        <5> QED BY <3>2, <4>1, <5>1
      <4> QED BY <4>2, <4>3
    <3> QED BY <3>2, <3>3
  <2>9. b[1].key \in Nat /\ b[1].key < min_key
    BY <1>6, <2>8
  <2>10. \A f \in DOMAIN v : b[1].key <= f
    <3>1. \A f \in DOMAIN btree : f \in Nat /\ min_key <= f
      BY <1>1, TreeFacts DEF TreeInv
    <3> QED BY <1>5, <2>6, <2>8, <2>9, <3>1
  <2>11. \A r \in TreeRecords(v) : r.key <= max_key
    BY <1>5, <1>6, <2>6
  <2>12. TreeInv'
    <3>1. inplace' \in BOOLEAN /\ max_key' \in Keys \cup PastEnd
      BY <1>1, <1>4 DEF TreeInv
    <3> QED BY <1>4, <2>2, <2>5, <2>6, <2>7, <2>8, <2>10, <2>11, <3>1 DEF TreeInv
  <2>13. BufferInv'
    <3>1. Range(<< >>) = {} /\ Sorted(<< >>) /\ << >> \in Seq(Records) /\ Len(<< >>) = 0
      BY DEF Range, Sorted
    <3>2. 0 < RESERVE
      BY FITingTreeAssumption DEF FITingTreeAssumption
    <3> QED BY <1>1, <1>4, <2>2, <3>1, <3>2 DEF BufferInv
  <2>14. AllRecords' = With(AllRecords, key, payload)
    <3>1. Range(<< >>) = {}
      BY DEF Range
    <3> QED BY <1>4, <1>9, <2>2, <2>6, <2>7, <3>1 DEF AllRecords
  <2>15. RecordInv'
    BY <1>1, <1>4, <2>14, RecordInvStep
  <2> QED BY <2>12, <2>13, <2>15 DEF IInv
<1> QED
  BY <1>10, <1>11

\* A key above max_key: the right buffer may be made into leaves, after all
\* others, and max_key becomes what is read past the end of its keys, which is
\* not below the last of them while misread is FALSE.
LEMMA UpsertRightStep ==
    ASSUME IInv, ~misread', NEW key \in Keys, NEW payload \in Payloads,
           UpsertRight(key, payload)
    PROVE  IInv'
<1>1. TreeInv /\ BufferInv /\ RecordInv
  BY DEF IInv
<1>2. PICK b : b = BufferUpsert(right_buffer, key, payload)
  OBVIOUS
<1>3. /\ b \in Seq(Records) /\ Sorted(b) /\ b # << >>
      /\ Range(b) = With(Range(right_buffer), key, payload)
  BY <1>1, <1>2, BufferUpserted DEF BufferInv
<1>4. /\ key > max_key /\ Upserted(key, payload) /\ inplace' = inplace
      /\ min_key' = min_key /\ left_buffer' = left_buffer
  BY DEF UpsertRight, Upserted
<1>5. /\ min_key \in Nat /\ max_key \in Nat /\ min_key <= max_key /\ key \in Nat
      /\ \A r \in TreeRecords(btree) : r.key \in Nat /\ min_key <= r.key /\ r.key <= max_key
  <2>1. key \in Nat
    BY FITingTreeAssumption DEF FITingTreeAssumption
  <2> QED BY <1>1, <2>1, Bounds
<1>6. \A r \in Range(b) : r.key \in Keys /\ r.key \in Nat /\ r.key > max_key
  <2>1. \A r \in Range(b) : r.key \in Keys /\ r.key \in Nat
    <3>1. \A r \in Range(b) : r \in Records
      BY <1>3, ArrayFacts
    <3> QED BY <3>1, RecordFields
  <2>2. \A r \in Range(right_buffer) : r.key > max_key
    BY <1>1 DEF BufferInv
  <2>3. Record(key, payload).key = key
    BY RecordFields
  <2> QED BY <1>3, <1>4, <2>1, <2>2, <2>3 DEF With
<1>7. \A r \in Range(left_buffer) : r.key # key
  <2>1. \A r \in Range(left_buffer) : r.key < min_key /\ r.key \in Nat
    <3>1. left_buffer \in Seq(Records) /\ \A r \in Range(left_buffer) : r.key < min_key
      BY <1>1 DEF BufferInv
    <3>2. \A r \in Range(left_buffer) : r \in Records
      BY <3>1, ArrayFacts
    <3> QED BY <3>1, <3>2, RecordFields
  <2> QED BY <1>4, <1>5, <2>1
<1>8. \A r \in TreeRecords(btree) : r.key # key
  BY <1>4, <1>5
<1>9. With(AllRecords, key, payload) = TreeRecords(btree) \cup Range(left_buffer) \cup Range(b)
  BY <1>3, <1>7, <1>8 DEF AllRecords, With
<1>10. CASE Len(b) < RESERVE
  <2>1. right_buffer' = b /\ max_key' = max_key /\ btree' = btree
    <3>1. ~(Len(b) >= RESERVE)
      <4>1. Len(b) \in Nat /\ RESERVE \in Nat
        BY <1>3, FITingTreeAssumption DEF FITingTreeAssumption
      <4> QED BY <1>10, <4>1
    <3> QED BY <1>2, <3>1 DEF UpsertRight
  <2>2. Tree(btree)' /\ TreeRecords(btree)' = TreeRecords(btree)
    BY <1>1, <1>4, <2>1, TreeKept DEF TreeInv
  <2>3. TreeInv'
    BY <1>1, <1>4, <2>1, <2>2 DEF TreeInv
  <2>4. BufferInv'
    BY <1>1, <1>3, <1>4, <1>6, <1>10, <2>1 DEF BufferInv
  <2>5. AllRecords' = With(AllRecords, key, payload)
    BY <1>4, <1>9, <2>1, <2>2 DEF AllRecords
  <2>6. RecordInv'
    BY <1>1, <1>4, <2>5, RecordInvStep
  <2> QED BY <2>3, <2>4, <2>6 DEF IInv
<1>11. CASE ~(Len(b) < RESERVE)
  <2>1. PICK starts \in Segmentations(b) : btree' = Inserted(Leaves(b, starts), btree)
    BY <1>2, <1>11 DEF UpsertRight
  <2>2. max_key' \in PastEnd /\ ~(max_key' < b[Len(b)].key) /\ right_buffer' = << >>
    <3>1. /\ max_key' = AsKey[b[1].payload] /\ right_buffer' = << >>
          /\ misread' = (misread \/ max_key' < b[Len(b)].key)
      BY <1>2, <1>11 DEF UpsertRight
    <3>2. b[1] \in Records
      BY <1>3
    <3>3. b[1].payload \in Payloads
      BY <3>2 DEF Records
    <3> QED BY <3>1, <3>3, PastEndIsNat
  <2>3. PICK v : v = Inserted(Leaves(b, starts), btree)
    OBVIOUS
  <2>4. Grown(v, btree, b)
    BY <1>1, <1>3, <1>6, <2>3, TreeGrows
  <2>5. btree' = v
    BY <2>1, <2>3
  <2>6. /\ Tree(v)
        /\ TreeRecords(v) = TreeRecords(btree) \cup Range(b)
        /\ DOMAIN btree \subseteq DOMAIN v
        /\ \A f \in DOMAIN v : f \in DOMAIN btree \/ \E r \in Range(b) : f = r.key
        /\ \A f \in DOMAIN v : v[f].inserted < RESERVE /\ Len(v[f].buffer) < RESERVE
    BY <2>4 DEF Grown
  <2>7. Tree(btree)' /\ TreeRecords(btree)' = TreeRecords(v)
    BY <1>4, <2>5, <2>6, TreeKept
  <2>8. max_key' \in Nat
    BY <2>2, PastEndIsNat
  <2>9. \A f \in DOMAIN v : min_key <= f
    <3>1. \A f \in DOMAIN btree : min_key <= f
      BY <1>1 DEF TreeInv
    <3> QED BY <1>5, <1>6, <2>6, <3>1
  <2>10. \A r \in TreeRecords(v) : r.key <= max_key'
    <3>1. PICK n \in Nat : n = Len(b)
      BY <1>3
    <3>2. /\ DOMAIN b = 1 .. n /\ n # 0
          /\ \A r : r \in Range(b) <=> \E i \in 1 .. n : r = b[i]
          /\ \A i \in 1 .. n : b[i].key \in Nat
      BY <1>3, <3>1, ArrayFacts
    <3>3. b[n] \in Range(b) /\ b[n].key <= max_key'
      BY <2>2, <2>8, <3>1, <3>2
    <3>4. ASSUME NEW r \in Range(b)
          PROVE  r.key <= max_key'
      <4>1. PICK i \in 1 .. n : r = b[i]
        BY <3>2
      <4>2. CASE i = n
        BY <3>3, <4>1, <4>2
      <4>3. CASE i # n
        <5>1. b[i].key < b[n].key
          BY <1>3, <3>2, <4>3 DEF Sorted
        <5> QED BY <2>8, <3>2, <3>3, <4>1, <5>1
      <4> QED BY <4>2, <4>3
    <3>5. max_key < max_key'
      BY <1>5, <1>6, <2>8, <3>3
    <3>6. \A r \in TreeRecords(btree) : r.key <= max_key'
      BY <1>5, <2>8, <3>5
    <3> QED BY <2>6, <3>4, <3>6
  <2>11. TreeInv'
    <3>1. inplace' \in BOOLEAN /\ min_key' \in Keys /\ min_key' \in DOMAIN v
      BY <1>1, <1>4, <2>6 DEF TreeInv
    <3>2. max_key' \in Keys \cup PastEnd
      BY <2>2
    <3> QED BY <1>4, <2>5, <2>6, <2>7, <2>9, <2>10, <3>1, <3>2 DEF TreeInv
  <2>12. BufferInv'
    <3>1. Range(<< >>) = {} /\ Sorted(<< >>) /\ << >> \in Seq(Records) /\ Len(<< >>) = 0
      BY DEF Range, Sorted
    <3>2. 0 < RESERVE
      BY FITingTreeAssumption DEF FITingTreeAssumption
    <3> QED BY <1>1, <1>4, <2>2, <3>1, <3>2 DEF BufferInv
  <2>13. AllRecords' = With(AllRecords, key, payload)
    <3>1. Range(<< >>) = {}
      BY DEF Range
    <3> QED BY <1>4, <1>9, <2>2, <2>6, <2>7, <3>1 DEF AllRecords
  <2>14. RecordInv'
    BY <1>1, <1>4, <2>13, RecordInvStep
  <2> QED BY <2>11, <2>12, <2>14 DEF IInv
<1> QED
  BY <1>10, <1>11

\* Every step keeps the invariant, unless it is a misread.
LEMMA InvStep == IInv /\ ~misread' /\ [Next]_vars => IInv'
<1> SUFFICES ASSUME IInv, ~misread', [Next]_vars PROVE IInv'
  OBVIOUS
<1>1. ASSUME NEW key \in Keys, NEW payload \in Payloads, UpsertLeaf(key, payload)
      PROVE  IInv'
  BY <1>1, UpsertLeafStep
<1>2. ASSUME NEW key \in Keys, NEW payload \in Payloads, SplitLeaf(key, payload)
      PROVE  IInv'
  BY <1>2, SplitLeafStep
<1>3. ASSUME NEW key \in Keys, NEW payload \in Payloads, UpsertLeft(key, payload)
      PROVE  IInv'
  BY <1>3, UpsertLeftStep
<1>4. ASSUME NEW key \in Keys, NEW payload \in Payloads, UpsertRight(key, payload)
      PROVE  IInv'
  BY <1>4, UpsertRightStep
<1>5. CASE UNCHANGED vars
  <2>1. /\ inplace' = inplace /\ min_key' = min_key /\ max_key' = max_key /\ btree' = btree
        /\ left_buffer' = left_buffer /\ right_buffer' = right_buffer /\ upserted' = upserted
    BY <1>5 DEF vars, index
  <2>2. TreeInv /\ BufferInv /\ RecordInv
    BY DEF IInv
  <2>3. Tree(btree)' /\ TreeRecords(btree)' = TreeRecords(btree)
    BY <2>1, <2>2, TreeKept DEF TreeInv
  <2>4. TreeInv'
    BY <2>1, <2>2, <2>3 DEF TreeInv
  <2>5. BufferInv'
    BY <2>1, <2>2 DEF BufferInv
  <2>6. RecordInv'
    BY <2>1, <2>2, <2>3 DEF RecordInv, AllRecords, LastUpserts
  <2> QED BY <2>4, <2>5, <2>6 DEF IInv
<1> QED
  BY <1>1, <1>2, <1>3, <1>4, <1>5 DEF Next

\* A misread is not undone.
LEMMA MisreadStays ==
    misread \in BOOLEAN /\ [Next]_vars => misread' \in BOOLEAN /\ (misread => misread')
<1> SUFFICES ASSUME misread \in BOOLEAN, [Next]_vars
             PROVE  misread' \in BOOLEAN /\ (misread => misread')
  OBVIOUS
<1>1. ASSUME NEW key \in Keys, NEW payload \in Payloads,
             UpsertLeaf(key, payload) \/ SplitLeaf(key, payload) \/ UpsertLeft(key, payload)
      PROVE  misread' = misread
  BY <1>1 DEF UpsertLeaf, SplitLeaf, UpsertLeft
<1>2. ASSUME NEW key \in Keys, NEW payload \in Payloads, UpsertRight(key, payload)
      PROVE  \/ misread' = misread
             \/ \E below \in BOOLEAN : misread' = (misread \/ below)
  BY <1>2 DEF UpsertRight
<1>3. CASE UNCHANGED vars
  BY <1>3 DEF vars
<1> QED
  BY <1>1, <1>2, <1>3 DEF Next

\* The invariant holds of both indexes, whatever is upserted into them, until
\* a misread.
LEMMA Invariant == Spec => [](misread \in BOOLEAN /\ (~misread => IInv))
<1> DEFINE Inv == misread \in BOOLEAN /\ (~misread => IInv)
<1>1. Init => Inv
  <2>1. Init => misread = FALSE
    BY DEF Init
  <2> QED BY <2>1, InvInit
<1>2. Inv /\ [Next]_vars => Inv'
  <2> SUFFICES ASSUME Inv, [Next]_vars PROVE Inv'
    OBVIOUS
  <2>1. misread' \in BOOLEAN /\ (misread => misread')
    BY MisreadStays
  <2>2. ASSUME ~misread' PROVE IInv'
    <3>1. IInv
      BY <2>1, <2>2
    <3> QED BY <2>2, <3>1, InvStep
  <2> QED BY <2>1, <2>2
<1> QED
  <2> HIDE DEF Inv
  <2>1. Spec => []Inv
    BY <1>1, <1>2, PTL DEF Spec
  <2> QED BY <2>1 DEF Inv

-----------------------------------------------------------------------------
(* What follows from the invariant.                                        *)

\* The B-tree leads every key of a leaf back to that leaf.
LEMMA RecordKeyIsInItsLeaf ==
    ASSUME TreeInv, NEW f \in DOMAIN btree, NEW r \in Content(btree[f])
    PROVE  LeafOf(r.key) = f
<1>1. Tree(btree)
  BY DEF TreeInv
<1>2. r \in Records /\ f <= r.key
  BY <1>1, TreeFacts
<1>3. PICK k \in Keys : k = r.key
  BY <1>2, RecordFields
<1>4. LastUpTo(DOMAIN btree, k, LeafOf(k))
  BY <1>1, <1>2, <1>3, LeafOfKey
<1>5. f = LeafOf(k)
  BY <1>1, <1>3, <1>4, KeyIsInItsLeaf
<1> QED
  BY <1>3, <1>5

\* The invariant's types.
LEMMA InvTypes == IInv /\ misread \in BOOLEAN => TypeOK
<1> SUFFICES ASSUME IInv, misread \in BOOLEAN PROVE TypeOK
  OBVIOUS
<1>1. TreeInv /\ BufferInv /\ RecordInv
  BY DEF IInv
<1>2. Tree(btree)
  BY <1>1 DEF TreeInv
<1>3. ASSUME NEW f \in DOMAIN btree
      PROVE  /\ btree[f].records \in Seq(Records) /\ btree[f].records # << >>
             /\ btree[f].buffer \in Seq(Records) /\ Len(btree[f].buffer) < RESERVE
             /\ btree[f].inserted \in 0 .. RESERVE - 1
  <2>1. btree[f] \in Leaf /\ btree[f].records # << >>
    BY <1>2 DEF Tree, LeafOK
  <2>2. btree[f].inserted < RESERVE /\ Len(btree[f].buffer) < RESERVE
    BY <1>1 DEF TreeInv
  <2>3. /\ btree[f].records \in Seq(Records) /\ btree[f].buffer \in Seq(Records)
        /\ btree[f].inserted \in Nat
    BY <2>1 DEF Leaf
  <2>4. RESERVE \in Nat
    BY FITingTreeAssumption DEF FITingTreeAssumption
  <2> QED BY <2>1, <2>2, <2>3, <2>4
<1>4. DOMAIN btree \subseteq Keys
  BY <1>2 DEF Tree
<1>5. inplace \in BOOLEAN /\ min_key \in Keys /\ max_key \in Keys \cup PastEnd
  BY <1>1 DEF TreeInv
<1>6. /\ left_buffer \in Seq(Records) /\ Len(left_buffer) < RESERVE
      /\ right_buffer \in Seq(Records) /\ Len(right_buffer) < RESERVE
  BY <1>1 DEF BufferInv
<1>7. upserted \in [Keys -> Payloads \cup {NONE}]
  BY <1>1 DEF RecordInv
<1> QED
  BY <1>3, <1>4, <1>5, <1>6, <1>7 DEF TypeOK, PastEnd

\* Whatever is upserted, and however leaves are segmented, every leaf is the one
\* the B-tree leads its keys to, has them once and in order, and no buffer or
\* in-place leaf is left full: what upper_bound and find_precise_position rely
\* on, until a payload that is read past the right buffer's keys is below them.
THEOREM LeavesInOrder == Spec => []LeavesUntilMisread
<1>1. misread \in BOOLEAN /\ (~misread => IInv) => LeavesUntilMisread
  <2> SUFFICES ASSUME misread \in BOOLEAN, IInv PROVE LeavesAreSorted
    BY DEF LeavesUntilMisread
  <2>1. TreeInv /\ TypeOK
    BY InvTypes DEF IInv
  <2>2. ASSUME NEW f \in DOMAIN btree
        PROVE  /\ btree[f].records[1].key = f
               /\ Sorted(btree[f].records) /\ Sorted(btree[f].buffer)
    <3>1. LeafOK(btree[f], f)
      BY <2>1 DEF TreeInv, Tree
    <3> QED BY <3>1 DEF LeafOK
  <2>3. ASSUME NEW f \in DOMAIN btree,
               NEW r \in Range(btree[f].records) \cup Range(btree[f].buffer)
        PROVE  LeafOf(r.key) = f
    <3>1. r \in Content(btree[f])
      BY DEF Content
    <3> QED BY <2>1, <3>1, RecordKeyIsInItsLeaf
  <2> QED BY <2>1, <2>2, <2>3 DEF LeavesAreSorted
<1> QED
  BY <1>1, Invariant, PTL

\* The records hold a key's last upsert and nothing else of that key.
LEMMA RecordOfKey ==
    ASSUME RecordInv, NEW key \in Keys
    PROVE  /\ \A r \in AllRecords : r.key = key =>
                 upserted[key] # NONE /\ r.payload = upserted[key]
           /\ upserted[key] # NONE => \E r \in AllRecords : r.key = key
<1>1. AllRecords = LastUpserts /\ upserted \in [Keys -> Payloads \cup {NONE}]
  BY DEF RecordInv
<1>2. \A k \in Keys : upserted[k] # NONE => upserted[k] \in Payloads
  BY <1>1
<1>3. \A k \in Keys : upserted[k] # NONE =>
         Record(k, upserted[k]).key = k /\ Record(k, upserted[k]).payload = upserted[k]
  BY <1>2, RecordFields
<1>4. ASSUME NEW r \in AllRecords, r.key = key
      PROVE  upserted[key] # NONE /\ r.payload = upserted[key]
  <2>1. PICK k \in Keys : upserted[k] # NONE /\ r = Record(k, upserted[k])
    BY <1>1 DEF LastUpserts
  <2> QED BY <1>3, <1>4, <2>1
<1>5. ASSUME upserted[key] # NONE
      PROVE  \E r \in AllRecords : r.key = key
  <2>1. Record(key, upserted[key]) \in AllRecords
    BY <1>1, <1>5 DEF LastUpserts
  <2> QED BY <1>3, <1>5, <2>1
<1> QED
  BY <1>4, <1>5

\* In which of the three parts of the index a record is.
LEMMA WhereRecordsAre ==
    ASSUME IInv, NEW r \in AllRecords
    PROVE  /\ r \in Records /\ r.key \in Keys /\ r.key \in Nat
           /\ r.key < min_key => r \in Range(left_buffer)
           /\ InTree(r.key) => r \in Content(btree[LeafOf(r.key)])
           /\ r.key > max_key => r \in Range(right_buffer)
<1>1. TreeInv /\ BufferInv
  BY DEF IInv
<1>2. /\ min_key \in Nat /\ max_key \in Nat /\ min_key <= max_key
      /\ \A q \in TreeRecords(btree) :
            q \in Records /\ q.key \in Nat /\ min_key <= q.key /\ q.key <= max_key
  BY <1>1, Bounds
<1>3. /\ \A q \in Range(left_buffer) : q \in Records /\ q.key < min_key
      /\ \A q \in Range(right_buffer) : q \in Records /\ q.key > max_key
  BY <1>1, ArrayFacts DEF BufferInv
<1>4. r \in TreeRecords(btree) \/ r \in Range(left_buffer) \/ r \in Range(right_buffer)
  BY DEF AllRecords
<1>5. r \in Records
  BY <1>2, <1>3, <1>4
<1>6. r.key \in Keys /\ r.key \in Nat
  BY <1>5, RecordFields
<1>7. r.key < min_key => r \in Range(left_buffer)
  BY <1>2, <1>3, <1>4, <1>6
<1>8. r.key > max_key => r \in Range(right_buffer)
  BY <1>2, <1>3, <1>4, <1>6
<1>9. InTree(r.key) => r \in TreeRecords(btree)
  BY <1>2, <1>3, <1>4, <1>6 DEF InTree
<1>10. r \in TreeRecords(btree) => r \in Content(btree[LeafOf(r.key)])
  <2> SUFFICES ASSUME r \in TreeRecords(btree)
               PROVE  r \in Content(btree[LeafOf(r.key)])
    OBVIOUS
  <2>1. PICK f \in DOMAIN btree : r \in Content(btree[f])
    BY DEF TreeRecords
  <2> QED BY <1>1, <2>1, RecordKeyIsInItsLeaf
<1> QED
  BY <1>5, <1>6, <1>7, <1>8, <1>9, <1>10

\* What a lookup finds, from the invariant.
LEMMA FoundIsLast == IInv => FindReturnsLastUpsert
<1> SUFFICES ASSUME IInv, NEW key \in Keys PROVE Found(key) = {upserted[key]}
  BY DEF FindReturnsLastUpsert
<1>1. TreeInv /\ BufferInv /\ RecordInv
  BY DEF IInv
<1>2. /\ key \in Nat /\ min_key \in Nat /\ max_key \in Nat /\ min_key <= max_key
  <2>1. key \in Nat
    BY FITingTreeAssumption DEF FITingTreeAssumption
  <2> QED BY <1>1, <2>1, Bounds
<1>3. /\ \A r \in AllRecords : r.key = key =>
            upserted[key] # NONE /\ r.payload = upserted[key]
      /\ upserted[key] # NONE => \E r \in AllRecords : r.key = key
  BY <1>1, RecordOfKey
<1>4. CASE InTree(key)
  <2>1. PICK f : f = LeafOf(key)
    OBVIOUS
  <2>2. Tree(btree) /\ min_key \in DOMAIN btree /\ min_key <= key
    BY <1>1, <1>4 DEF TreeInv, InTree
  <2>3. f \in DOMAIN btree
    BY <2>1, <2>2, LeafOfKey DEF LastUpTo
  <2>4. LeafOK(btree[f], f)
    BY <2>2, <2>3, TreeFacts
  <2>5. ASSUME NEW p \in Predicted(btree[f], key)
        PROVE  LeafFind(btree[f], key, p) = upserted[key]
    <3>1. /\ \A r \in Content(btree[f]) : r.key = key => LeafFind(btree[f], key, p) = r.payload
          /\ (\A r \in Content(btree[f]) : r.key # key) => LeafFind(btree[f], key, p) = NONE
      BY <2>4, <2>5, LeafFound
    <3>2. \A r \in Content(btree[f]) : r \in AllRecords
      BY <2>3 DEF AllRecords, TreeRecords
    <3>3. \A r \in AllRecords : r.key = key => r \in Content(btree[f])
      BY <1>4, <2>1, WhereRecordsAre
    <3> QED BY <1>3, <3>1, <3>2, <3>3
  <2>6. PICK p : p \in Predicted(btree[f], key)
    <3>1. ArrayOK(btree[f])
      BY <2>4, LeafFacts
    <3> QED BY <3>1, PredictionsExist
  <2>7. Found(key) = {LeafFind(btree[f], key, q) : q \in Predicted(btree[f], key)}
    BY <1>4, <2>1 DEF Found
  <2> QED BY <2>5, <2>6, <2>7
<1>5. CASE key < min_key
  <2>1. Found(key) = {BufferFind(left_buffer, key)}
    BY <1>2, <1>5 DEF Found, InTree
  <2>2. /\ \A r \in Range(left_buffer) : r.key = key => BufferFind(left_buffer, key) = r.payload
        /\ (\A r \in Range(left_buffer) : r.key # key) => BufferFind(left_buffer, key) = NONE
    BY <1>1, BufferFound DEF BufferInv
  <2>3. \A r \in Range(left_buffer) : r \in AllRecords
    BY DEF AllRecords
  <2>4. \A r \in AllRecords : r.key = key => r \in Range(left_buffer)
    BY <1>5, WhereRecordsAre
  <2>5. BufferFind(left_buffer, key) = upserted[key]
    BY <1>3, <2>2, <2>3, <2>4
  <2> QED BY <2>1, <2>5
<1>6. CASE key > max_key
  <2>1. Found(key) = {BufferFind(right_buffer, key)}
    BY <1>2, <1>6 DEF Found, InTree
  <2>2. /\ \A r \in Range(right_buffer) : r.key = key => BufferFind(right_buffer, key) = r.payload
        /\ (\A r \in Range(right_buffer) : r.key # key) => BufferFind(right_buffer, key) = NONE
    BY <1>1, BufferFound DEF BufferInv
  <2>3. \A r \in Range(right_buffer) : r \in AllRecords
    BY DEF AllRecords
  <2>4. \A r \in AllRecords : r.key = key => r \in Range(right_buffer)
    BY <1>6, WhereRecordsAre
  <2>5. BufferFind(right_buffer, key) = upserted[key]
    BY <1>3, <2>2, <2>3, <2>4
  <2> QED BY <2>1, <2>5
<1> QED
  BY <1>2, <1>4, <1>5, <1>6 DEF InTree

\* CoreGet's find returns the payload upserted last for its key, and NONE for a
\* key never upserted, for all keys, payloads, errors, buffer sizes and loads,
\* whatever the linear models predict within their error and wherever the
\* record has been moved to; again until a payload is misread as max_key.
THEOREM FindIsRight == Spec => []FindsUntilMisread
<1>1. (~misread => IInv) => FindsUntilMisread
  BY FoundIsLast DEF FindsUntilMisread
<1> QED
  BY <1>1, Invariant, PTL

-----------------------------------------------------------------------------
(* Range queries.                                                          *)

\* The search of a range's first leaf ends at or before the first record of
\* the range, so that the scan starts at that record.
LEMMA StartIsFirst ==
    ASSUME NEW leaf, NEW f, LeafOK(leaf, f), NEW low \in Keys, NEW p \in Predicted(leaf, low)
    PROVE  /\ StartsAt(leaf, low, p) \in 1 .. Len(leaf.records) + 1
           /\ \A i \in DOMAIN leaf.records :
                 leaf.records[i].key >= low <=> i >= StartsAt(leaf, low, p)
<1>1. PICK s \in Seq(Records) : s = leaf.records
  BY LeafFacts
<1>2. PICK n \in Nat : n = Len(s)
  BY <1>1
<1>3. DOMAIN s = 1 .. n /\ \A i \in 1 .. n : s[i].key \in Nat
  BY <1>2, ArrayFacts
<1>4. low \in Nat
  BY FITingTreeAssumption DEF FITingTreeAssumption
<1>5. Sorted(s)
  BY <1>1 DEF LeafOK
<1>6. PICK q : q = PrecisePosition(leaf, low, p)
  OBVIOUS
<1>7. Near(s, low, q)
  BY <1>1, <1>6, LeafFacts, SearchEndsNear
<1>8. q \in 1 .. n /\ \A i \in 1 .. n : i < q => s[i].key < low
  <2>1. q \in 1 .. n
    BY <1>3, <1>7 DEF Near
  <2>2. CASE s[q].key = low
    BY <1>3, <1>5, <2>1, <2>2 DEF Sorted
  <2>3. CASE s[q].key # low
    BY <1>3, <1>7, <2>1, <2>3 DEF Near
  <2> QED BY <2>1, <2>2, <2>3
<1> DEFINE Starts(i) == /\ i \in DOMAIN s => s[i].key >= low
                        /\ \A j \in q .. i - 1 : s[j].key < low
           T == {i \in q .. n + 1 : i \in 1 .. n => s[i].key >= low}
<1>9. \E i \in q .. n + 1 : Starts(i)
  <2>1. T \subseteq Nat /\ n + 1 \in T
    BY <1>8
  <2>2. PICK i \in T : \A x \in T : i <= x
    <3> HIDE DEF T
    <3> QED BY <2>1, Least
  <2>3. i \in q .. n + 1 /\ (i \in 1 .. n => s[i].key >= low)
    OBVIOUS
  <2>4. ASSUME NEW j \in q .. i - 1
        PROVE  s[j].key < low
    <3>1. j \in q .. n + 1 /\ j < i /\ j \in 1 .. n
      BY <1>8, <2>3
    <3>2. j \notin T
      <4> HIDE DEF T
      <4>1. i \in Nat /\ j \in Nat
        BY <1>8, <2>3, <3>1
      <4> QED BY <2>2, <3>1, <4>1
    <3> QED BY <1>3, <1>4, <3>1, <3>2
  <2> QED BY <1>3, <2>3, <2>4
<1>10. PICK i : i = CHOOSE x \in q .. n + 1 : Starts(x)
  OBVIOUS
<1>11. i \in q .. n + 1 /\ Starts(i)
  <2> HIDE DEF Starts
  <2> QED BY <1>9, <1>10
<1>12. i = StartsAt(leaf, low, p)
  BY <1>1, <1>2, <1>6, <1>10 DEF StartsAt
<1>13. i \in 1 .. n + 1
  BY <1>8, <1>11
<1>14. \A j \in 1 .. n : s[j].key >= low <=> j >= i
  <2> TAKE j \in 1 .. n
  <2>1. j < i => s[j].key < low
    BY <1>8, <1>11
  <2>2. j >= i => s[j].key >= low
    <3> SUFFICES ASSUME j >= i PROVE s[j].key >= low
      OBVIOUS
    <3>1. i \in 1 .. n /\ s[i].key >= low
      BY <1>3, <1>11, <1>13
    <3>2. CASE j = i
      BY <3>1, <3>2
    <3>3. CASE j # i
      <4>1. i < j
        BY <1>13, <3>3
      <4>2. s[i].key < s[j].key
        BY <1>3, <1>5, <3>1, <4>1 DEF Sorted
      <4> QED BY <1>3, <1>4, <3>1, <4>2
    <3> QED BY <3>2, <3>3
  <2> QED BY <1>3, <1>4, <1>13, <2>1, <2>2
<1> QED
  BY <1>1, <1>2, <1>3, <1>12, <1>13, <1>14

\* What a leaf answers, when the scan starts at its first record of the range.
LEMMA LeafAnswersRight ==
    ASSUME NEW leaf, NEW f, LeafOK(leaf, f), NEW low \in Keys, NEW high \in Keys,
           NEW from \in 1 .. Len(leaf.records) + 1,
           \A i \in DOMAIN leaf.records : leaf.records[i].key >= low <=> i >= from
    PROVE  LeafAnswers(leaf, from, low, high) =
              {r \in Content(leaf) : low <= r.key /\ r.key <= high}
<1>1. PICK s \in Seq(Records) : s = leaf.records
  BY LeafFacts
<1>2. PICK n \in Nat : n = Len(s)
  BY <1>1
<1>3. /\ DOMAIN s = 1 .. n /\ \A i \in 1 .. n : s[i].key \in Nat
      /\ \A r : r \in Range(s) <=> \E i \in 1 .. n : r = s[i]
  BY <1>2, ArrayFacts
<1>4. low \in Nat /\ high \in Nat
  BY FITingTreeAssumption DEF FITingTreeAssumption
<1>5. Sorted(s)
  BY <1>1 DEF LeafOK
<1>6. from \in 1 .. n + 1 /\ \A i \in 1 .. n : s[i].key >= low <=> i >= from
  BY <1>1, <1>2, <1>3
<1> DEFINE Scanned == {s[i] : i \in {j \in from .. n : \A m \in from .. j : s[m].key <= high}}
<1>7. Scanned = {r \in Range(s) : low <= r.key /\ r.key <= high}
  <2>1. ASSUME NEW r \in Scanned
        PROVE  r \in Range(s) /\ low <= r.key /\ r.key <= high
    <3>1. PICK i \in from .. n : r = s[i] /\ \A m \in from .. i : s[m].key <= high
      BY <2>1
    <3>2. i \in 1 .. n /\ i >= from /\ i \in from .. i
      BY <1>6
    <3> QED BY <1>3, <1>4, <1>6, <3>1, <3>2
  <2>2. ASSUME NEW r \in Range(s), low <= r.key, r.key <= high
        PROVE  r \in Scanned
    <3>1. PICK i \in 1 .. n : r = s[i]
      BY <1>3
    <3>2. i >= from
      BY <1>3, <1>4, <1>6, <2>2, <3>1
    <3>3. ASSUME NEW m \in from .. i
          PROVE  s[m].key <= high
      <4>1. m \in 1 .. n /\ m <= i
        BY <1>6
      <4>2. CASE m = i
        BY <2>2, <3>1, <4>2
      <4>3. CASE m # i
        <5>1. m < i
          BY <4>1, <4>3
        <5>2. s[m].key < s[i].key
          BY <1>3, <1>5, <4>1, <5>1 DEF Sorted
        <5> QED BY <1>3, <1>4, <2>2, <3>1, <4>1, <5>2
      <4> QED BY <4>2, <4>3
    <3>4. i \in from .. n
      BY <1>6, <3>2
    <3> QED BY <3>1, <3>3, <3>4
  <2> QED BY <2>1, <2>2
<1>8. LeafAnswers(leaf, from, low, high) = BufferRange(leaf.buffer, low, high) \cup Scanned
  BY <1>1, <1>2 DEF LeafAnswers
<1>9. Content(leaf) = Range(s) \cup Range(leaf.buffer)
  BY <1>1 DEF Content
<1>10. BufferRange(leaf.buffer, low, high) = {r \in Range(leaf.buffer) : low <= r.key /\ r.key <= high}
  BY DEF BufferRange
<1> HIDE DEF Scanned
<1> QED
  BY <1>7, <1>8, <1>9, <1>10

\* A query starts in its first leaf at the bound, in the others at their first
\* record.
From(f, low, p) == IF f = LeafOf(low) THEN StartsAt(btree[LeafOf(low)], low, p) ELSE 1

Reached(f, low, high, p) ==
    \A g \in DOMAIN btree : LeafOf(low) <= g /\ g < f => GoesOn(btree[g], From(g, low, p), high)

\* The answers of a query, leaf by leaf.
LEMMA TreeAnswersAre ==
    ASSUME NEW low, NEW high, NEW p, NEW r
    PROVE  r \in TreeAnswers(low, high, p) <=>
              \/ \E f \in DOMAIN btree :
                    /\ LeafOf(low) <= f /\ Reached(f, low, high, p)
                    /\ r \in LeafAnswers(btree[f], From(f, low, p), low, high)
              \/ /\ \A f \in DOMAIN btree :
                       LeafOf(low) <= f => GoesOn(btree[f], From(f, low, p), high)
                 /\ r \in BufferRange(right_buffer, low, high)
<1> DEFINE later == {f \in DOMAIN btree : LeafOf(low) <= f}
           reached(f) == \A g \in later : g < f => GoesOn(btree[g], From(g, low, p), high)
           leaves == UNION {LeafAnswers(btree[f], From(f, low, p), low, high) :
                              f \in {g \in later : reached(g)}}
           toTheEnd == \A f \in later : GoesOn(btree[f], From(f, low, p), high)
           right == IF toTheEnd THEN BufferRange(right_buffer, low, high) ELSE {}
<1>1. TreeAnswers(low, high, p) =
         (UNION {LeafAnswers(btree[f], From(f, low, p), low, high) : f \in {g \in later : reached(g)}})
           \cup IF \A f \in later : GoesOn(btree[f], From(f, low, p), high)
                THEN BufferRange(right_buffer, low, high) ELSE {}
  BY DEF TreeAnswers, From
<1>2. ASSUME NEW f \in DOMAIN btree
      PROVE  reached(f) <=> Reached(f, low, high, p)
  BY DEF Reached
<1>3. r \in leaves <=> \E f \in DOMAIN btree :
                         /\ LeafOf(low) <= f /\ reached(f)
                         /\ r \in LeafAnswers(btree[f], From(f, low, p), low, high)
  <2> HIDE DEF reached
  <2> QED OBVIOUS
<1>4. toTheEnd <=>
         \A f \in DOMAIN btree : LeafOf(low) <= f => GoesOn(btree[f], From(f, low, p), high)
  OBVIOUS
<1>5. r \in right <=> toTheEnd /\ r \in BufferRange(right_buffer, low, high)
  <2> HIDE DEF toTheEnd
  <2> QED OBVIOUS
<1>6. r \in leaves <=> \E f \in DOMAIN btree :
                         /\ LeafOf(low) <= f /\ Reached(f, low, high, p)
                         /\ r \in LeafAnswers(btree[f], From(f, low, p), low, high)
  <2> HIDE DEF reached, leaves
  <2> QED BY <1>2, <1>3
<1>7. TreeAnswers(low, high, p) = leaves \cup right
  <2> HIDE DEF later, reached
  <2> QED BY <1>1 DEF leaves, right, toTheEnd
<1> HIDE DEF later, reached, leaves, toTheEnd, right
<1> QED
  BY <1>4, <1>5, <1>6, <1>7

\* What a range query answers, from the invariant.
LEMMA RangeIsRight == IInv => RangeIsComplete
<1> SUFFICES ASSUME IInv, NEW low \in Keys, NEW high \in Keys, InTree(low), low <= high,
                    NEW p \in Predicted(btree[LeafOf(low)], low)
             PROVE  TreeAnswers(low, high, p) =
                      {Record(k, upserted[k]) :
                         k \in {m \in low .. high : m \in Keys /\ upserted[m] # NONE}}
  BY DEF RangeIsComplete
<1>1. TreeInv /\ BufferInv /\ RecordInv
  BY DEF IInv
<1>2. /\ min_key \in Nat /\ max_key \in Nat /\ low \in Nat /\ high \in Nat
      /\ min_key <= low /\ low <= max_key
      /\ \A r \in TreeRecords(btree) : r.key \in Nat /\ min_key <= r.key /\ r.key <= max_key
  <2>1. low \in Nat /\ high \in Nat
    BY FITingTreeAssumption DEF FITingTreeAssumption
  <2> QED BY <1>1, <2>1, Bounds DEF InTree
<1>3. Tree(btree) /\ min_key \in DOMAIN btree
  BY <1>1 DEF TreeInv
<1>4. PICK first : first = LeafOf(low)
  OBVIOUS
<1>5. /\ first \in DOMAIN btree /\ first \in Nat /\ first <= low
      /\ \A g \in DOMAIN btree : g <= low => g <= first
  <2>1. LastUpTo(DOMAIN btree, low, first)
    BY <1>2, <1>3, <1>4, LeafOfKey
  <2> QED BY <1>3, <2>1, TreeFacts DEF LastUpTo
<1> DEFINE Wanted == {r \in AllRecords : low <= r.key /\ r.key <= high}
<1>6. ASSUME NEW f \in DOMAIN btree, first <= f
      PROVE  /\ From(f, low, p) \in 1 .. Len(btree[f].records) + 1
             /\ \A i \in DOMAIN btree[f].records :
                   btree[f].records[i].key >= low <=> i >= From(f, low, p)
  <2>1. LeafOK(btree[f], f)
    BY <1>3, TreeFacts
  <2>2. CASE f = first
    <3>1. From(f, low, p) = StartsAt(btree[f], low, p) /\ p \in Predicted(btree[f], low)
      BY <1>4, <2>2 DEF From
    <3> QED BY <2>1, <3>1, StartIsFirst
  <2>3. CASE f # first
    <3>1. From(f, low, p) = 1
      BY <1>4, <2>3 DEF From
    <3>2. f \in Nat /\ f > low
      BY <1>2, <1>3, <1>5, <1>6, <2>3, TreeFacts
    <3>3. PICK s \in Seq(Records) : s = btree[f].records
      BY <2>1, LeafFacts
    <3>4. \A i \in DOMAIN s : i \in Nat /\ i >= 1 /\ s[i].key \in Nat /\ s[i] \in Content(btree[f])
      BY <3>3, ArrayFacts DEF Content
    <3>5. \A i \in DOMAIN s : s[i].key >= low
      <4> TAKE i \in DOMAIN s
      <4>1. s[i].key \in Nat /\ f <= s[i].key
        BY <1>3, <3>4, TreeFacts
      <4> QED BY <1>2, <3>2, <4>1
    <3>6. Len(s) \in Nat
      BY <3>3
    <3> QED BY <3>1, <3>3, <3>4, <3>5, <3>6
  <2> QED BY <2>2, <2>3
<1>7. ASSUME NEW f \in DOMAIN btree, first <= f
      PROVE  LeafAnswers(btree[f], From(f, low, p), low, high) =
                {r \in Content(btree[f]) : low <= r.key /\ r.key <= high}
  <2>1. LeafOK(btree[f], f)
    BY <1>3, TreeFacts
  <2> QED BY <1>6, <1>7, <2>1, LeafAnswersRight
<1>8. \A r : r \in TreeAnswers(low, high, p) <=>
         \/ \E f \in DOMAIN btree :
               /\ first <= f /\ Reached(f, low, high, p)
               /\ r \in LeafAnswers(btree[f], From(f, low, p), low, high)
         \/ /\ \A f \in DOMAIN btree :
                  first <= f => GoesOn(btree[f], From(f, low, p), high)
            /\ r \in BufferRange(right_buffer, low, high)
  BY <1>4, TreeAnswersAre
<1>9. ASSUME NEW g \in DOMAIN btree, first <= g,
             \A r \in Content(btree[g]) : r.key <= high
      PROVE  GoesOn(btree[g], From(g, low, p), high)
  <2>1. PICK s \in Seq(Records) : s = btree[g].records
    BY <1>3, TreeFacts, LeafFacts
  <2>2. From(g, low, p) \in 1 .. Len(s) + 1 /\ Len(s) \in Nat /\ DOMAIN s = 1 .. Len(s)
    BY <1>6, <1>9, <2>1, ArrayFacts
  <2>3. \A i \in DOMAIN s : s[i] \in Content(btree[g])
    BY <2>1, ArrayFacts DEF Content
  <2>4. \A i \in From(g, low, p) .. Len(s) : i \in DOMAIN s
    BY <2>2
  <2>5. \A i \in From(g, low, p) .. Len(s) : s[i].key <= high
    BY <1>9, <2>3, <2>4
  <2> QED BY <2>1, <2>5 DEF GoesOn
<1>10. ASSUME NEW r \in TreeAnswers(low, high, p)
       PROVE  r \in Wanted
  <2>1. CASE \E f \in DOMAIN btree :
                first <= f /\ r \in LeafAnswers(btree[f], From(f, low, p), low, high)
    <3>1. PICK f \in DOMAIN btree :
             first <= f /\ r \in LeafAnswers(btree[f], From(f, low, p), low, high)
      BY <2>1
    <3>2. r \in Content(btree[f]) /\ low <= r.key /\ r.key <= high
      BY <1>7, <3>1
    <3> QED BY <3>2 DEF AllRecords, TreeRecords
  <2>2. CASE r \in BufferRange(right_buffer, low, high)
    BY <2>2 DEF BufferRange, AllRecords
  <2> QED BY <1>8, <2>1, <2>2
<1>11. ASSUME NEW r \in Wanted
       PROVE  r \in TreeAnswers(low, high, p)
  <2>1. /\ r \in Records /\ r.key \in Keys /\ r.key \in Nat
        /\ InTree(r.key) => r \in Content(btree[LeafOf(r.key)])
        /\ r.key > max_key => r \in Range(right_buffer)
    BY WhereRecordsAre
  <2>2. low <= r.key /\ r.key <= high
    OBVIOUS
  <2>3. CASE r.key > max_key
    <3>1. r \in BufferRange(right_buffer, low, high)
      BY <2>1, <2>2, <2>3 DEF BufferRange
    <3>2. ASSUME NEW f \in DOMAIN btree, first <= f
          PROVE  GoesOn(btree[f], From(f, low, p), high)
      <4>1. \A q \in Content(btree[f]) : q \in TreeRecords(btree)
        BY DEF TreeRecords
      <4>2. \A q \in Content(btree[f]) : q.key <= high
        BY <1>2, <2>1, <2>2, <2>3, <4>1
      <4> QED BY <1>9, <3>2, <4>2
    <3> QED BY <1>8, <3>1, <3>2
  <2>4. CASE ~(r.key > max_key)
    <3>1. InTree(r.key)
      BY <1>2, <2>1, <2>2, <2>4 DEF InTree
    <3>2. PICK f : f = LeafOf(r.key)
      OBVIOUS
    <3>3. LastUpTo(DOMAIN btree, r.key, f)
      BY <1>3, <2>1, <3>1, <3>2, LeafOfKey DEF InTree
    <3>4. f \in DOMAIN btree /\ first <= f /\ f <= r.key
      BY <1>2, <1>5, <2>1, <2>2, <3>3 DEF LastUpTo
    <3>5. r \in LeafAnswers(btree[f], From(f, low, p), low, high)
      BY <1>7, <2>1, <2>2, <3>1, <3>2, <3>4
    <3>6. ASSUME NEW g \in DOMAIN btree, first <= g, g < f
          PROVE  GoesOn(btree[g], From(g, low, p), high)
      <4>1. \A q \in Content(btree[g]) : q.key \in Nat /\ q.key < f
        BY <1>3, <3>4, <3>6, TreeFacts
      <4>2. f \in Nat
        BY <1>3, <3>4, TreeFacts
      <4>3. \A q \in Content(btree[g]) : q.key <= high
        BY <1>2, <2>1, <2>2, <3>4, <4>1, <4>2
      <4> QED BY <1>9, <3>6, <4>3
    <3>7. Reached(f, low, high, p)
      BY <1>4, <3>6 DEF Reached
    <3> QED BY <1>8, <3>4, <3>5, <3>7
  <2> QED BY <2>3, <2>4
<1>12. Wanted = {Record(k, upserted[k]) :
                   k \in {m \in low .. high : m \in Keys /\ upserted[m] # NONE}}
  <2>1. AllRecords = {Record(k, upserted[k]) : k \in {x \in Keys : upserted[x] # NONE}}
    BY <1>1 DEF RecordInv, LastUpserts
  <2>2. \A k \in Keys : k \in Nat /\ (upserted[k] # NONE => Record(k, upserted[k]).key = k)
    <3>1. \A k \in Keys : upserted[k] # NONE => upserted[k] \in Payloads
      BY <1>1 DEF RecordInv
    <3> QED BY <3>1, RecordFields, FITingTreeAssumption DEF FITingTreeAssumption
  <2>3. ASSUME NEW r \in Wanted
        PROVE  \E k \in low .. high : k \in Keys /\ upserted[k] # NONE /\ r = Record(k, upserted[k])
    <3>1. PICK k \in Keys : upserted[k] # NONE /\ r = Record(k, upserted[k])
      BY <2>1
    <3>2. k \in low .. high
      BY <1>2, <2>2, <3>1
    <3> QED BY <3>1, <3>2
  <2>4. ASSUME NEW k \in low .. high, k \in Keys, upserted[k] # NONE
        PROVE  Record(k, upserted[k]) \in Wanted
    BY <1>2, <2>1, <2>2, <2>4
  <2> QED BY <2>3, <2>4
<1> HIDE DEF Wanted
<1> QED
  BY <1>10, <1>11, <1>12

\* A range query from a bound inside the tree returns every record between its
\* bounds and no other: its start skips none, it goes on from leaf to leaf and
\* into the right buffer for as long as it must; again until a misread.
THEOREM RangesAreComplete == Spec => []RangesUntilMisread
<1>1. (~misread => IInv) => RangesUntilMisread
  BY RangeIsRight DEF RangesUntilMisread
<1> QED
  BY <1>1, Invariant, PTL
=============================================================================
