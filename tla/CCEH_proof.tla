----------------------------- MODULE CCEH_proof -----------------------------
(***************************************************************************)
(* The locks of the extendible hash table, for any threads, keys, hash,    *)
(* sizes and programs: sema counts the threads inside a segment, a split   *)
(* is alone in its segment, and the directory is changed by one thread at  *)
(* a time, although segments appear, directories are replaced and threads  *)
(* hold on to segments that were split in the meantime.  And its splits:   *)
(* what the recursive copy of a segment leaves to be found, also where     *)
(* windows of slots go round the end of a segment.  And its directory,     *)
(* with one thread that inserts while others look up.                      *)
(***************************************************************************)
EXTENDS CCEH, FiniteSetTheorems, TLAPS

-----------------------------------------------------------------------------
(* Sets of numbers, functions given by repetition, powers of two.          *)

\* A set of numbers that is not empty has a least element.
LEMMA Least ==
    ASSUME NEW T, T \subseteq Nat, T # {}
    PROVE  \E x \in T : \A y \in T : x <= y
<1>1. IsWellFoundedOn(OpToRel(<, Nat), Nat)
  BY NatLessThanWellFounded
<1>2. \E x \in T : \A y \in T : ~(<<y, x>> \in OpToRel(<, Nat))
  BY <1>1, WFMin
<1>3. \A x, y \in Nat : ~(<<y, x>> \in OpToRel(<, Nat)) => x <= y
  BY DEF OpToRel
<1>4. QED  BY <1>2, <1>3

\* Induction over the numbers from lo to hi.
LEMMA Induction ==
    ASSUME NEW lo \in Int, NEW hi \in Int, NEW S, lo \in S,
           \A n \in lo + 1 .. hi : n - 1 \in S => n \in S
    PROVE  \A n \in lo .. hi : n \in S
<1> DEFINE T == {m \in Nat : lo + m <= hi /\ lo + m \notin S}
<1>1. ASSUME T # {}
      PROVE  FALSE
  <2>1. PICK m \in T : \A k \in T : m <= k
    <3>1. T \subseteq Nat  OBVIOUS
    <3> HIDE DEF T
    <3>2. QED  BY <1>1, <3>1, Least
  <2>2. m # 0  BY <2>1
  <2>3. m - 1 \notin T
    <3>1. m \in Nat  BY <2>1
    <3> HIDE DEF T
    <3>2. QED  BY <2>1, <3>1
  <2>4. lo + m - 1 \in S  BY <2>1, <2>2, <2>3
  <2>5. lo + m \in lo + 1 .. hi  BY <2>1, <2>2
  <2>6. lo + m \in S  BY <2>4, <2>5
  <2>7. QED  BY <2>1, <2>6
<1>2. ASSUME NEW n \in lo .. hi
      PROVE  n \in S
  <2>1. n - lo \in Nat /\ lo + (n - lo) = n  OBVIOUS
  <2>2. n - lo \notin T
    <3> HIDE DEF T
    <3>1. QED  BY <1>1
  <2>3. QED  BY <2>1, <2>2
<1>3. QED  BY <1>2

\* N steps that stay in A, from a value in A.
Repetitions(N, A, a, F) ==
    {f \in [0 .. N -> A] : f[0] = a /\ \A n \in 1 .. N : f[n] = F[n][f[n - 1]]}

LEMMA Repeated ==
    ASSUME NEW N \in Nat, NEW A, NEW a \in A, NEW F \in [1 .. N -> [A -> A]]
    PROVE  \E f : f \in Repetitions(N, A, a, F)
<1> DEFINE Good(m, f) == f[0] = a /\ \A n \in 1 .. m : f[n] = F[n][f[n - 1]]
           T == {m \in 0 .. N : ~\E f \in [0 .. m -> A] : Good(m, f)}
<1>1. ASSUME T # {}
      PROVE  FALSE
  <2>1. PICK m \in T : \A k \in T : m <= k
    <3>1. T \subseteq Nat  OBVIOUS
    <3> HIDE DEF T
    <3>2. QED  BY <1>1, <3>1, Least
  <2>2. CASE m = 0
    <3>1. Good(0, [n \in 0 .. 0 |-> a])  OBVIOUS
    <3>2. [n \in 0 .. 0 |-> a] \in [0 .. 0 -> A]  OBVIOUS
    <3>3. QED  BY <2>2, <3>1, <3>2
  <2>3. CASE m # 0
    <3>1. m \in 1 .. N /\ m - 1 \in 0 .. N  BY <2>3
    <3>2. m - 1 \notin T
      <4> HIDE DEF T
      <4>1. QED  BY <2>1, <3>1
    <3>3. PICK f \in [0 .. m - 1 -> A] : Good(m - 1, f)  BY <3>1, <3>2
    <3> DEFINE g == [n \in 0 .. m |-> IF n = m THEN F[m][f[m - 1]] ELSE f[n]]
    <3>4. F[m][f[m - 1]] \in A  BY <3>1
    <3>5. g \in [0 .. m -> A]  BY <3>1, <3>4
    <3>6. g[0] = a  BY <3>1, <3>3
    <3>7. \A n \in 1 .. m : g[n] = F[n][g[n - 1]]
      <4> TAKE n \in 1 .. m
      <4>1. CASE n = m
        <5>1. g[n] = F[m][f[m - 1]] /\ g[n - 1] = f[m - 1]  BY <4>1, <3>1
        <5>2. QED  BY <4>1, <5>1
      <4>2. CASE n # m
        <5>1. n \in 1 .. m - 1 /\ g[n] = f[n] /\ g[n - 1] = f[n - 1]
          BY <4>2, <3>1
        <5>2. f[n] = F[n][f[n - 1]]  BY <3>3, <5>1
        <5>3. QED  BY <5>1, <5>2
      <4>3. QED  BY <4>1, <4>2
    <3> HIDE DEF g
    <3>8. QED  BY <3>5, <3>6, <3>7, <2>1
  <2>4. QED  BY <2>2, <2>3
<1>2. N \notin T
  <2> HIDE DEF T
  <2>1. QED  BY <1>1
<1>3. N \in 0 .. N  OBVIOUS
<1>4. QED  BY <1>2, <1>3 DEF Repetitions

\* A set of n elements has 2 ^ n subsets.
LEMMA PowerIsCount ==
    ASSUME NEW n \in Nat, NEW S, IsFiniteSet(S), Cardinality(S) = n
    PROVE  /\ IsFiniteSet(SUBSET S) /\ Cardinality(SUBSET S) = 2 ^ n
           /\ 2 ^ n \in Nat \ {0}
<1>1. IsFiniteSet(SUBSET S) /\ Cardinality(SUBSET S) = 2 ^ n
  BY FS_SUBSET
<1>2. 2 ^ n \in Nat  BY <1>1, FS_CardinalityType
<1>3. S \in SUBSET S  OBVIOUS
<1>4. 2 ^ n # 0  BY <1>1, <1>3, FS_EmptySet
<1>5. QED  BY <1>1, <1>2, <1>4

\* A power of two is a positive number.
LEMMA PowerType == \A n \in Nat : 2 ^ n \in Nat \ {0}
<1> TAKE n \in Nat
<1>1. IsFiniteSet(1 .. n) /\ Cardinality(1 .. n) = n  BY FS_Interval
<1>2. QED  BY <1>1, PowerIsCount

\* A subset of 1 .. m + n is one of the first m numbers and one of the rest.
LEMMA PowerSum == \A m, n \in Nat : 2 ^ (m + n) = 2 ^ m * 2 ^ n
<1> TAKE m, n \in Nat
<1> DEFINE A == 1 .. m
           B == m + 1 .. m + n
           U == 1 .. m + n
           f == [X \in SUBSET U |-> <<X \cap A, X \cap B>>]
<1>1. m + n \in Nat  OBVIOUS
<1>2. IsFiniteSet(A) /\ Cardinality(A) = m  BY FS_Interval
<1>3. IsFiniteSet(B) /\ Cardinality(B) = n  BY FS_Interval
<1>4. IsFiniteSet(U) /\ Cardinality(U) = m + n  BY <1>1, FS_Interval
<1>5. Cardinality((SUBSET A) \X (SUBSET B)) = 2 ^ m * 2 ^ n
  <2>1. IsFiniteSet(SUBSET A) /\ Cardinality(SUBSET A) = 2 ^ m
    BY <1>2, PowerIsCount
  <2>2. IsFiniteSet(SUBSET B) /\ Cardinality(SUBSET B) = 2 ^ n
    BY <1>3, PowerIsCount
  <2>3. QED  BY <2>1, <2>2, FS_Product
<1>6. f \in Bijection(SUBSET U, (SUBSET A) \X (SUBSET B))
  <2>1. U = A \cup B /\ A \cap B = {}  OBVIOUS
  <2>2. f \in [SUBSET U -> (SUBSET A) \X (SUBSET B)]  OBVIOUS
  <2>3. ASSUME NEW X \in SUBSET U, NEW Y \in SUBSET U, f[X] = f[Y]
        PROVE  X = Y
    <3>1. X = (X \cap A) \cup (X \cap B) /\ Y = (Y \cap A) \cup (Y \cap B)
      BY <2>1
    <3>2. X \cap A = Y \cap A /\ X \cap B = Y \cap B
      BY <2>3
    <3>3. QED  BY <3>1, <3>2
  <2>4. ASSUME NEW z \in (SUBSET A) \X (SUBSET B)
        PROVE  \E X \in SUBSET U : f[X] = z
    <3>1. PICK C \in SUBSET A, D \in SUBSET B : z = <<C, D>>
      BY <2>4
    <3>2. C \cup D \in SUBSET U  BY <2>1
    <3>3. (C \cup D) \cap A = C /\ (C \cup D) \cap B = D  BY <2>1
    <3>4. f[C \cup D] = z  BY <3>1, <3>2, <3>3
    <3>5. QED  BY <3>2, <3>4
  <2> HIDE DEF f
  <2>5. QED
    BY <2>2, <2>3, <2>4 DEF Bijection, Injection, Surjection, IsInjective
<1>7. IsFiniteSet(SUBSET U) /\ Cardinality(SUBSET U) = 2 ^ (m + n)
  BY <1>1, <1>4, PowerIsCount
<1> HIDE DEF f, U, A, B
<1>8. QED  BY <1>5, <1>6, <1>7, FS_Bijection DEF ExistsBijection

\* The next power of two is twice this one.
LEMMA PowerStep == \A n \in Nat : 2 ^ (n + 1) = 2 * 2 ^ n
<1> TAKE n \in Nat
<1>1. 2 ^ 1 = 2  OBVIOUS
<1>2. 2 ^ (n + 1) = 2 ^ n * 2 ^ 1  BY PowerSum
<1>3. 2 ^ n \in Nat  BY PowerType
<1>4. QED  BY <1>1, <1>2, <1>3

\* Powers of two grow with the exponent.
LEMMA PowerGrows == \A m, n \in Nat : m <= n => 2 ^ m <= 2 ^ n
<1> SUFFICES ASSUME NEW m \in Nat, NEW n \in Nat, m <= n
             PROVE  2 ^ m <= 2 ^ n
  OBVIOUS
<1> DEFINE a == 2 ^ m
           b == 2 ^ (n - m)
<1>1. n - m \in Nat /\ m + (n - m) = n  OBVIOUS
<1>2. 2 ^ n = a * b  BY <1>1, PowerSum
<1>3. a \in Nat /\ b \in Nat \ {0}  BY <1>1, PowerType
<1> HIDE DEF a, b
<1>4. b >= 1  BY <1>3
<1>5. a <= a * b  BY <1>3, <1>4, Z3
<1>6. QED  BY <1>2, <1>5 DEF a

-----------------------------------------------------------------------------
Semas == [holders : Nat, request : BOOLEAN, exclusive : BOOLEAN]
Segments == [local_depth : InitDepth .. HashBits, pattern : 0 .. 2 ^ HashBits - 1,
             sema : Semas, key : [Slots -> SlotKeys], value : [Slots -> Offsets]]
Locals == [x : Nat, target : Nat, lock : Semas, depth : Nat, i : 0 .. Probe - 1,
           old : Offsets, full : BOOLEAN, split : Nat]

\* The steps before a thread has a lock, and those with the directory's.
OutsideSteps == Labels \ (SharedSteps \cup SplitSteps)
DirectorySteps == {"update", "release"}

SegmentsOK == segment \in Seq(Segments) /\ 1 \in DOMAIN segment

DirectoryOK ==
    /\ DOMAIN dir = {"depth", "lock", "entry"}
    /\ dir.depth \in InitDepth .. HashBits /\ dir.lock \in BOOLEAN
    /\ dir.entry \in [0 .. 2 ^ dir.depth - 1 -> DOMAIN segment]

ThreadsOK ==
    /\ pc \in [Threads -> Labels]
    /\ call \in [Threads -> Calls \cup {NoCall}]
    /\ loc \in [Threads -> Locals]
    /\ done \in [Threads -> Nat]
    /\ result \in [Threads -> Offsets]

\* What a thread has in hand at each step.
Holding(t) ==
    /\ pc[t] # "idle" => call[t] \in Calls
    /\ loc[t].target \in DOMAIN segment
    /\ pc[t] = "segment" => loc[t].x \in DOMAIN dir.entry
    /\ pc[t] \in {"shift", "check", "lock"} => ~Blocked(loc[t].lock)
    /\ pc[t] \in {"pattern", "acquire", "update"} => loc[t].split \in DOMAIN segment

SemaCounts ==
    \A s \in DOMAIN segment :
        /\ segment[s].sema.holders = Cardinality(Inside(s))
        /\ segment[s].sema.exclusive <=> Splitting(s) # {}
        /\ segment[s].sema.exclusive => segment[s].sema.holders = 0 /\ ~segment[s].sema.request

OneSplit ==
    \A t, u \in Threads :
        pc[t] \in SplitSteps /\ pc[u] \in SplitSteps /\ loc[t].target = loc[u].target => t = u

OneInDirectory ==
    /\ dir.lock <=> \E t \in Threads : pc[t] \in DirectorySteps
    /\ \A t, u \in Threads : pc[t] \in DirectorySteps /\ pc[u] \in DirectorySteps => t = u

TypeInv == SegmentsOK /\ DirectoryOK /\ ThreadsOK /\ \A t \in Threads : Holding(t)
LockInv == SemaCounts /\ OneSplit /\ OneInDirectory
IInv == TypeInv /\ LockInv

-----------------------------------------------------------------------------
\* The leading d bits of a hash are one of 2 ^ d.
LEMMA PrefixType ==
    ASSUME NEW k \in SlotKeys, NEW d \in 0 .. HashBits
    PROVE  Prefix(k, d) \in 0 .. 2 ^ d - 1
<1> DEFINE a == 2 ^ d
           b == 2 ^ (HashBits - d)
<1>1. HashBits \in Nat /\ Hash[k] \in 0 .. 2 ^ HashBits - 1
  BY CCEHAssumption
<1>2. a \in Nat \ {0} /\ b \in Nat \ {0} /\ 2 ^ HashBits = a * b
  <2>1. d \in Nat /\ HashBits - d \in Nat /\ d + (HashBits - d) = HashBits
    BY <1>1
  <2>2. QED  BY <2>1, PowerType, PowerSum
<1> HIDE DEF a, b
<1>3. \A h \in Nat : h < a * b => h \div b \in 0 .. a - 1
  BY <1>2, Z3
<1>4. QED  BY <1>1, <1>2, <1>3 DEF Prefix, a, b

LEMMA SemasOK == Free \in Semas /\ Exclusive \in Semas
BY DEF Free, Exclusive, Semas

\* A lock with one shared holder more or less, and one that asks for a split.
LEMMA SharedOK ==
    ASSUME NEW m \in Semas, NEW n \in {1, -1}
    PROVE  /\ m.holders \in Nat
           /\ Shared(m, n).holders = m.holders + n
           /\ Shared(m, n).request = m.request
           /\ Shared(m, n).exclusive = m.exclusive
           /\ m.holders + n >= 0 => Shared(m, n) \in Semas
BY DEF Semas, Shared

LEMMA RequestOK ==
    ASSUME NEW m \in Semas
    PROVE  /\ [m EXCEPT !.request = TRUE] \in Semas
           /\ [m EXCEPT !.request = TRUE].holders = m.holders
           /\ [m EXCEPT !.request = TRUE].exclusive = m.exclusive
BY DEF Semas

-----------------------------------------------------------------------------
(* What the writes to a segment do.                                        *)

LEMMA FieldsOK ==
    ASSUME NEW g \in Segments
    PROVE  /\ g.sema \in Semas /\ g.local_depth \in InitDepth .. HashBits
           /\ g.pattern \in 0 .. 2 ^ HashBits - 1
           /\ g.key \in [Slots -> SlotKeys] /\ g.value \in [Slots -> Offsets]
           /\ \A m \in Semas : [g EXCEPT !.sema = m] \in Segments
           /\ \A p \in 0 .. 2 ^ HashBits - 1 : [g EXCEPT !.pattern = p] \in Segments
           /\ \A d \in InitDepth .. HashBits : [g EXCEPT !.local_depth = d] \in Segments
           /\ \A i \in Slots, k \in SlotKeys :
                 /\ [g EXCEPT !.key[i] = k] \in Segments
                 /\ [g EXCEPT !.key[i] = k].sema = g.sema
           /\ \A i \in Slots, v \in Offsets :
                 /\ [g EXCEPT !.value[i] = v] \in Segments
                 /\ [g EXCEPT !.value[i] = v].sema = g.sema
BY DEF Segments

LEMMA SegmentSet ==
    ASSUME NEW S \in Seq(Segments), NEW n \in DOMAIN S, NEW g \in Segments
    PROVE  /\ [S EXCEPT ![n] = g] \in Seq(Segments)
           /\ DOMAIN [S EXCEPT ![n] = g] = DOMAIN S
           /\ Len([S EXCEPT ![n] = g]) = Len(S)
           /\ [S EXCEPT ![n] = g][n] = g
           /\ \A m \in DOMAIN S \ {n} : [S EXCEPT ![n] = g][m] = S[m]
OBVIOUS

\* A step that sets a lock, and steps that set a slot.
LEMMA SetSemaOK ==
    ASSUME SegmentsOK, NEW t \in Threads, loc[t].target \in DOMAIN segment,
           NEW m \in Semas, SetSema(t, m)
    PROVE  /\ SegmentsOK' /\ DOMAIN segment' = DOMAIN segment
           /\ segment'[loc[t].target].sema = m
           /\ \A s \in DOMAIN segment \ {loc[t].target} : segment'[s] = segment[s]
<1> DEFINE s == loc[t].target
           g == [segment[s] EXCEPT !.sema = m]
<1>1. segment \in Seq(Segments) /\ s \in DOMAIN segment /\ segment[s] \in Segments
  BY DEF SegmentsOK
<1>2. g \in Segments /\ g.sema = m  BY <1>1, FieldsOK DEF Segments
<1>3. segment' = [segment EXCEPT ![s] = g]  BY DEF SetSema
<1> HIDE DEF s, g
<1>4. QED  BY <1>1, <1>2, <1>3, SegmentSet DEF SegmentsOK, s

LEMMA SetSlotOK ==
    ASSUME SegmentsOK, NEW t \in Threads, loc[t].target \in DOMAIN segment, Slot(t) \in Slots,
           \/ \E k \in SlotKeys : SetKey(t, k)
           \/ \E v \in Offsets : SetValue(t, v)
    PROVE  /\ SegmentsOK' /\ DOMAIN segment' = DOMAIN segment
           /\ \A s \in DOMAIN segment : segment'[s].sema = segment[s].sema
<1> DEFINE s == loc[t].target
<1>1. segment \in Seq(Segments) /\ s \in DOMAIN segment /\ segment[s] \in Segments
  BY DEF SegmentsOK
<1>2. \E g \in Segments : segment' = [segment EXCEPT ![s] = g] /\ g.sema = segment[s].sema
  <2>1. CASE \E k \in SlotKeys : SetKey(t, k)
    <3>1. PICK k \in SlotKeys : SetKey(t, k)  BY <2>1
    <3> DEFINE g == [segment[s] EXCEPT !.key[Slot(t)] = k]
    <3>2. segment' = [segment EXCEPT ![s] = g]  BY <3>1 DEF SetKey
    <3>3. g \in Segments /\ g.sema = segment[s].sema  BY <1>1, FieldsOK
    <3> HIDE DEF g
    <3>4. QED  BY <3>2, <3>3
  <2>2. CASE \E v \in Offsets : SetValue(t, v)
    <3>1. PICK v \in Offsets : SetValue(t, v)  BY <2>2
    <3> DEFINE g == [segment[s] EXCEPT !.value[Slot(t)] = v]
    <3>2. segment' = [segment EXCEPT ![s] = g]  BY <3>1 DEF SetValue
    <3>3. g \in Segments /\ g.sema = segment[s].sema  BY <1>1, FieldsOK
    <3> HIDE DEF g
    <3>4. QED  BY <3>2, <3>3
  <2>3. QED  BY <2>1, <2>2
<1> HIDE DEF s
<1>3. QED  BY <1>1, <1>2, SegmentSet DEF SegmentsOK

LEMMA NewSegmentOK ==
    ASSUME NEW d \in InitDepth .. HashBits, NEW p \in 0 .. 2 ^ HashBits - 1
    PROVE  NewSegment(d, p) \in Segments /\ NewSegment(d, p).sema = Free
<1>1. INVALID \in SlotKeys /\ NONE \in Offsets  BY DEF SlotKeys, Offsets
<1>2. Free \in Semas  BY SemasOK
<1> HIDE DEF Slots, SlotKeys, Offsets, Free, Semas
<1>3. QED  BY <1>1, <1>2 DEF NewSegment, Segments

-----------------------------------------------------------------------------
(* Segment::Split fills the new segment slot by slot.                      *)

LEMMA SlotOfType == \A k \in SlotKeys, i \in Nat : SlotOf(k, i) \in Slots
<1> TAKE k \in SlotKeys, i \in Nat
<1>1. Loc[k] \in Nat /\ NumSlots \in Nat \ {0}
  BY CCEHAssumption DEF Slots
<1>2. QED  BY <1>1 DEF SlotOf, Slots

LEMMA Insert4splitOK ==
    ASSUME NEW g \in Segments, NEW k \in SlotKeys, NEW v \in Offsets
    PROVE  Insert4split(g, k, v) \in Segments /\ Insert4split(g, k, v).sema = g.sema
<1> DEFINE open == {i \in 0 .. Probe - 1 : g.key[SlotOf(k, i)] = INVALID}
           first == CHOOSE i \in open : \A j \in open : i <= j
           slot == SlotOf(k, first)
           new == [g EXCEPT !.key[slot] = k, !.value[slot] = v]
<1>1. CASE open = {}
  BY <1>1 DEF Insert4split
<1>2. CASE open # {}
  <2>1. open \subseteq Nat  BY CCEHAssumption
  <2>2. \E i \in open : \A j \in open : i <= j
    <3> HIDE DEF open
    <3>1. QED  BY <1>2, <2>1, Least
  <2>3. first \in open
    <3> HIDE DEF open
    <3>1. QED  BY <2>2
  <2>4. slot \in Slots
    <3> HIDE DEF first, open
    <3>1. QED  BY <2>1, <2>3, SlotOfType
  <2>5. new \in Segments /\ new.sema = g.sema
    <3> HIDE DEF slot
    <3>1. QED  BY <2>4 DEF Segments
  <2>6. Insert4split(g, k, v) = new  BY <1>2 DEF Insert4split
  <2> HIDE DEF new
  <2>7. QED  BY <2>5, <2>6
<1>3. QED  BY <1>1, <1>2

\* The new segment after each slot of the old one: the recursive function of
\* Copied exists.
CopyStep(g, h, n) == IF NextBit(g.key[n - 1], g.local_depth) = 1
                     THEN Insert4split(h, g.key[n - 1], g.value[n - 1]) ELSE h

CopySteps(g) ==
    {c \in [0 .. NumSlots -> {h \in Segments : h.sema = Free}] :
        /\ c[0] = NewSegment(g.local_depth + 1, 0)
        /\ \A n \in 1 .. NumSlots : c[n] = CopyStep(g, c[n - 1], n)
        /\ c[NumSlots] = Copied(g)}

LEMMA CopyStepsExist ==
    ASSUME NEW g \in Segments, g.local_depth < HashBits
    PROVE  \E c : c \in CopySteps(g)
<1> DEFINE A == {h \in Segments : h.sema = Free}
           a == NewSegment(g.local_depth + 1, 0)
           StepTo(n, h) == CopyStep(g, h, n)
           F == [n \in 1 .. NumSlots |-> [h \in A |-> StepTo(n, h)]]
           copy == CHOOSE f : f = [n \in 0 .. NumSlots |->
                                      IF n = 0 THEN a ELSE StepTo(n, f[n - 1])]
<1>1. a \in A
  <2>1. g.local_depth + 1 \in InitDepth .. HashBits /\ 0 \in 0 .. 2 ^ HashBits - 1
    BY FieldsOK, CCEHAssumption, PowerType
  <2>2. QED  BY <2>1, NewSegmentOK
<1>2. \A n \in 1 .. NumSlots, h \in A : StepTo(n, h) \in A
  <2> TAKE n \in 1 .. NumSlots, h \in A
  <2>1. n - 1 \in Slots  BY CCEHAssumption DEF Slots
  <2>2. g.key[n - 1] \in SlotKeys /\ g.value[n - 1] \in Offsets
    BY <2>1, FieldsOK
  <2>3. QED  BY <2>2, Insert4splitOK DEF CopyStep
<1> HIDE DEF A, a, StepTo, copy
<1>3. F \in [1 .. NumSlots -> [A -> A]]  BY <1>2
<1>4. \E f \in [0 .. NumSlots -> A] :
         f = [n \in 0 .. NumSlots |-> IF n = 0 THEN a ELSE StepTo(n, f[n - 1])]
  <2>1. PICK f \in [0 .. NumSlots -> A] :
           f[0] = a /\ \A n \in 1 .. NumSlots : f[n] = F[n][f[n - 1]]
    <3> HIDE DEF F
    <3>1. NumSlots \in Nat  BY CCEHAssumption
    <3>2. PICK f : f \in Repetitions(NumSlots, A, a, F)
      BY <1>1, <1>3, <3>1, Repeated
    <3>3. QED  BY <3>2 DEF Repetitions
  <2>2. \A n \in 1 .. NumSlots : F[n][f[n - 1]] = StepTo(n, f[n - 1])
    BY CCEHAssumption
  <2> DEFINE e == [n \in 0 .. NumSlots |-> IF n = 0 THEN a ELSE StepTo(n, f[n - 1])]
  <2>3. \A n \in 0 .. NumSlots : f[n] = e[n]
    <3> HIDE DEF F
    <3>1. \A n \in 0 .. NumSlots : n = 0 \/ n \in 1 .. NumSlots  OBVIOUS
    <3>2. QED  BY <2>1, <2>2, <3>1
  <2>4. e \in [0 .. NumSlots -> A]
    <3>1. \A n \in 0 .. NumSlots : e[n] \in A  BY <2>3
    <3>2. QED  BY <3>1
  <2>5. f = e
    <3> HIDE DEF e, F
    <3>1. f \in [0 .. NumSlots -> A]  BY <2>1
    <3>2. QED  BY <3>1, <2>3, <2>4, CCEHAssumption
  <2>6. QED  BY <2>5
<1>5. copy = [n \in 0 .. NumSlots |-> IF n = 0 THEN a ELSE StepTo(n, copy[n - 1])]
  BY <1>4 DEF copy
<1>6. \A n \in 0 .. NumSlots : copy[n] \in A
  <2> DEFINE T == {n \in 0 .. NumSlots : copy[n] \notin A}
  <2>1. ASSUME T # {}
        PROVE  FALSE
    <3>1. PICK n \in T : \A m \in T : n <= m
      <4>1. T \subseteq Nat  BY CCEHAssumption
      <4> HIDE DEF T
      <4>2. QED  BY <2>1, <4>1, Least
    <3> HIDE DEF copy
    <3>2. n # 0  BY <1>1, <1>5, <3>1, CCEHAssumption
    <3>3. n \in 1 .. NumSlots /\ copy[n - 1] \in A  BY <3>1, <3>2, CCEHAssumption
    <3>4. copy[n] = StepTo(n, copy[n - 1])  BY <1>5, <3>2, <3>3
    <3>5. QED  BY <1>2, <3>1, <3>3, <3>4
  <2> HIDE DEF copy
  <2>2. QED  BY <2>1
<1>7. Copied(g) = copy[NumSlots]  BY DEF Copied, a, StepTo, CopyStep, copy
<1>8. copy \in [0 .. NumSlots -> A]
  <2> HIDE DEF copy
  <2>1. QED  BY <1>5, <1>6
<1>9. copy[0] = a /\ \A n \in 1 .. NumSlots : copy[n] = CopyStep(g, copy[n - 1], n)
  <2> HIDE DEF copy
  <2>1. QED  BY <1>5, CCEHAssumption DEF StepTo
<1> HIDE DEF copy
<1>10. QED  BY <1>7, <1>8, <1>9 DEF CopySteps, A, a

LEMMA CopiedOK ==
    ASSUME NEW g \in Segments, g.local_depth < HashBits
    PROVE  Copied(g) \in Segments /\ Copied(g).sema = Free
<1>1. PICK c : c \in CopySteps(g)  BY CopyStepsExist
<1>2. NumSlots \in 0 .. NumSlots  BY CCEHAssumption
<1>3. QED  BY <1>1, <1>2 DEF CopySteps

-----------------------------------------------------------------------------
(* How the steps of a thread change who holds which lock.                  *)

OnlyMoves(t) ==
    \A u \in Threads \ {t} : pc'[u] = pc[u] /\ call'[u] = call[u] /\ loc'[u] = loc[u]

LEMMA StepsApart ==
    /\ SharedSteps \cap SplitSteps = {} /\ DirectorySteps \subseteq SplitSteps
    /\ \A x : x \in OutsideSteps => x \notin SharedSteps /\ x \notin SplitSteps
    /\ \A x \in Labels : x \in SharedSteps \/ x \in SplitSteps \/ x \in OutsideSteps
BY DEF SharedSteps, SplitSteps, DirectorySteps, OutsideSteps, Labels

LEMMA InsideOK ==
    ASSUME NEW s
    PROVE  /\ IsFiniteSet(Inside(s)) /\ Cardinality(Inside(s)) \in Nat
           /\ Cardinality(Inside(s)) <= Cardinality(Threads)
           /\ Cardinality(Inside(s)) = 0 <=> Inside(s) = {}
<1>1. Inside(s) \in SUBSET Threads  BY DEF Inside
<1>2. QED  BY <1>1, CCEHAssumption, FS_Subset, FS_CardinalityType, FS_EmptySet

\* A thread goes on inside or outside; segments may be added.
LEMMA SameLocks ==
    ASSUME SemaCounts, OneSplit, NEW t \in Threads, OnlyMoves(t),
           \A u \in Threads : loc[u].target \in DOMAIN segment,
           DOMAIN segment \subseteq DOMAIN segment',
           \A s \in DOMAIN segment : segment'[s].sema = segment[s].sema,
           \A s \in DOMAIN segment' \ DOMAIN segment : segment'[s].sema = Free,
           \/ pc[t] \in OutsideSteps /\ pc'[t] \in OutsideSteps
           \/ /\ pc[t] \in SharedSteps /\ pc'[t] \in SharedSteps
              /\ loc'[t].target = loc[t].target
           \/ /\ pc[t] \in SplitSteps /\ pc'[t] \in SplitSteps
              /\ loc'[t].target = loc[t].target
    PROVE  SemaCounts' /\ OneSplit'
<1> DEFINE In(u) == pc[u] \in SharedSteps
           At(u) == pc[u] \in SplitSteps
<1>1. \A u \in Threads : /\ In(u)' <=> In(u)
                         /\ At(u)' <=> At(u)
                         /\ In(u) \/ At(u) => loc'[u].target = loc[u].target
  BY StepsApart DEF OnlyMoves
<1>2. \A s : Inside(s)' = Inside(s)  BY <1>1 DEF Inside
<1>3. \A s : Splitting(s)' = Splitting(s)  BY <1>1 DEF Splitting
<1>4. \A s \in DOMAIN segment' \ DOMAIN segment : Inside(s) = {} /\ Splitting(s) = {}
  BY DEF Inside, Splitting
<1>5. SemaCounts'
  <2> SUFFICES ASSUME NEW s \in DOMAIN segment'
               PROVE  /\ segment'[s].sema.holders = Cardinality(Inside(s))
                      /\ segment'[s].sema.exclusive <=> Splitting(s) # {}
                      /\ segment'[s].sema.exclusive =>
                            segment'[s].sema.holders = 0 /\ ~segment'[s].sema.request
    BY <1>2, <1>3 DEF SemaCounts
  <2>1. CASE s \in DOMAIN segment  BY <2>1 DEF SemaCounts
  <2>2. CASE s \notin DOMAIN segment
    <3>1. Inside(s) = {} /\ Splitting(s) = {} /\ segment'[s].sema = Free
      BY <2>2, <1>4
    <3>2. Cardinality(Inside(s)) = 0  BY <3>1, FS_EmptySet
    <3>3. Free.holders = 0 /\ ~Free.exclusive  BY DEF Free
    <3>4. QED  BY <3>1, <3>2, <3>3
  <2>3. QED  BY <2>1, <2>2
<1>6. OneSplit'  BY <1>1 DEF OneSplit
<1>7. QED  BY <1>5, <1>6

\* A thread takes a lock from outside, or gives it back.
LEMMA EnterOrLeave ==
    ASSUME SemaCounts, OneSplit, NEW t \in Threads, OnlyMoves(t),
           NEW s \in DOMAIN segment, s = loc[t].target,
           segment[s].sema \in Semas,
           DOMAIN segment' = DOMAIN segment,
           \A r \in DOMAIN segment \ {s} : segment'[r] = segment[r],
           \/ /\ pc[t] \in OutsideSteps /\ pc'[t] \in SharedSteps
              /\ loc'[t].target = s
              /\ ~segment[s].sema.exclusive
              /\ segment'[s].sema = Shared(segment[s].sema, 1)
           \/ /\ pc[t] \in SharedSteps /\ pc'[t] \in OutsideSteps
              /\ segment'[s].sema = Shared(segment[s].sema, -1)
    PROVE  /\ SemaCounts' /\ OneSplit'
           /\ segment'[s].sema \in Semas
<1> DEFINE m == segment[s].sema
<1>1. \A r : Splitting(r)' = Splitting(r)
  BY StepsApart DEF Splitting, OnlyMoves
<1>2. \A r : r # s => Inside(r)' = Inside(r)
  BY StepsApart DEF Inside, OnlyMoves
<1>3. OneSplit'
  BY StepsApart DEF OneSplit, OnlyMoves
<1>4. m.holders = Cardinality(Inside(s)) /\ (m.exclusive <=> Splitting(s) # {})
      /\ (m.exclusive => m.holders = 0 /\ ~m.request)
  BY DEF SemaCounts
<1>5. m \in Semas  OBVIOUS
<1> HIDE DEF m
<1>6. \A n \in {1, -1} : /\ m.holders \in Nat
                         /\ Shared(m, n).holders = m.holders + n
                         /\ Shared(m, n).exclusive = m.exclusive
                         /\ m.holders + n >= 0 => Shared(m, n) \in Semas
  BY <1>5, SharedOK
<1>7. CASE pc[t] \in OutsideSteps
  <2>1. /\ pc'[t] \in SharedSteps /\ loc'[t].target = s /\ ~m.exclusive
        /\ segment'[s].sema = Shared(m, 1)
    BY <1>7, StepsApart DEF m
  <2>2. Inside(s)' = Inside(s) \cup {t} /\ t \notin Inside(s)
    BY <1>7, <2>1, StepsApart DEF Inside, OnlyMoves
  <2>3. Cardinality(Inside(s)') = Cardinality(Inside(s)) + 1
    BY <2>2, InsideOK, FS_AddElement, ZenonT(30)
  <2>4. /\ segment'[s].sema.holders = m.holders + 1
        /\ segment'[s].sema.exclusive = m.exclusive /\ segment'[s].sema \in Semas
    BY <2>1, <1>6
  <2>5. SemaCounts'
    BY <1>1, <1>2, <1>4, <2>1, <2>3, <2>4 DEF SemaCounts, m
  <2>6. QED  BY <1>3, <2>4, <2>5
<1>8. CASE pc[t] \in SharedSteps
  <2>1. segment'[s].sema = Shared(m, -1) /\ pc'[t] \in OutsideSteps
    BY <1>8, StepsApart DEF m
  <2>2. Inside(s)' = Inside(s) \ {t} /\ t \in Inside(s)
    BY <1>8, <2>1, StepsApart DEF Inside, OnlyMoves
  <2>3. Cardinality(Inside(s)') = Cardinality(Inside(s)) - 1
    <3>1. IsFiniteSet(Inside(s))  BY InsideOK
    <3>2. QED  BY <2>2, <3>1, FS_RemoveElement, ZenonT(30)
  <2>4. m.holders > 0  BY <1>4, <2>2, InsideOK
  <2>5. /\ segment'[s].sema.holders = m.holders - 1
        /\ segment'[s].sema.exclusive = m.exclusive /\ segment'[s].sema \in Semas
    BY <2>1, <2>4, <1>6
  <2>6. ~m.exclusive  BY <1>4, <2>4
  <2>7. SemaCounts'
    BY <1>6, <1>1, <1>2, <1>4, <2>3, <2>4, <2>5, <2>6 DEF SemaCounts, m
  <2>8. QED  BY <1>3, <2>5, <2>7
<1>9. QED  BY <1>7, <1>8

\* A thread asks for a split, begins one or ends one.
LEMMA SplitLocks ==
    ASSUME SemaCounts, OneSplit, NEW t \in Threads, OnlyMoves(t),
           NEW s \in DOMAIN segment, s = loc[t].target,
           DOMAIN segment' = DOMAIN segment,
           \A r \in DOMAIN segment \ {s} : segment'[r] = segment[r],
           \/ /\ pc[t] \in OutsideSteps /\ pc'[t] \in OutsideSteps
              /\ \/ segment'[s].sema = segment[s].sema
                 \/ /\ ~segment[s].sema.exclusive /\ ~segment'[s].sema.exclusive
                    /\ segment'[s].sema.holders = segment[s].sema.holders
           \/ /\ pc[t] \in OutsideSteps /\ pc'[t] \in SplitSteps
              /\ loc'[t].target = s
              /\ MayTakeOver(segment[s].sema)
              /\ segment'[s].sema = Exclusive
           \/ /\ pc[t] \in SplitSteps /\ pc'[t] \in OutsideSteps
              /\ segment'[s].sema = Free
    PROVE  SemaCounts' /\ OneSplit'
<1>1. \A r : Inside(r)' = Inside(r)
  BY StepsApart DEF Inside, OnlyMoves
<1>2. \A r : r # s => Splitting(r)' = Splitting(r)
  BY StepsApart DEF Splitting, OnlyMoves
<1>3. /\ segment[s].sema.holders = Cardinality(Inside(s))
      /\ segment[s].sema.exclusive <=> Splitting(s) # {}
      /\ segment[s].sema.exclusive => segment[s].sema.holders = 0 /\ ~segment[s].sema.request
  BY DEF SemaCounts
<1>4. ASSUME pc[t] \in OutsideSteps, pc'[t] \in OutsideSteps
      PROVE  SemaCounts' /\ OneSplit'
  <2>1. Splitting(s)' = Splitting(s)
    BY <1>4, StepsApart DEF Splitting, OnlyMoves
  <2>2. OneSplit'  BY <1>4, StepsApart DEF OneSplit, OnlyMoves
  <2>3. SemaCounts'
    BY <1>1, <1>2, <1>3, <1>4, <2>1, StepsApart DEF SemaCounts
  <2>4. QED  BY <2>2, <2>3
<1>5. ASSUME pc[t] \in OutsideSteps, pc'[t] \in SplitSteps
      PROVE  SemaCounts' /\ OneSplit'
  <2>1. /\ loc'[t].target = s /\ MayTakeOver(segment[s].sema)
        /\ segment'[s].sema = Exclusive
    BY <1>5, StepsApart
  <2>2. Splitting(s) = {} /\ Cardinality(Inside(s)) = 0
    BY <1>3, <2>1 DEF MayTakeOver
  <2>3. t \in Splitting(s)'  BY <1>5, <2>1 DEF Splitting
  <2>4. \A u \in Threads : pc[u] \in SplitSteps => loc[u].target # s
    BY <2>2 DEF Splitting
  <2>5. OneSplit'
    BY <1>5, <2>1, <2>4, StepsApart DEF OneSplit, OnlyMoves
  <2>6. Exclusive.holders = 0 /\ Exclusive.exclusive /\ ~Exclusive.request
    BY DEF Exclusive
  <2>7. SemaCounts'
    BY <1>1, <1>2, <2>1, <2>2, <2>3, <2>6 DEF SemaCounts
  <2>8. QED  BY <2>5, <2>7
<1>6. ASSUME pc[t] \in SplitSteps, pc'[t] \in OutsideSteps
      PROVE  SemaCounts' /\ OneSplit'
  <2>1. segment'[s].sema = Free  BY <1>6, StepsApart
  <2>2. t \in Splitting(s)  BY <1>6 DEF Splitting
  <2>3. Cardinality(Inside(s)) = 0  BY <1>3, <2>2
  <2>4. Splitting(s)' = {}
    BY <1>6, <2>2, StepsApart DEF OneSplit, Splitting, OnlyMoves
  <2>5. OneSplit'  BY <1>6, StepsApart DEF OneSplit, OnlyMoves
  <2>6. Free.holders = 0 /\ ~Free.exclusive  BY DEF Free
  <2>7. SemaCounts'
    BY <1>1, <1>2, <2>1, <2>3, <2>4, <2>6 DEF SemaCounts
  <2>8. QED  BY <2>5, <2>7
<1>7. QED  BY <1>4, <1>5, <1>6

LEMMA DirectoryKept ==
    ASSUME DirectoryOK, OneInDirectory, NEW t \in Threads, OnlyMoves(t),
           UNCHANGED dir, DOMAIN segment \subseteq DOMAIN segment',
           pc[t] \in DirectorySteps <=> pc'[t] \in DirectorySteps
    PROVE  DirectoryOK' /\ OneInDirectory'
<1>1. DirectoryOK'  BY DEF DirectoryOK
<1>2. \A u \in Threads : pc[u] \in DirectorySteps <=> pc'[u] \in DirectorySteps
  BY DEF OnlyMoves
<1>3. OneInDirectory'  BY <1>2 DEF OneInDirectory
<1>4. QED  BY <1>1, <1>3

LEMMA Kept ==
    ASSUME IInv, NEW t \in Threads, OnlyMoves(t), SegmentsOK', DirectoryOK', ThreadsOK',
           Holding(t)', SemaCounts', OneSplit', OneInDirectory',
           DOMAIN segment \subseteq DOMAIN segment',
           DOMAIN dir.entry \subseteq DOMAIN dir'.entry
    PROVE  IInv'
<1>1. ASSUME NEW u \in Threads
      PROVE  Holding(u)'
  <2>1. CASE u = t  BY <2>1
  <2>2. CASE u # t
    <3>1. pc'[u] = pc[u] /\ call'[u] = call[u] /\ loc'[u] = loc[u]
      BY <2>2 DEF OnlyMoves
    <3>2. Holding(u)  BY DEF IInv, TypeInv
    <3>3. QED  BY <3>1, <3>2 DEF Holding, Blocked
  <2>3. QED  BY <2>1, <2>2
<1>2. QED  BY <1>1 DEF IInv, TypeInv, LockInv

\* A step that changes only the thread's own state and takes no lock.
LEMMA KeptApart ==
    ASSUME IInv, NEW t \in Threads, OnlyMoves(t), UNCHANGED <<segment, dir>>,
           ThreadsOK', Holding(t)',
           \/ pc[t] \in OutsideSteps /\ pc'[t] \in OutsideSteps
           \/ /\ pc[t] \in SharedSteps /\ pc'[t] \in SharedSteps
              /\ loc'[t].target = loc[t].target
    PROVE  IInv'
<1>1. SemaCounts' /\ OneSplit'
  BY SameLocks DEF IInv, TypeInv, LockInv, Holding
<1>2. DirectoryOK' /\ OneInDirectory'
  BY DirectoryKept, StepsApart DEF IInv, TypeInv, LockInv
<1>3. SegmentsOK'  BY DEF IInv, TypeInv, SegmentsOK
<1>4. QED  BY <1>1, <1>2, <1>3, Kept

-----------------------------------------------------------------------------
(* What the steps of a thread do to its own state.                         *)

LEMMA NoLocalsOK == NoLocals \in Locals /\ NoLocals.target = 1
<1>1. NONE \in Offsets  BY DEF Offsets
<1>2. QED  BY <1>1, SemasOK, CCEHAssumption DEF NoLocals, Locals

\* A step to another label.
LEMMA Moves ==
    ASSUME ThreadsOK, NEW t \in Threads, NEW from, NEW to \in Labels, Continue(t, from, to),
           NEW l \in Locals, loc' = [loc EXCEPT ![t] = l]
    PROVE  /\ ThreadsOK' /\ OnlyMoves(t)
           /\ pc[t] = from /\ pc'[t] = to /\ call'[t] = call[t] /\ loc'[t] = l
BY DEF ThreadsOK, Continue, GoTo, OnlyMoves

LEMMA MovesOnly ==
    ASSUME ThreadsOK, NEW t \in Threads, NEW from, NEW to \in Labels, Continue(t, from, to),
           UNCHANGED loc
    PROVE  /\ ThreadsOK' /\ OnlyMoves(t)
           /\ pc[t] = from /\ pc'[t] = to /\ call'[t] = call[t] /\ loc'[t] = loc[t]
BY DEF ThreadsOK, Continue, GoTo, OnlyMoves

LEMMA Returns ==
    ASSUME ThreadsOK, NEW t \in Threads, NEW from, NEW v \in Offsets, Return(t, from, v)
    PROVE  /\ ThreadsOK' /\ OnlyMoves(t)
           /\ pc[t] = from /\ pc'[t] = "idle" /\ loc'[t] = NoLocals
BY NoLocalsOK DEF ThreadsOK, Return, GoTo, OnlyMoves, Labels

\* Which label is which kind of step.
LEMMA LabelsOK ==
    /\ {"idle", "depth", "segment", "load", "shift", "check", "lock", "split", "g_lock"}
          = OutsideSteps
    /\ SharedSteps \subseteq Labels /\ SplitSteps \subseteq Labels /\ OutsideSteps \subseteq Labels
BY DEF SharedSteps, SplitSteps, OutsideSteps, Labels

\* What IInv says of one thread.
LEMMA Facts ==
    ASSUME IInv, NEW t \in Threads
    PROVE  /\ SegmentsOK /\ DirectoryOK /\ ThreadsOK /\ SemaCounts /\ OneSplit
           /\ OneInDirectory /\ Holding(t)
           /\ loc[t] \in Locals /\ loc[t].target \in DOMAIN segment
           /\ Target(t) \in Segments /\ loc[t].target \in Nat
           /\ \A s \in DOMAIN segment : segment[s] \in Segments /\ s \in Nat
           /\ pc[t] # "idle" => call[t] \in Calls /\ Key(t) \in Keys /\ Key(t) \in SlotKeys
           /\ \A d \in 0 .. HashBits : pc[t] # "idle" => Prefix(Key(t), d) \in Nat
           /\ pc[t] # "idle" => Slot(t) \in Slots
<1>1. /\ SegmentsOK /\ DirectoryOK /\ ThreadsOK /\ SemaCounts /\ OneSplit
      /\ OneInDirectory /\ Holding(t)
  BY DEF IInv, TypeInv, LockInv
<1>2. loc[t] \in Locals /\ loc[t].target \in DOMAIN segment
  BY <1>1 DEF ThreadsOK, Holding
<1>3. \A s \in DOMAIN segment : segment[s] \in Segments /\ s \in Nat
  BY <1>1 DEF SegmentsOK
<1>4. Target(t) \in Segments /\ loc[t].target \in Nat
  BY <1>2, <1>3 DEF Target
<1>5. ASSUME pc[t] # "idle"
      PROVE  /\ call[t] \in Calls /\ Key(t) \in Keys /\ Key(t) \in SlotKeys
             /\ \A d \in 0 .. HashBits : Prefix(Key(t), d) \in Nat
             /\ Slot(t) \in Slots
  <2>1. call[t] \in Calls /\ Key(t) \in Keys /\ Key(t) \in SlotKeys
    BY <1>1, <1>5 DEF Holding, Calls, Key, SlotKeys
  <2>2. \A d \in 0 .. HashBits : Prefix(Key(t), d) \in Nat
    <3> TAKE d \in 0 .. HashBits
    <3>1. d \in Nat /\ 2 ^ d \in Nat \ {0}  BY PowerType, CCEHAssumption
    <3>2. QED  BY <2>1, <3>1, PrefixType
  <2>3. loc[t].i \in Nat  BY <1>2, CCEHAssumption DEF Locals
  <2>4. Slot(t) \in Slots  BY <2>1, <2>3, SlotOfType DEF Slot
  <2>5. QED  BY <2>1, <2>2, <2>4
<1>6. QED  BY <1>1, <1>2, <1>3, <1>4, <1>5

LEMMA OffsetsOK ==
    ASSUME IInv, NEW t \in Threads
    PROVE  /\ Value(t) \in Offsets
           /\ pc[t] # "idle" => Target(t).value[Slot(t)] \in Offsets
                                /\ Target(t).key[Slot(t)] \in SlotKeys
<1>1. done[t] \in Nat  BY Facts DEF ThreadsOK
<1>2. Value(t) \in Offsets
  BY <1>1 DEF Value, Offsets, Values
<1>3. ASSUME pc[t] # "idle"
      PROVE  /\ Target(t).value[Slot(t)] \in Offsets
             /\ Target(t).key[Slot(t)] \in SlotKeys
  <2>1. Slot(t) \in Slots /\ Target(t) \in Segments  BY <1>3, Facts
  <2>2. QED  BY <2>1, FieldsOK
<1>4. QED  BY <1>2, <1>3

-----------------------------------------------------------------------------
(* The steps of a thread that has no lock of a segment.                    *)

LEMMA StartKeeps == ASSUME IInv, NEW t \in Threads, Start(t)  PROVE IInv'
<1>1. PICK x \in Program[t][done[t] + 1] : call' = [call EXCEPT ![t] = x]
  BY DEF Start
<1>2. x \in Calls
  <2>1. done[t] \in Nat /\ done[t] < Len(Program[t]) /\ Program[t] \in Seq(SUBSET Calls)
    BY Facts, CCEHAssumption DEF Start, ThreadsOK
  <2>2. Program[t][done[t] + 1] \in SUBSET Calls  BY <2>1
  <2>3. QED  BY <1>1, <2>2
<1>3. ThreadsOK' /\ OnlyMoves(t) /\ UNCHANGED <<segment, dir>>
  BY <1>1, <1>2, Facts DEF Start, GoTo, ThreadsOK, OnlyMoves, Labels
<1>4. pc[t] = "idle" /\ pc'[t] = "depth" /\ call'[t] = x /\ loc'[t] = loc[t]
  BY <1>1, Facts DEF Start, GoTo, ThreadsOK
<1>5. Holding(t)'
  BY <1>2, <1>3, <1>4, Facts DEF Holding
<1>6. QED  BY <1>3, <1>4, <1>5, KeptApart, LabelsOK

LEMMA ReadDepthKeeps == ASSUME IInv, NEW t \in Threads, ReadDepth(t)  PROVE IInv'
<1> DEFINE x == Prefix(Key(t), dir.depth)
           l == [loc[t] EXCEPT !.x = x]
<1>1. Continue(t, "depth", "segment") /\ loc' = [loc EXCEPT ![t] = l]
  BY DEF ReadDepth
<1>2. UNCHANGED <<segment, dir>>  BY DEF ReadDepth
<1>3. pc[t] = "depth"  BY <1>1 DEF Continue, GoTo
<1>4. x \in DOMAIN dir.entry /\ x \in Nat
  <2>1. dir.depth \in 0 .. HashBits /\ DOMAIN dir.entry = 0 .. 2 ^ dir.depth - 1
    BY Facts, CCEHAssumption DEF DirectoryOK
  <2>2. QED  BY <1>3, <2>1, Facts, PrefixType
<1> HIDE DEF x
<1>5. l \in Locals /\ l.target = loc[t].target /\ l.x = x
  BY <1>4, Facts DEF Locals
<1> HIDE DEF l
<1>6. /\ ThreadsOK' /\ OnlyMoves(t) /\ pc'[t] = "segment"
      /\ call'[t] = call[t] /\ loc'[t] = l
  BY <1>1, <1>5, Facts, Moves DEF Labels
<1>7. Holding(t)'
  BY <1>2, <1>3, <1>4, <1>5, <1>6, Facts DEF Holding
<1>8. QED  BY <1>2, <1>3, <1>6, <1>7, KeptApart, LabelsOK

LEMMA ReadSegmentKeeps == ASSUME IInv, NEW t \in Threads, ReadSegment(t)  PROVE IInv'
<1> DEFINE s == dir.entry[loc[t].x]
           l == [loc[t] EXCEPT !.target = s]
           to == IF call[t].name = "get" THEN "g_lock" ELSE "load"
<1>1. Continue(t, "segment", to) /\ loc' = [loc EXCEPT ![t] = l]
  BY DEF ReadSegment
<1>2. UNCHANGED <<segment, dir>>  BY DEF ReadSegment
<1>3. pc[t] = "segment"  BY <1>1 DEF Continue, GoTo
<1>4. s \in DOMAIN segment /\ s \in Nat
  BY <1>3, Facts DEF Holding, DirectoryOK
<1> HIDE DEF s
<1>5. l \in Locals /\ l.target = s
  BY <1>4, Facts DEF Locals
<1> HIDE DEF l
<1>6. to \in {"g_lock", "load"}  OBVIOUS
<1> HIDE DEF to
<1>7. /\ ThreadsOK' /\ OnlyMoves(t) /\ pc'[t] = to
      /\ call'[t] = call[t] /\ loc'[t] = l
  BY <1>1, <1>5, <1>6, Facts, Moves DEF Labels
<1>8. Holding(t)'
  BY <1>2, <1>3, <1>4, <1>5, <1>6, <1>7, Facts DEF Holding
<1>9. QED  BY <1>2, <1>3, <1>6, <1>7, <1>8, KeptApart, LabelsOK

LEMMA LoadSemaKeeps == ASSUME IInv, NEW t \in Threads, LoadSema(t)  PROVE IInv'
<1> DEFINE m == Target(t).sema
           l == [loc[t] EXCEPT !.lock = m]
           to == AfterLoad(m, "shift")
<1>1. Continue(t, "load", to) /\ loc' = [loc EXCEPT ![t] = l]
  BY DEF LoadSema
<1>2. UNCHANGED <<segment, dir>>  BY DEF LoadSema
<1>3. pc[t] = "load"  BY <1>1 DEF Continue, GoTo
<1>4. m \in Semas  BY Facts, FieldsOK
<1>5. l \in Locals /\ l.target = loc[t].target /\ l.lock = m
  BY <1>4, Facts DEF Locals
<1>6. to \in {"depth", "split", "shift"} /\ (to = "shift" => ~Blocked(m))
  BY DEF AfterLoad, Blocked
<1> HIDE DEF m, l, to
<1>7. /\ ThreadsOK' /\ OnlyMoves(t) /\ pc'[t] = to
      /\ call'[t] = call[t] /\ loc'[t] = l
  BY <1>1, <1>5, <1>6, Facts, Moves, ZenonT(30) DEF Labels
<1>8. Holding(t)'
  BY <1>2, <1>3, <1>5, <1>6, <1>7, Facts DEF Holding
<1>9. QED  BY <1>2, <1>3, <1>6, <1>7, <1>8, KeptApart, LabelsOK

LEMMA ReadShiftKeeps == ASSUME IInv, NEW t \in Threads, ReadShift(t)  PROVE IInv'
<1> DEFINE d == Target(t).local_depth
           l == [loc[t] EXCEPT !.depth = d]
<1>1. Continue(t, "shift", "check") /\ loc' = [loc EXCEPT ![t] = l]
  BY DEF ReadShift
<1>2. UNCHANGED <<segment, dir>>  BY DEF ReadShift
<1>3. pc[t] = "shift"  BY <1>1 DEF Continue, GoTo
<1>4. d \in Nat  BY Facts, FieldsOK, CCEHAssumption
<1>5. l \in Locals /\ l.target = loc[t].target /\ l.lock = loc[t].lock
  BY <1>4, Facts DEF Locals
<1> HIDE DEF d, l
<1>6. /\ ThreadsOK' /\ OnlyMoves(t) /\ pc'[t] = "check"
      /\ call'[t] = call[t] /\ loc'[t] = l
  BY <1>1, <1>5, Facts, Moves, ZenonT(30) DEF Labels
<1>7. Holding(t)'
  BY <1>2, <1>3, <1>5, <1>6, Facts DEF Holding
<1>8. QED  BY <1>2, <1>3, <1>6, <1>7, KeptApart, LabelsOK

LEMMA CheckPatternKeeps == ASSUME IInv, NEW t \in Threads, CheckPattern(t)  PROVE IInv'
<1> DEFINE to == IF BelongsHere(t) THEN "lock" ELSE "depth"
<1>1. Continue(t, "check", to) /\ UNCHANGED <<segment, dir, loc>>
  BY DEF CheckPattern
<1>2. to \in {"lock", "depth"}  OBVIOUS
<1> HIDE DEF to
<1>3. /\ ThreadsOK' /\ OnlyMoves(t) /\ pc[t] = "check" /\ pc'[t] = to
      /\ call'[t] = call[t] /\ loc'[t] = loc[t]
  BY <1>1, <1>2, Facts, MovesOnly DEF Labels
<1>4. Holding(t)'
  BY <1>1, <1>2, <1>3, Facts DEF Holding
<1>5. QED  BY <1>1, <1>2, <1>3, <1>4, KeptApart, LabelsOK

-----------------------------------------------------------------------------
(* A thread takes a segment's lock shared, and gives it back.              *)

LEMMA HoldersCounted ==
    ASSUME IInv, NEW t \in Threads, pc[t] \in SharedSteps
    PROVE  Target(t).sema.holders > 0 /\ ~Target(t).sema.exclusive
<1> DEFINE s == loc[t].target
<1>1. s \in DOMAIN segment /\ SemaCounts  BY Facts
<1>2. t \in Inside(s)  BY DEF Inside
<1>3. Cardinality(Inside(s)) > 0  BY <1>2, InsideOK
<1>4. QED  BY <1>1, <1>3 DEF SemaCounts, Target

LEMMA Enters ==
    ASSUME IInv, NEW t \in Threads, OnlyMoves(t), ThreadsOK', UNCHANGED dir,
           pc[t] \in OutsideSteps, pc'[t] \in SharedSteps, loc'[t].target = loc[t].target,
           call'[t] \in Calls,
           ~Target(t).sema.exclusive, SetSema(t, Shared(Target(t).sema, 1))
    PROVE  IInv'
<1> DEFINE s == loc[t].target
           m == Shared(segment[s].sema, 1)
<1>1. /\ s \in DOMAIN segment /\ segment[s].sema \in Semas /\ segment[s] \in Segments
      /\ SegmentsOK /\ ~segment[s].sema.exclusive /\ SetSema(t, m)
  BY Facts, FieldsOK DEF Target
<1>2. m \in Semas  BY <1>1, SharedOK
<1>3. /\ SegmentsOK' /\ DOMAIN segment' = DOMAIN segment /\ segment'[s].sema = m
      /\ \A r \in DOMAIN segment \ {s} : segment'[r] = segment[r]
  BY <1>1, <1>2, SetSemaOK
<1>4. SemaCounts' /\ OneSplit'
  BY <1>1, <1>3, Facts, EnterOrLeave
<1>5. DirectoryOK' /\ OneInDirectory'
  BY <1>3, Facts, StepsApart, DirectoryKept
<1>6. Holding(t)'
  BY <1>1, <1>3 DEF Holding, SharedSteps
<1>7. QED  BY <1>3, <1>4, <1>5, <1>6, Kept

LEMMA Leaves ==
    ASSUME IInv, NEW t \in Threads, OnlyMoves(t), ThreadsOK', UNCHANGED dir,
           pc[t] \in SharedSteps, pc'[t] \in OutsideSteps, Holding(t)',
           SetSema(t, Shared(Target(t).sema, -1))
    PROVE  IInv'
<1> DEFINE s == loc[t].target
           m == Shared(segment[s].sema, -1)
<1>1. /\ s \in DOMAIN segment /\ segment[s].sema \in Semas /\ segment[s] \in Segments
      /\ SegmentsOK /\ SetSema(t, m)
  BY Facts, FieldsOK DEF Target
<1>2. segment[s].sema.holders > 0  BY HoldersCounted DEF Target
<1>3. m \in Semas  BY <1>1, <1>2, SharedOK
<1>4. /\ SegmentsOK' /\ DOMAIN segment' = DOMAIN segment /\ segment'[s].sema = m
      /\ \A r \in DOMAIN segment \ {s} : segment'[r] = segment[r]
  BY <1>1, <1>3, SetSemaOK
<1>5. SemaCounts' /\ OneSplit'
  BY <1>1, <1>4, Facts, EnterOrLeave
<1>6. DirectoryOK' /\ OneInDirectory'
  BY <1>4, Facts, StepsApart, DirectoryKept
<1>7. QED  BY <1>4, <1>5, <1>6, Kept

LEMMA LockSharedKeeps == ASSUME IInv, NEW t \in Threads, LockShared(t)  PROVE IInv'
<1>1. CASE Target(t).sema = loc[t].lock
  <2>1. /\ Continue(t, "lock", "invalidate") /\ UNCHANGED <<loc, dir>>
        /\ SetSema(t, Shared(Target(t).sema, 1))
    BY <1>1 DEF LockShared
  <2>2. /\ ThreadsOK' /\ OnlyMoves(t) /\ pc[t] = "lock" /\ pc'[t] = "invalidate"
        /\ call'[t] = call[t] /\ loc'[t] = loc[t]
    BY <2>1, Facts, MovesOnly DEF Labels, SharedSteps
  <2>3. ~Target(t).sema.exclusive
    BY <1>1, <2>2, Facts DEF Holding, Blocked
  <2>4. pc[t] \in OutsideSteps /\ pc'[t] \in SharedSteps
    BY <2>2, LabelsOK DEF SharedSteps
  <2>5. call'[t] \in Calls  BY <2>2, Facts
  <2>6. QED  BY <2>1, <2>2, <2>3, <2>4, <2>5, Enters
<1>2. CASE Target(t).sema # loc[t].lock
  <2> DEFINE m == Target(t).sema
             l == [loc[t] EXCEPT !.lock = m]
             to == AfterLoad(m, "lock")
  <2>1. /\ Continue(t, "lock", to) /\ loc' = [loc EXCEPT ![t] = l]
        /\ UNCHANGED <<segment, dir>>
    BY <1>2 DEF LockShared
  <2>2. pc[t] = "lock"  BY <2>1 DEF Continue, GoTo
  <2>3. m \in Semas  BY Facts, FieldsOK
  <2>4. l \in Locals /\ l.target = loc[t].target /\ l.lock = m
    BY <2>3, Facts DEF Locals
  <2>5. to \in {"depth", "split", "lock"} /\ (to = "lock" => ~Blocked(m))
    BY DEF AfterLoad, Blocked
  <2> HIDE DEF m, l, to
  <2>6. /\ ThreadsOK' /\ OnlyMoves(t) /\ pc'[t] = to
        /\ call'[t] = call[t] /\ loc'[t] = l
    BY <2>1, <2>4, <2>5, Facts, Moves, ZenonT(30) DEF Labels
  <2>7. Holding(t)'
    BY <2>1, <2>2, <2>4, <2>5, <2>6, Facts DEF Holding
  <2>8. QED  BY <2>1, <2>2, <2>5, <2>6, <2>7, KeptApart, LabelsOK
<1>3. QED  BY <1>1, <1>2

LEMMA GetLockKeeps == ASSUME IInv, NEW t \in Threads, GetLock(t)  PROVE IInv'
<1>1. CASE ~Blocked(Target(t).sema)
  <2>1. /\ Continue(t, "g_lock", "g_key") /\ UNCHANGED <<loc, dir>>
        /\ SetSema(t, Shared(Target(t).sema, 1))
    BY <1>1 DEF GetLock
  <2>2. /\ ThreadsOK' /\ OnlyMoves(t) /\ pc[t] = "g_lock" /\ pc'[t] = "g_key"
        /\ call'[t] = call[t] /\ loc'[t] = loc[t]
    BY <2>1, Facts, MovesOnly DEF Labels, SharedSteps
  <2>3. ~Target(t).sema.exclusive  BY <1>1 DEF Blocked
  <2>4. pc[t] \in OutsideSteps /\ pc'[t] \in SharedSteps
    BY <2>2, LabelsOK DEF SharedSteps
  <2>5. call'[t] \in Calls  BY <2>2, Facts
  <2>6. QED  BY <2>1, <2>2, <2>3, <2>4, <2>5, Enters
<1>2. CASE Blocked(Target(t).sema)
  <2>1. Continue(t, "g_lock", "depth") /\ UNCHANGED <<segment, dir, loc>>
    BY <1>2 DEF GetLock
  <2>2. /\ ThreadsOK' /\ OnlyMoves(t) /\ pc[t] = "g_lock" /\ pc'[t] = "depth"
        /\ call'[t] = call[t] /\ loc'[t] = loc[t]
    BY <2>1, Facts, MovesOnly DEF Labels
  <2>3. Holding(t)'  BY <2>1, <2>2, Facts DEF Holding
  <2>4. QED  BY <2>1, <2>2, <2>3, KeptApart, LabelsOK
<1>3. QED  BY <1>1, <1>2

\* A call that has ended, and an insert that goes on to split.
LEMMA ReturnKeeps ==
    ASSUME IInv, NEW t \in Threads, UNCHANGED dir,
           NEW from \in {"unlock", "g_unlock"}, Return(t, from, loc[t].old),
           SetSema(t, Shared(Target(t).sema, -1))
    PROVE  IInv'
<1>1. loc[t].old \in Offsets  BY Facts DEF Locals
<1>2. /\ ThreadsOK' /\ OnlyMoves(t) /\ pc[t] = from /\ pc'[t] = "idle"
      /\ loc'[t] = NoLocals
  BY <1>1, Facts, Returns
<1>3. pc[t] \in SharedSteps /\ pc'[t] \in OutsideSteps
  BY <1>2, LabelsOK DEF SharedSteps
<1>4. 1 \in DOMAIN segment' /\ loc'[t].target = 1
  <2>1. DOMAIN segment' = DOMAIN segment  BY DEF SetSema
  <2>2. QED  BY <1>2, <2>1, Facts, NoLocalsOK DEF SegmentsOK
<1>5. Holding(t)'  BY <1>2, <1>4 DEF Holding
<1>6. QED  BY <1>2, <1>3, <1>5, Leaves

LEMMA UnlockSharedKeeps == ASSUME IInv, NEW t \in Threads, UnlockShared(t)  PROVE IInv'
<1>1. UNCHANGED dir /\ SetSema(t, Shared(Target(t).sema, -1))
  BY DEF UnlockShared
<1>2. CASE loc[t].full
  <2> DEFINE l == [loc[t] EXCEPT !.full = FALSE]
  <2>1. Continue(t, "unlock", "split") /\ loc' = [loc EXCEPT ![t] = l]
    BY <1>2 DEF UnlockShared
  <2>2. l \in Locals /\ l.target = loc[t].target  BY Facts DEF Locals
  <2> HIDE DEF l
  <2>3. /\ ThreadsOK' /\ OnlyMoves(t) /\ pc[t] = "unlock" /\ pc'[t] = "split"
        /\ call'[t] = call[t] /\ loc'[t] = l
    BY <2>1, <2>2, Facts, Moves DEF Labels
  <2>4. pc[t] \in SharedSteps /\ pc'[t] \in OutsideSteps
    BY <2>3, LabelsOK DEF SharedSteps
  <2>5. DOMAIN segment' = DOMAIN segment  BY <1>1 DEF SetSema
  <2>6. Holding(t)'
    BY <2>2, <2>3, <2>5, Facts DEF Holding
  <2>7. QED  BY <1>1, <2>3, <2>4, <2>6, Leaves
<1>3. CASE ~loc[t].full
  <2>1. Return(t, "unlock", loc[t].old)  BY <1>3 DEF UnlockShared
  <2>2. QED  BY <1>1, <2>1, ReturnKeeps
<1>4. QED  BY <1>2, <1>3

LEMMA GetUnlockKeeps == ASSUME IInv, NEW t \in Threads, GetUnlock(t)  PROVE IInv'
BY ReturnKeeps DEF GetUnlock

-----------------------------------------------------------------------------
(* The steps inside a segment.                                             *)

\* A step inside that may write to the slot.
LEMMA InsideKept ==
    ASSUME IInv, NEW t \in Threads, OnlyMoves(t), ThreadsOK', UNCHANGED dir,
           pc[t] \in SharedSteps, pc'[t] \in SharedSteps, loc'[t].target = loc[t].target,
           call'[t] = call[t],
           \/ UNCHANGED segment
           \/ \E k \in SlotKeys : SetKey(t, k)
           \/ \E v \in Offsets : SetValue(t, v)
    PROVE  IInv'
<1>1. pc[t] # "idle"  BY DEF SharedSteps
<1>2. /\ SegmentsOK' /\ DOMAIN segment' = DOMAIN segment
      /\ \A s \in DOMAIN segment : segment'[s].sema = segment[s].sema
  <2>1. CASE UNCHANGED segment  BY <2>1, Facts DEF SegmentsOK
  <2>2. CASE (\E k \in SlotKeys : SetKey(t, k)) \/ (\E v \in Offsets : SetValue(t, v))
    BY <1>1, <2>2, Facts, SetSlotOK
  <2>3. QED  BY <2>1, <2>2
<1>3. SemaCounts' /\ OneSplit'
  BY <1>2, Facts, SameLocks
<1>4. DirectoryOK' /\ OneInDirectory'
  BY <1>2, Facts, StepsApart, DirectoryKept
<1>5. Holding(t)'  BY <1>1, <1>2, Facts DEF Holding, SharedSteps
<1>6. QED  BY <1>2, <1>3, <1>4, <1>5, Kept

\* The same of a step that keeps its locals.
LEMMA InsideStays ==
    ASSUME IInv, NEW t \in Threads, UNCHANGED <<dir, loc>>,
           NEW from \in SharedSteps, NEW to \in SharedSteps, Continue(t, from, to),
           \/ UNCHANGED segment
           \/ \E k \in SlotKeys : SetKey(t, k)
           \/ \E v \in Offsets : SetValue(t, v)
    PROVE  IInv'
<1>1. /\ ThreadsOK' /\ OnlyMoves(t) /\ pc[t] = from /\ pc'[t] = to
      /\ call'[t] = call[t] /\ loc'[t] = loc[t]
  BY Facts, MovesOnly, LabelsOK
<1>2. QED  BY <1>1, InsideKept

LEMMA NoneOK ==
    /\ INVALID \in SlotKeys /\ SENTINEL \in SlotKeys /\ Keys \subseteq SlotKeys
    /\ NONE \in Offsets
BY DEF SlotKeys, Offsets

LEMMA InvalidateMovedKeeps == ASSUME IInv, NEW t \in Threads, InvalidateMoved(t)  PROVE IInv'
<1>1. {"invalidate", "clear", "claim"} \subseteq SharedSteps  BY DEF SharedSteps
<1>2. QED  BY <1>1, NoneOK, InsideStays DEF InvalidateMoved

LEMMA ClearMovedKeeps == ASSUME IInv, NEW t \in Threads, ClearMoved(t)  PROVE IInv'
<1>1. {"clear", "claim"} \subseteq SharedSteps  BY DEF SharedSteps
<1>2. QED  BY <1>1, NoneOK, InsideStays DEF ClearMoved

LEMMA ClaimSlotKeeps == ASSUME IInv, NEW t \in Threads, ClaimSlot(t)  PROVE IInv'
<1>1. {"claim", "write", "match"} \subseteq SharedSteps  BY DEF SharedSteps
<1>2. CASE Target(t).key[Slot(t)] = INVALID
  <2> DEFINE v == Target(t).value[Slot(t)]
             l == [loc[t] EXCEPT !.old = v]
  <2>1. /\ Continue(t, "claim", "write") /\ SetKey(t, SENTINEL) /\ UNCHANGED dir
        /\ loc' = [loc EXCEPT ![t] = l]
    BY <1>2 DEF ClaimSlot
  <2>2. pc[t] = "claim"  BY <2>1 DEF Continue, GoTo
  <2>3. v \in Offsets  BY <2>2, OffsetsOK
  <2> HIDE DEF v
  <2>4. l \in Locals /\ l.target = loc[t].target  BY <2>3, Facts DEF Locals
  <2> HIDE DEF l
  <2>5. /\ ThreadsOK' /\ OnlyMoves(t) /\ pc'[t] = "write"
        /\ call'[t] = call[t] /\ loc'[t] = l
    BY <2>1, <2>4, <1>1, Facts, Moves, LabelsOK
  <2>6. QED  BY <1>1, <2>1, <2>2, <2>4, <2>5, NoneOK, InsideKept
<1>3. CASE Target(t).key[Slot(t)] # INVALID
  BY <1>1, <1>3, InsideStays DEF ClaimSlot
<1>4. QED  BY <1>2, <1>3

LEMMA WriteValueKeeps == ASSUME IInv, NEW t \in Threads, WriteValue(t)  PROVE IInv'
<1>1. {"write", "publish"} \subseteq SharedSteps  BY DEF SharedSteps
<1>2. QED  BY <1>1, OffsetsOK, InsideStays DEF WriteValue

LEMMA PublishKeyKeeps == ASSUME IInv, NEW t \in Threads, PublishKey(t)  PROVE IInv'
<1>1. {"publish", "unlock"} \subseteq SharedSteps  BY DEF SharedSteps
<1>2. Continue(t, "publish", "unlock")  BY DEF PublishKey
<1>3. pc[t] = "publish"  BY <1>2 DEF Continue, GoTo
<1>4. \E k \in SlotKeys : SetKey(t, k)
  BY <1>3, Facts, NoneOK DEF PublishKey
<1>5. QED  BY <1>1, <1>2, <1>4, InsideStays DEF PublishKey

\* On to the next slot, or out of the window.
LEMMA NextSlotKeeps ==
    ASSUME IInv, NEW t \in Threads, UNCHANGED <<segment, dir>>,
           NEW from \in SharedSteps, NEW first \in SharedSteps, NEW end \in SharedSteps,
           NextSlot(t, from, first, end)
    PROVE  IInv'
<1> DEFINE to == IF loc[t].i + 1 < Probe THEN first ELSE end
           n == (loc[t].i + 1) % Probe
           b == (loc[t].i + 1 = Probe)
           l == [loc[t] EXCEPT !.i = n, !.full = b]
<1>1. Continue(t, from, to) /\ loc' = [loc EXCEPT ![t] = l]
  BY DEF NextSlot
<1>2. to \in SharedSteps  OBVIOUS
<1> HIDE DEF to
<1>3. n \in 0 .. Probe - 1 /\ b \in BOOLEAN
  <2>1. loc[t].i \in 0 .. Probe - 1  BY Facts DEF Locals
  <2>2. Probe \in Nat \ {0}  BY CCEHAssumption
  <2>3. QED  BY <2>1, <2>2
<1> HIDE DEF n, b
<1>4. l \in Locals /\ l.target = loc[t].target  BY <1>3, Facts DEF Locals
<1> HIDE DEF l
<1>5. /\ ThreadsOK' /\ OnlyMoves(t) /\ pc[t] = from /\ pc'[t] = to
      /\ call'[t] = call[t] /\ loc'[t] = l
  BY <1>1, <1>2, <1>4, Facts, Moves, LabelsOK, ZenonT(30)
<1>6. QED  BY <1>2, <1>4, <1>5, InsideKept

LEMMA MatchKeyKeeps == ASSUME IInv, NEW t \in Threads, MatchKey(t)  PROVE IInv'
<1>1. {"match", "replace", "invalidate", "unlock"} \subseteq SharedSteps
  BY DEF SharedSteps
<1>2. QED  BY <1>1, InsideStays, NextSlotKeeps DEF MatchKey

LEMMA ReplaceKeeps == ASSUME IInv, NEW t \in Threads, Replace(t)  PROVE IInv'
<1> DEFINE to == IF Value(t) = NONE THEN "erase" ELSE "unlock"
           v == Target(t).value[Slot(t)]
           l == [loc[t] EXCEPT !.old = v]
<1>1. /\ Continue(t, "replace", to) /\ SetValue(t, Value(t)) /\ UNCHANGED dir
      /\ loc' = [loc EXCEPT ![t] = l]
  BY DEF Replace
<1>2. to \in SharedSteps /\ "replace" \in SharedSteps  BY DEF SharedSteps
<1> HIDE DEF to
<1>3. pc[t] = "replace"  BY <1>1 DEF Continue, GoTo
<1>4. v \in Offsets /\ Value(t) \in Offsets  BY <1>3, OffsetsOK
<1> HIDE DEF v
<1>5. l \in Locals /\ l.target = loc[t].target  BY <1>4, Facts DEF Locals
<1> HIDE DEF l
<1>6. /\ ThreadsOK' /\ OnlyMoves(t) /\ pc'[t] = to
      /\ call'[t] = call[t] /\ loc'[t] = l
  BY <1>1, <1>2, <1>5, Facts, Moves, LabelsOK, ZenonT(30)
<1>7. QED  BY <1>1, <1>2, <1>3, <1>4, <1>5, <1>6, InsideKept

LEMMA EraseKeyKeeps == ASSUME IInv, NEW t \in Threads, EraseKey(t)  PROVE IInv'
<1>1. {"erase", "unlock"} \subseteq SharedSteps  BY DEF SharedSteps
<1>2. Continue(t, "erase", "unlock")  BY DEF EraseKey
<1>3. pc[t] = "erase"  BY <1>2 DEF Continue, GoTo
<1>4. \E k \in SlotKeys : SetKey(t, k)
  BY <1>3, OffsetsOK, NoneOK DEF EraseKey
<1>5. QED  BY <1>1, <1>2, <1>4, InsideStays DEF EraseKey

LEMMA GetKeyKeeps == ASSUME IInv, NEW t \in Threads, GetKey(t)  PROVE IInv'
<1>1. {"g_key", "g_value", "g_unlock"} \subseteq SharedSteps  BY DEF SharedSteps
<1>2. QED  BY <1>1, InsideStays, NextSlotKeeps DEF GetKey

LEMMA GetValueKeeps == ASSUME IInv, NEW t \in Threads, GetValue(t)  PROVE IInv'
<1> DEFINE v == Target(t).value[Slot(t)]
           l == [loc[t] EXCEPT !.old = v]
<1>1. /\ Continue(t, "g_value", "g_unlock") /\ UNCHANGED <<segment, dir>>
      /\ loc' = [loc EXCEPT ![t] = l]
  BY DEF GetValue
<1>2. {"g_value", "g_unlock"} \subseteq SharedSteps  BY DEF SharedSteps
<1>3. pc[t] = "g_value"  BY <1>1 DEF Continue, GoTo
<1>4. v \in Offsets  BY <1>3, OffsetsOK
<1> HIDE DEF v
<1>5. l \in Locals /\ l.target = loc[t].target  BY <1>4, Facts DEF Locals
<1> HIDE DEF l
<1>6. /\ ThreadsOK' /\ OnlyMoves(t) /\ pc'[t] = "g_unlock"
      /\ call'[t] = call[t] /\ loc'[t] = l
  BY <1>1, <1>2, <1>5, Facts, Moves, LabelsOK
<1>7. QED  BY <1>1, <1>2, <1>3, <1>5, <1>6, InsideKept

-----------------------------------------------------------------------------
(* The steps of a split.                                                   *)

LEMMA TrySplitKeeps == ASSUME IInv, NEW t \in Threads, TrySplit(t)  PROVE IInv'
<1> DEFINE s == loc[t].target
           m == Target(t).sema
           new == IF MayTakeOver(m) THEN Exclusive
                  ELSE IF Blocked(m) THEN m ELSE [m EXCEPT !.request = TRUE]
           to == IF MayTakeOver(m) THEN "copy" ELSE "depth"
<1>1. Continue(t, "split", to) /\ SetSema(t, new) /\ UNCHANGED <<dir, loc>>
  BY DEF TrySplit
<1>2. to \in {"copy", "depth"}  OBVIOUS
<1>3. m \in Semas /\ m = segment[s].sema /\ s \in DOMAIN segment
  BY Facts, FieldsOK DEF Target
<1>4. new \in Semas  BY <1>3, SemasOK, RequestOK
<1>5. /\ MayTakeOver(m) => to = "copy" /\ new = Exclusive
      /\ ~MayTakeOver(m) =>
            /\ to = "depth"
            /\ \/ new = m
               \/ ~m.exclusive /\ ~new.exclusive /\ new.holders = m.holders
  BY <1>3, RequestOK DEF Blocked
<1> HIDE DEF m, new, to
<1>6. /\ ThreadsOK' /\ OnlyMoves(t) /\ pc[t] = "split" /\ pc'[t] = to
      /\ call'[t] = call[t] /\ loc'[t] = loc[t]
  BY <1>1, <1>2, Facts, MovesOnly DEF Labels, SplitSteps
<1>7. /\ SegmentsOK' /\ DOMAIN segment' = DOMAIN segment /\ segment'[s].sema = new
      /\ \A r \in DOMAIN segment \ {s} : segment'[r] = segment[r]
  BY <1>1, <1>3, <1>4, Facts, SetSemaOK
<1>8. /\ pc[t] \in OutsideSteps
      /\ to = "depth" => pc'[t] \in OutsideSteps
      /\ to = "copy" => pc'[t] \in SplitSteps
  BY <1>6, LabelsOK DEF SplitSteps
<1>9. SemaCounts' /\ OneSplit'
  <2>1. CASE MayTakeOver(m)
    BY <2>1, <1>3, <1>5, <1>6, <1>7, <1>8, Facts, SplitLocks
  <2>2. CASE ~MayTakeOver(m)
    BY <2>2, <1>3, <1>5, <1>6, <1>7, <1>8, Facts, SplitLocks
  <2>3. QED  BY <2>1, <2>2
<1>10. DirectoryOK' /\ OneInDirectory'
  BY <1>1, <1>2, <1>6, <1>7, Facts, DirectoryKept DEF DirectorySteps
<1>11. Holding(t)'  BY <1>2, <1>6, <1>7, Facts DEF Holding
<1>12. QED  BY <1>1, <1>6, <1>7, <1>9, <1>10, <1>11, Kept

\* A step of a split that keeps its lock and the directory.
LEMMA SplitKept ==
    ASSUME IInv, NEW t \in Threads, OnlyMoves(t), ThreadsOK', SegmentsOK', Holding(t)',
           UNCHANGED dir, pc[t] \in SplitSteps \ DirectorySteps,
           pc'[t] \in SplitSteps \ DirectorySteps,
           loc'[t].target = loc[t].target,
           DOMAIN segment \subseteq DOMAIN segment',
           \A s \in DOMAIN segment : segment'[s].sema = segment[s].sema,
           \A s \in DOMAIN segment' \ DOMAIN segment : segment'[s].sema = Free
    PROVE  IInv'
<1>1. SemaCounts' /\ OneSplit'
  BY SameLocks DEF IInv, TypeInv, LockInv, Holding
<1>2. DirectoryOK' /\ OneInDirectory'
  BY Facts, DirectoryKept
<1>3. QED  BY <1>1, <1>2, Kept

LEMMA CopyPairsKeeps == ASSUME IInv, NEW t \in Threads, CopyPairs(t)  PROVE IInv'
<1> DEFINE s == loc[t].target
           n == Len(segment)
           g == [Target(t) EXCEPT !.local_depth = @ + 1]
           h == Copied(Target(t))
           l == [loc[t] EXCEPT !.split = n + 1]
<1>1. /\ Continue(t, "copy", "pattern") /\ UNCHANGED dir /\ Target(t).local_depth < HashBits
      /\ segment' = Append([segment EXCEPT ![s] = g], h)
      /\ loc' = [loc EXCEPT ![t] = l]
  BY DEF CopyPairs, Target
<1>2. /\ Target(t) \in Segments /\ segment \in Seq(Segments) /\ s \in DOMAIN segment
      /\ Target(t) = segment[s] /\ 1 \in DOMAIN segment
  BY Facts DEF SegmentsOK, Target
<1>3. h \in Segments /\ h.sema = Free  BY <1>1, <1>2, CopiedOK
<1>4. g \in Segments /\ g.sema = segment[s].sema
  <2>1. Target(t).local_depth + 1 \in InitDepth .. HashBits
    <3>1. Target(t).local_depth \in InitDepth .. HashBits  BY <1>2, FieldsOK
    <3>2. QED  BY <1>1, <3>1, CCEHAssumption
  <2>2. QED  BY <1>2, <2>1 DEF Segments
<1> HIDE DEF g, h
<1>5. /\ segment' \in Seq(Segments) /\ DOMAIN segment' = 1 .. n + 1
      /\ DOMAIN segment = 1 .. n /\ n \in Nat
      /\ segment'[n + 1] = h /\ segment'[s] = g
      /\ \A r \in DOMAIN segment \ {s} : segment'[r] = segment[r]
  BY <1>1, <1>2, <1>3, <1>4
<1>6. l \in Locals /\ l.target = s /\ l.split = n + 1
  BY <1>5, Facts, SMTT(30) DEF Locals
<1> HIDE DEF l, n
<1>7. /\ ThreadsOK' /\ OnlyMoves(t) /\ pc[t] = "copy" /\ pc'[t] = "pattern"
      /\ call'[t] = call[t] /\ loc'[t] = l
  BY <1>1, <1>6, Facts, Moves, ZenonT(30) DEF Labels, SplitSteps
<1>8. /\ pc[t] \in SplitSteps \ DirectorySteps
      /\ pc'[t] \in SplitSteps \ DirectorySteps
  BY <1>7 DEF SplitSteps, DirectorySteps
<1>9. SegmentsOK'  BY <1>5, <1>2 DEF SegmentsOK
<1>10. Holding(t)'  BY <1>2, <1>5, <1>6, <1>7, Facts DEF Holding
<1>11. \A r \in DOMAIN segment : segment'[r].sema = segment[r].sema
  BY <1>4, <1>5
<1>12. \A r \in DOMAIN segment' \ DOMAIN segment : segment'[r].sema = Free
  BY <1>3, <1>5
<1>13. QED
  BY <1>1, <1>5, <1>6, <1>7, <1>8, <1>9, <1>10, <1>11, <1>12, SplitKept

LEMMA PatternsOK ==
    ASSUME NEW k \in SlotKeys, NEW d \in 1 .. HashBits
    PROVE  /\ LowerPattern(k, d) \in 0 .. 2 ^ HashBits - 1
           /\ LowerPattern(k, d) + 1 \in 0 .. 2 ^ HashBits - 1
<1>1. HashBits \in Nat /\ d - 1 \in 0 .. HashBits /\ HashBits - d \in Nat
      /\ d \in Nat /\ d - 1 \in Nat
  BY CCEHAssumption
<1>2. Prefix(k, d - 1) \in 0 .. 2 ^ (d - 1) - 1  BY <1>1, PrefixType
<1> DEFINE a == 2 ^ (d - 1)
           b == 2 ^ (HashBits - d)
           c == 2 ^ d
<1>3. a \in Nat /\ b \in Nat \ {0} /\ c \in Nat  BY <1>1, PowerType
<1>4. c = 2 * a
  <2>1. (d - 1) + 1 = d  BY <1>1
  <2>2. QED  BY <1>1, <2>1, PowerStep
<1>5. 2 ^ HashBits = c * b
  <2>1. d + (HashBits - d) = HashBits  BY <1>1
  <2>2. QED  BY <1>1, <2>1, PowerSum
<1>6. c * b >= c
  <2> HIDE DEF b, c
  <2>1. b >= 1  BY <1>3
  <2>2. QED  BY <1>3, <2>1, Z3
<1>7. c * b \in Nat
  <2> HIDE DEF b, c
  <2>1. QED  BY <1>3
<1> HIDE DEF a, b, c
<1>8. Prefix(k, d - 1) \in 0 .. a - 1  BY <1>2 DEF a
<1>9. QED  BY <1>3, <1>4, <1>5, <1>6, <1>7, <1>8 DEF LowerPattern

LEMMA SetPatternsKeeps == ASSUME IInv, NEW t \in Threads, SetPatterns(t)  PROVE IInv'
<1> DEFINE s == loc[t].target
           r == loc[t].split
           p == LowerPattern(Key(t), Target(t).local_depth)
           S == [segment EXCEPT ![s] = [segment[s] EXCEPT !.pattern = p]]
           T == [S EXCEPT ![r] = [S[r] EXCEPT !.pattern = p + 1]]
<1>1. /\ Continue(t, "pattern", "acquire") /\ UNCHANGED <<dir, loc>>
      /\ segment' = T
  BY DEF SetPatterns
<1>2. /\ ThreadsOK' /\ OnlyMoves(t) /\ pc[t] = "pattern" /\ pc'[t] = "acquire"
      /\ call'[t] = call[t] /\ loc'[t] = loc[t]
  BY <1>1, Facts, MovesOnly DEF Labels, SplitSteps
<1>3. /\ s \in DOMAIN segment /\ r \in DOMAIN segment /\ segment \in Seq(Segments)
      /\ 1 \in DOMAIN segment
  BY <1>2, Facts DEF Holding, SegmentsOK
<1>4. p \in 0 .. 2 ^ HashBits - 1 /\ p + 1 \in 0 .. 2 ^ HashBits - 1
  <2>1. Target(t).local_depth \in 1 .. HashBits /\ Key(t) \in SlotKeys
    BY <1>2, Facts, FieldsOK, CCEHAssumption
  <2>2. QED  BY <2>1, PatternsOK
<1> HIDE DEF p
<1>5. /\ S \in Seq(Segments) /\ DOMAIN S = DOMAIN segment
      /\ \A q \in DOMAIN segment : S[q].sema = segment[q].sema
  <2> DEFINE g == [segment[s] EXCEPT !.pattern = p]
  <2>1. segment[s] \in Segments  BY <1>3
  <2>2. g \in Segments  BY <1>4, <2>1, FieldsOK
  <2>3. g.sema = segment[s].sema  BY <2>1 DEF Segments
  <2>4. S = [segment EXCEPT ![s] = g]  OBVIOUS
  <2> HIDE DEF g, S
  <2>5. QED  BY <1>3, <2>2, <2>3, <2>4, SegmentSet
<1> HIDE DEF S
<1>6. /\ T \in Seq(Segments) /\ DOMAIN T = DOMAIN S
      /\ \A q \in DOMAIN S : T[q].sema = S[q].sema
  <2> DEFINE g == [S[r] EXCEPT !.pattern = p + 1]
  <2>1. S[r] \in Segments /\ r \in DOMAIN S  BY <1>3, <1>5
  <2>2. g \in Segments  BY <1>4, <2>1, FieldsOK
  <2>3. g.sema = S[r].sema  BY <2>1 DEF Segments
  <2>4. T = [S EXCEPT ![r] = g]  OBVIOUS
  <2> HIDE DEF g, T
  <2>5. QED  BY <1>5, <2>1, <2>2, <2>3, <2>4, SegmentSet
<1> HIDE DEF T
<1>7. /\ SegmentsOK' /\ DOMAIN segment' = DOMAIN segment
      /\ \A q \in DOMAIN segment : segment'[q].sema = segment[q].sema
  BY <1>1, <1>3, <1>5, <1>6 DEF SegmentsOK
<1>8. /\ pc[t] \in SplitSteps \ DirectorySteps
      /\ pc'[t] \in SplitSteps \ DirectorySteps
  BY <1>2 DEF SplitSteps, DirectorySteps
<1>9. Holding(t)'  BY <1>2, <1>7, Facts DEF Holding
<1>10. QED  BY <1>1, <1>2, <1>7, <1>8, <1>9, SplitKept

\* A step of a split that changes only the directory.
LEMMA DirectoryStep ==
    ASSUME IInv, NEW t \in Threads, UNCHANGED <<segment, loc>>,
           NEW from \in SplitSteps, NEW to \in {"update", "release", "reopen"},
           Continue(t, from, to), to = "update" => from = "acquire",
           DirectoryOK', OneInDirectory', DOMAIN dir.entry \subseteq DOMAIN dir'.entry
    PROVE  IInv'
<1>1. to \in SplitSteps  BY DEF SplitSteps
<1>2. /\ ThreadsOK' /\ OnlyMoves(t) /\ pc[t] = from /\ pc'[t] = to
      /\ call'[t] = call[t] /\ loc'[t] = loc[t]
  BY <1>1, Facts, MovesOnly, LabelsOK
<1>3. SemaCounts' /\ OneSplit'
  BY <1>1, <1>2, Facts, SameLocks DEF IInv, TypeInv, Holding
<1>4. SegmentsOK'  BY Facts DEF SegmentsOK
<1>5. from # "idle"  BY DEF SplitSteps
<1>6. Holding(t)'
  BY <1>2, <1>5, Facts DEF Holding
<1>7. QED  BY <1>2, <1>3, <1>4, <1>6, Kept

LEMMA AcquireDirectoryKeeps == ASSUME IInv, NEW t \in Threads, AcquireDirectory(t)  PROVE IInv'
<1>1. /\ Continue(t, "acquire", "update") /\ UNCHANGED <<segment, loc>>
      /\ ~dir.lock /\ dir' = [dir EXCEPT !.lock = TRUE]
  BY DEF AcquireDirectory, Acquire
<1>2. {"acquire", "update"} \subseteq SplitSteps  BY DEF SplitSteps
<1>3. DirectoryOK' /\ dir'.lock /\ dir'.entry = dir.entry
  BY <1>1, Facts DEF DirectoryOK
<1>4. /\ OnlyMoves(t) /\ pc[t] = "acquire" /\ pc'[t] = "update"
  BY <1>1, <1>2, Facts, MovesOnly, LabelsOK
<1>5. \A u \in Threads : pc[u] \notin DirectorySteps
  BY <1>1, Facts DEF OneInDirectory
<1>6. OneInDirectory'
  BY <1>3, <1>4, <1>5 DEF OneInDirectory, DirectorySteps, OnlyMoves
<1>7. QED  BY <1>1, <1>2, <1>3, <1>6, DirectoryStep

\* The thread that changes the directory is the only one.
LEMMA AloneInDirectory ==
    ASSUME IInv, NEW t \in Threads, OnlyMoves(t), pc[t] \in DirectorySteps,
           \/ pc'[t] \in DirectorySteps /\ dir'.lock = dir.lock
           \/ pc'[t] \notin DirectorySteps /\ dir'.lock = FALSE
    PROVE  OneInDirectory'
<1>1. dir.lock /\ \A u \in Threads \ {t} : pc[u] \notin DirectorySteps
  BY Facts DEF OneInDirectory
<1>2. \A u \in Threads \ {t} : pc'[u] \notin DirectorySteps
  BY <1>1 DEF OnlyMoves
<1>3. QED  BY <1>1, <1>2 DEF OneInDirectory

LEMMA UpdateEntriesKeeps == ASSUME IInv, NEW t \in Threads, UpdateEntries(t)  PROVE IInv'
<1> DEFINE U == UpperHalf(Prefix(Key(t), dir.depth),
                          2 ^ (dir.depth - (Target(t).local_depth - 1)))
           e == [y \in DOMAIN dir.entry |-> IF y \in U THEN loc[t].split ELSE dir.entry[y]]
<1>1. /\ Continue(t, "update", "release") /\ UNCHANGED <<segment, loc>>
      /\ dir' = [dir EXCEPT !.entry = e]
  BY DEF UpdateEntries
<1>2. {"update", "release"} \subseteq SplitSteps \cap DirectorySteps
  BY DEF SplitSteps, DirectorySteps
<1>3. OnlyMoves(t) /\ pc[t] = "update" /\ pc'[t] = "release"
  BY <1>1, <1>2, Facts, MovesOnly, LabelsOK
<1>4. loc[t].split \in DOMAIN segment  BY <1>3, Facts DEF Holding
<1> HIDE DEF U
<1>5. e \in [0 .. 2 ^ dir.depth - 1 -> DOMAIN segment]
  BY <1>4, Facts DEF DirectoryOK
<1> HIDE DEF e
<1>6. /\ DOMAIN dir' = {"depth", "lock", "entry"} /\ dir'.depth = dir.depth
      /\ dir'.lock = dir.lock /\ dir'.entry = e
  BY <1>1, Facts DEF DirectoryOK
<1>7. DirectoryOK' /\ DOMAIN dir'.entry = DOMAIN dir.entry
  BY <1>1, <1>5, <1>6, Facts DEF DirectoryOK
<1>8. OneInDirectory'  BY <1>2, <1>3, <1>6, AloneInDirectory
<1>9. QED  BY <1>1, <1>2, <1>7, <1>8, DirectoryStep

LEMMA DoubleDirectoryKeeps == ASSUME IInv, NEW t \in Threads, DoubleDirectory(t)  PROVE IInv'
<1> DEFINE x == Prefix(Key(t), dir.depth)
           d == dir.depth
           e == [y \in 0 .. 2 ^ (d + 1) - 1 |->
                    IF y = 2 * x THEN loc[t].target
                    ELSE IF y = 2 * x + 1 THEN loc[t].split
                    ELSE dir.entry[y \div 2]]
<1>1. /\ Continue(t, "update", "reopen") /\ UNCHANGED <<segment, loc>>
      /\ segment[dir.entry[x]].local_depth - 1 >= d
      /\ dir' = [depth |-> d + 1, lock |-> FALSE, entry |-> e]
  BY DEF DoubleDirectory
<1>2. {"update", "reopen"} \subseteq SplitSteps /\ "update" \in DirectorySteps
      /\ "reopen" \notin DirectorySteps
  BY DEF SplitSteps, DirectorySteps
<1>3. OnlyMoves(t) /\ pc[t] = "update" /\ pc'[t] = "reopen"
  BY <1>1, <1>2, Facts, MovesOnly, LabelsOK
<1>4. loc[t].split \in DOMAIN segment /\ loc[t].target \in DOMAIN segment
  BY <1>3, Facts DEF Holding
<1>5. d \in InitDepth .. HashBits /\ dir.entry \in [0 .. 2 ^ d - 1 -> DOMAIN segment]
  BY Facts DEF DirectoryOK
<1>6. d \in Nat /\ d \in 0 .. HashBits /\ HashBits \in Nat  BY <1>5, CCEHAssumption
<1>7. x \in 0 .. 2 ^ d - 1  BY <1>3, <1>6, Facts, PrefixType
<1>8. d + 1 \in InitDepth .. HashBits
  <2>1. dir.entry[x] \in DOMAIN segment  BY <1>5, <1>7
  <2>2. segment[dir.entry[x]] \in Segments  BY <2>1, Facts
  <2>3. segment[dir.entry[x]].local_depth \in InitDepth .. HashBits  BY <2>2, FieldsOK
  <2> DEFINE D == segment[dir.entry[x]].local_depth
  <2>4. D \in InitDepth .. HashBits /\ D - 1 >= d  BY <1>1, <2>3
  <2> HIDE DEF d, x, D
  <2>5. InitDepth \in Nat  BY CCEHAssumption
  <2>6. QED  BY <1>5, <1>6, <2>4, <2>5
<1>9. 2 ^ d \in Nat \ {0} /\ 2 ^ (d + 1) = 2 * 2 ^ d
  BY <1>6, PowerType, PowerStep
<1>10. e \in [0 .. 2 ^ (d + 1) - 1 -> DOMAIN segment]
  <2> DEFINE a == 2 ^ d
             b == 2 ^ (d + 1)
  <2>1. a \in Nat /\ b = 2 * a  BY <1>9
  <2> HIDE DEF a, b, x, d
  <2>2. \A y \in 0 .. b - 1 : y \div 2 \in 0 .. a - 1
    BY <2>1
  <2>3. \A y \in 0 .. b - 1 : dir.entry[y \div 2] \in DOMAIN segment
    BY <2>2, <1>5 DEF a
  <2>4. QED  BY <2>3, <1>4 DEF b
<1>11. DOMAIN dir.entry \subseteq DOMAIN e
  <2> DEFINE a == 2 ^ d
             b == 2 ^ (d + 1)
  <2>1. a \in Nat /\ b = 2 * a  BY <1>9
  <2>2. DOMAIN dir.entry = 0 .. a - 1 /\ DOMAIN e = 0 .. b - 1  BY <1>5
  <2> HIDE DEF a, b, e
  <2>3. QED  BY <2>1, <2>2
<1> HIDE DEF e, x, d
<1>12. /\ DOMAIN dir' = {"depth", "lock", "entry"} /\ dir'.depth = d + 1
       /\ dir'.lock = FALSE /\ dir'.entry = e
  BY <1>1
<1>13. DirectoryOK' /\ DOMAIN dir.entry \subseteq DOMAIN dir'.entry
  BY <1>1, <1>8, <1>10, <1>11, <1>12 DEF DirectoryOK
<1>14. OneInDirectory'  BY <1>2, <1>3, <1>12, AloneInDirectory
<1>15. QED  BY <1>1, <1>2, <1>13, <1>14, DirectoryStep

LEMMA ReleaseDirectoryKeeps == ASSUME IInv, NEW t \in Threads, ReleaseDirectory(t)  PROVE IInv'
<1>1. /\ Continue(t, "release", "reopen") /\ UNCHANGED <<segment, loc>>
      /\ dir' = [dir EXCEPT !.lock = FALSE]
  BY DEF ReleaseDirectory
<1>2. {"release", "reopen"} \subseteq SplitSteps /\ "release" \in DirectorySteps
      /\ "reopen" \notin DirectorySteps
  BY DEF SplitSteps, DirectorySteps
<1>3. OnlyMoves(t) /\ pc[t] = "release" /\ pc'[t] = "reopen"
  BY <1>1, <1>2, Facts, MovesOnly, LabelsOK
<1>4. DirectoryOK' /\ dir'.lock = FALSE /\ dir'.entry = dir.entry
  BY <1>1, Facts DEF DirectoryOK
<1>5. OneInDirectory'  BY <1>2, <1>3, <1>4, AloneInDirectory
<1>6. QED  BY <1>1, <1>2, <1>4, <1>5, DirectoryStep

LEMMA ReopenSegmentKeeps == ASSUME IInv, NEW t \in Threads, ReopenSegment(t)  PROVE IInv'
<1> DEFINE s == loc[t].target
<1>1. Continue(t, "reopen", "depth") /\ SetSema(t, Free) /\ UNCHANGED <<dir, loc>>
  BY DEF ReopenSegment, Reopened
<1>2. s \in DOMAIN segment /\ SegmentsOK  BY Facts
<1>3. /\ ThreadsOK' /\ OnlyMoves(t) /\ pc[t] = "reopen" /\ pc'[t] = "depth"
      /\ call'[t] = call[t] /\ loc'[t] = loc[t]
  BY <1>1, Facts, MovesOnly DEF Labels
<1>4. /\ SegmentsOK' /\ DOMAIN segment' = DOMAIN segment /\ segment'[s].sema = Free
      /\ \A r \in DOMAIN segment \ {s} : segment'[r] = segment[r]
  BY <1>1, <1>2, SemasOK, SetSemaOK
<1>5. pc[t] \in SplitSteps /\ pc'[t] \in OutsideSteps
  BY <1>3, LabelsOK DEF SplitSteps
<1>6. SemaCounts' /\ OneSplit'
  BY <1>2, <1>3, <1>4, <1>5, Facts, SplitLocks
<1>7. DirectoryOK' /\ OneInDirectory'
  BY <1>1, <1>3, <1>4, Facts, DirectoryKept DEF DirectorySteps
<1>8. Holding(t)'  BY <1>3, <1>4, Facts DEF Holding
<1>9. QED  BY <1>1, <1>3, <1>4, <1>6, <1>7, <1>8, Kept

-----------------------------------------------------------------------------
(* The theorem.                                                            *)

LEMMA InitOK == Init => IInv
<1> SUFFICES ASSUME Init
             PROVE  IInv
  OBVIOUS
<1> DEFINE a == 2 ^ InitDepth
           b == 2 ^ HashBits
<1>1. InitDepth \in Nat /\ HashBits \in Nat /\ InitDepth \in InitDepth .. HashBits
  BY CCEHAssumption
<1>2. a \in Nat \ {0} /\ b \in Nat /\ a <= b
  BY <1>1, PowerType, PowerGrows
<1>3. segment = [n \in 1 .. a |-> NewSegment(InitDepth, n - 1)]
      /\ dir = [depth |-> InitDepth, lock |-> FALSE, entry |-> [x \in 0 .. a - 1 |-> x + 1]]
  BY DEF Init
<1>4. \A n \in 1 .. a : /\ NewSegment(InitDepth, n - 1) \in Segments
                        /\ NewSegment(InitDepth, n - 1).sema = Free
  <2> TAKE n \in 1 .. a
  <2>1. n - 1 \in 0 .. b - 1
    <3> HIDE DEF a, b
    <3>1. QED  BY <1>2
  <2>2. QED  BY <1>1, <2>1, NewSegmentOK
<1>5. dir.depth = InitDepth /\ dir.lock = FALSE /\ dir.entry = [x \in 0 .. a - 1 |-> x + 1]
      /\ DOMAIN dir = {"depth", "lock", "entry"}
  BY <1>3
<1>6. dir.entry \in [0 .. a - 1 -> 1 .. a]
  <2> HIDE DEF a
  <2>1. QED  BY <1>2, <1>5
<1>7. SegmentsOK /\ DOMAIN segment = 1 .. a
  <2> HIDE DEF a
  <2>1. QED  BY <1>2, <1>3, <1>4 DEF SegmentsOK
<1>8. DirectoryOK  BY <1>1, <1>5, <1>6, <1>7 DEF DirectoryOK
<1>9. ThreadsOK
  <2>1. NONE \in Offsets  BY NoneOK
  <2>2. QED  BY <2>1, NoLocalsOK DEF Init, ThreadsOK, Labels
<1>10. \A t \in Threads : Holding(t)
  BY <1>7, NoLocalsOK DEF Init, Holding, SegmentsOK
<1>11. \A t \in Threads : pc[t] \notin SharedSteps /\ pc[t] \notin SplitSteps
                          /\ pc[t] \notin DirectorySteps
  BY DEF Init, SharedSteps, SplitSteps, DirectorySteps
<1>12. SemaCounts
  <2> SUFFICES ASSUME NEW s \in DOMAIN segment
               PROVE  /\ segment[s].sema.holders = Cardinality(Inside(s))
                      /\ segment[s].sema.exclusive <=> Splitting(s) # {}
                      /\ segment[s].sema.exclusive =>
                            segment[s].sema.holders = 0 /\ ~segment[s].sema.request
    BY DEF SemaCounts
  <2>1. segment[s].sema = Free
    <3> HIDE DEF a
    <3>1. QED  BY <1>3, <1>4, <1>7
  <2>2. Inside(s) = {} /\ Splitting(s) = {}  BY <1>11 DEF Inside, Splitting
  <2>3. Cardinality(Inside(s)) = 0  BY <2>2, FS_EmptySet
  <2>4. Free.holders = 0 /\ ~Free.exclusive  BY DEF Free
  <2>5. QED  BY <2>1, <2>2, <2>3, <2>4
<1>13. OneSplit /\ OneInDirectory
  BY <1>5, <1>11 DEF OneSplit, OneInDirectory
<1>14. QED  BY <1>7, <1>8, <1>9, <1>10, <1>12, <1>13 DEF IInv, TypeInv, LockInv

LEMMA NextOK == IInv /\ [Next]_vars => IInv'
<1> SUFFICES ASSUME IInv, [Next]_vars
             PROVE  IInv'
  OBVIOUS
<1>1. CASE UNCHANGED vars
  BY <1>1, ZenonT(30) DEF vars, IInv, TypeInv, LockInv, SegmentsOK, DirectoryOK, ThreadsOK, Holding,
              SemaCounts, OneSplit, OneInDirectory, Inside, Splitting
<1>2. ASSUME NEW t \in Threads, Start(t)
      PROVE  IInv'
  BY <1>2, StartKeeps
<1>3. ASSUME NEW t \in Threads, ReadDepth(t) \/ ReadSegment(t)
      PROVE  IInv'
  BY <1>3, ReadDepthKeeps, ReadSegmentKeeps
<1>4. ASSUME NEW t \in Threads, Insert(t)
      PROVE  IInv'
  BY <1>4, LoadSemaKeeps, ReadShiftKeeps, CheckPatternKeeps, LockSharedKeeps,
     InvalidateMovedKeeps, ClearMovedKeeps, ClaimSlotKeeps, WriteValueKeeps,
     PublishKeyKeeps, MatchKeyKeeps, ReplaceKeeps, EraseKeyKeeps, UnlockSharedKeeps
     DEF Insert
<1>5. ASSUME NEW t \in Threads, Split(t)
      PROVE  IInv'
  BY <1>5, TrySplitKeeps, CopyPairsKeeps, SetPatternsKeeps, AcquireDirectoryKeeps,
     UpdateEntriesKeeps, DoubleDirectoryKeeps, ReleaseDirectoryKeeps, ReopenSegmentKeeps
     DEF Split
<1>6. ASSUME NEW t \in Threads, Get(t)
      PROVE  IInv'
  BY <1>6, GetLockKeeps, GetKeyKeeps, GetValueKeeps, GetUnlockKeeps DEF Get
<1>7. QED
  BY <1>1, <1>2, <1>3, <1>4, <1>5, <1>6 DEF Next, Step, Finished

LEMMA TypesFollow == IInv => TypeOK
<1> SUFFICES ASSUME IInv
             PROVE  TypeOK
  OBVIOUS
<1>1. SegmentsOK /\ DirectoryOK /\ ThreadsOK /\ SemaCounts
  BY DEF IInv, TypeInv, LockInv
<1>2. \A s \in DOMAIN segment :
         /\ segment[s].local_depth \in InitDepth .. HashBits
         /\ segment[s].pattern \in 0 .. 2 ^ HashBits - 1
         /\ segment[s].sema.holders \in 0 .. Cardinality(Threads)
         /\ segment[s].key \in [Slots -> SlotKeys]
         /\ segment[s].value \in [Slots -> Offsets]
  <2> TAKE s \in DOMAIN segment
  <2>1. segment[s] \in Segments  BY <1>1 DEF SegmentsOK
  <2>2. segment[s].sema.holders \in 0 .. Cardinality(Threads)
    <3>1. segment[s].sema.holders = Cardinality(Inside(s))  BY <1>1 DEF SemaCounts
    <3>2. Cardinality(Threads) \in Nat  BY CCEHAssumption, FS_CardinalityType
    <3>3. QED  BY <3>1, <3>2, InsideOK
  <2>3. QED  BY <2>1, <2>2, FieldsOK
<1>3. \A t \in Threads : /\ loc[t].target \in DOMAIN segment /\ loc[t].i \in 0 .. Probe - 1
                         /\ loc[t].old \in Offsets /\ loc[t].full \in BOOLEAN
  <2> TAKE t \in Threads
  <2>1. loc[t] \in Locals /\ loc[t].target \in DOMAIN segment  BY Facts
  <2>2. QED  BY <2>1 DEF Locals
<1>4. QED  BY <1>1, <1>2, <1>3 DEF TypeOK, DirectoryOK, ThreadsOK

\* A set without two elements.
LEMMA AtMostOne ==
    ASSUME NEW S, \A x, y \in S : x = y
    PROVE  Cardinality(S) <= 1 /\ (S # {} => Cardinality(S) = 1)
<1>1. CASE S = {}  BY <1>1, FS_EmptySet
<1>2. CASE S # {}
  <2>1. PICK x \in S : TRUE  BY <1>2
  <2>2. S = {x}  BY <2>1
  <2>3. Cardinality({x}) = 1  BY FS_Singleton
  <2>4. QED  BY <2>2, <2>3
<1>3. QED  BY <1>1, <1>2

LEMMA SplitIsAloneFollows == IInv => SplitIsAlone
<1> SUFFICES ASSUME IInv
             PROVE  SplitIsAlone
  OBVIOUS
<1>1. SemaCounts /\ OneSplit /\ OneInDirectory  BY DEF IInv, LockInv
<1>2. ASSUME NEW s \in DOMAIN segment
      PROVE  /\ segment[s].sema.holders = Cardinality(Inside(s))
             /\ Cardinality(Splitting(s)) = IF segment[s].sema.exclusive THEN 1 ELSE 0
             /\ Splitting(s) # {} => Inside(s) = {}
  <2>1. /\ segment[s].sema.holders = Cardinality(Inside(s))
        /\ segment[s].sema.exclusive <=> Splitting(s) # {}
        /\ segment[s].sema.exclusive => segment[s].sema.holders = 0
    BY <1>1 DEF SemaCounts
  <2>2. \A t, u \in Splitting(s) : t = u  BY <1>1 DEF OneSplit, Splitting
  <2>3. Splitting(s) # {} => Cardinality(Splitting(s)) = 1  BY <2>2, AtMostOne
  <2>4. Splitting(s) = {} => Cardinality(Splitting(s)) = 0  BY FS_EmptySet
  <2>5. Splitting(s) # {} => Inside(s) = {}  BY <2>1, InsideOK
  <2>6. QED  BY <2>1, <2>3, <2>4, <2>5
<1>3. Cardinality({t \in Threads : pc[t] \in {"update", "release"}}) <= 1
  <2> DEFINE S == {t \in Threads : pc[t] \in {"update", "release"}}
  <2>1. \A t, u \in S : t = u  BY <1>1 DEF OneInDirectory, DirectorySteps
  <2> HIDE DEF S
  <2>2. Cardinality(S) <= 1  BY <2>1, AtMostOne
  <2>3. QED  BY <2>2 DEF S
<1>4. QED  BY <1>2, <1>3, TypesFollow DEF SplitIsAlone

(* sema counts the threads inside, a split is alone in its segment, and    *)
(* one thread at a time changes the directory.                             *)
THEOREM SplitIsAloneInvariant == Spec => []SplitIsAlone
<1>1. Init => IInv  BY InitOK
<1>2. IInv /\ [Next]_vars => IInv'  BY NextOK
<1>3. IInv => SplitIsAlone  BY SplitIsAloneFollows
<1>4. QED  BY <1>1, <1>2, <1>3, PTL DEF Spec

-----------------------------------------------------------------------------
(* What a lookup finds in the new segment.  If no pair went round the end  *)
(* of the old one, a pair is copied to its own slot or to one before it,   *)
(* so that there is always room for it.  Otherwise the new segment has the *)
(* pair, or no open slot in its window.                                    *)

\* Every key is where a lookup of it looks, and no slot is being written.
InWindow(k, n) == \E i \in 0 .. Probe - 1 : SlotOf(k, i) = n
PairsInWindows(g) == \A k \in Keys, n \in Slots : g.key[n] = k => InWindow(k, n)
NoneClaimed(g) == \A n \in Slots : g.key[n] # SENTINEL

\* The i-th slot of its window is the first that has k; none below n has it.
FirstAt(g, k, i) ==
    /\ i \in 0 .. Probe - 1 /\ g.key[SlotOf(k, i)] = k
    /\ \A j \in 0 .. i - 1 : g.key[SlotOf(k, j)] # k
NoneBelow(g, k, n) ==
    \A i \in 0 .. Probe - 1 : SlotOf(k, i) < n => g.key[SlotOf(k, i)] # k

\* h has, for each key of the new segment, the first pair that g has below n,
\* with no open slot before it.
SamePair(g, h, k, n) ==
    \E i, j \in 0 .. Probe - 1 :
        /\ FirstAt(g, k, i) /\ SlotOf(k, i) < n
        /\ FirstAt(h, k, j) /\ h.value[SlotOf(k, j)] = g.value[SlotOf(k, i)]
        /\ \A m \in 0 .. j - 1 : h.key[SlotOf(k, m)] # INVALID

CopiedBelow(g, h, n) ==
    /\ PairsInWindows(h) /\ NoneClaimed(h)
    /\ \A m \in Slots : m >= n => h.key[m] = INVALID
    /\ \A k \in Keys : NextBit(k, g.local_depth) = 1 =>
          \/ NoneBelow(g, k, n) /\ NoneBelow(h, k, NumSlots)
          \/ SamePair(g, h, k, n)

LEMMA WindowSlots ==
    ASSUME NEW k \in SlotKeys, NEW i \in 0 .. Probe - 1
    PROVE  /\ SlotOf(k, i) \in Slots /\ Loc[k] \in Nat /\ Loc[k] < NumSlots /\ i < NumSlots
           /\ Loc[k] + i < NumSlots => SlotOf(k, i) = Loc[k] + i
           /\ Loc[k] + i >= NumSlots => SlotOf(k, i) = Loc[k] + i - NumSlots
<1>1. NumSlots \in Nat \ {0} /\ Probe \in Nat /\ Probe <= NumSlots /\ i \in Nat /\ i < Probe
  BY CCEHAssumption
<1>2. Loc[k] \in Nat /\ Loc[k] < NumSlots  BY <1>1, CCEHAssumption DEF Slots
<1>3. PICK a \in Nat : a = Loc[k] + i  BY <1>1, <1>2
<1>4. a < 2 * NumSlots  BY <1>1, <1>2, <1>3
<1>5. a < NumSlots => a % NumSlots = a  BY <1>1
<1>6. a >= NumSlots => a % NumSlots = a - NumSlots
  <2>1. \A N \in Nat \ {0}, x \in Nat : x >= N /\ x < 2 * N => x % N = x - N  OBVIOUS
  <2>2. QED  BY <1>1, <1>4, <2>1
<1>7. QED  BY <1>1, <1>2, <1>3, <1>5, <1>6, SlotOfType DEF SlotOf

\* The slots of a window are different.
LEMMA WindowApart ==
    ASSUME NEW k \in SlotKeys, NEW i \in 0 .. Probe - 1, NEW j \in 0 .. Probe - 1, i # j
    PROVE  SlotOf(k, i) # SlotOf(k, j)
<1>1. NumSlots \in Nat /\ i \in Nat /\ j \in Nat  BY CCEHAssumption
<1>2. Loc[k] \in Nat /\ i < NumSlots /\ j < NumSlots  BY WindowSlots
<1>3. CASE Loc[k] + i < NumSlots /\ Loc[k] + j < NumSlots
  BY <1>1, <1>2, <1>3, WindowSlots
<1>4. CASE Loc[k] + i < NumSlots /\ Loc[k] + j >= NumSlots
  <2>1. SlotOf(k, i) = Loc[k] + i /\ SlotOf(k, j) = Loc[k] + j - NumSlots
    BY <1>4, WindowSlots
  <2>2. QED  BY <1>1, <1>2, <2>1
<1>5. CASE Loc[k] + i >= NumSlots /\ Loc[k] + j < NumSlots
  <2>1. SlotOf(k, j) = Loc[k] + j /\ SlotOf(k, i) = Loc[k] + i - NumSlots
    BY <1>5, WindowSlots
  <2>2. QED  BY <1>1, <1>2, <2>1
<1>6. CASE Loc[k] + i >= NumSlots /\ Loc[k] + j >= NumSlots
  <2>1. SlotOf(k, i) = Loc[k] + i - NumSlots /\ SlotOf(k, j) = Loc[k] + j - NumSlots
    BY <1>6, WindowSlots
  <2>2. QED  BY <1>1, <1>2, <2>1
<1>7. QED  BY <1>1, <1>2, <1>3, <1>4, <1>5, <1>6

\* A pair that did not go round the end stands behind the slots probed before.
LEMMA StaysBehind ==
    ASSUME NEW g \in Segments, ~WentRound(g), NEW k \in Keys, NextBit(k, g.local_depth) = 1,
           NEW i \in 0 .. Probe - 1, g.key[SlotOf(k, i)] = k,
           NEW j \in 0 .. i
    PROVE  j \in 0 .. Probe - 1 /\ SlotOf(k, j) = Loc[k] + j
<1>1. NumSlots \in Nat /\ i \in Nat /\ j \in Nat /\ j <= i /\ Probe \in Nat /\ k \in SlotKeys
  BY CCEHAssumption DEF SlotKeys
<1>2. j \in 0 .. Probe - 1  BY <1>1
<1>3. ~(SlotOf(k, i) < Loc[k])
  <2>1. SlotOf(k, i) \in Slots  BY <1>1, WindowSlots
  <2>2. QED  BY <2>1 DEF WentRound
<1>4. Loc[k] \in Nat /\ i < NumSlots  BY <1>1, WindowSlots
<1>5. Loc[k] + i < NumSlots
  <2>1. SUFFICES ASSUME Loc[k] + i >= NumSlots  PROVE FALSE
    BY <1>1, <1>4
  <2>2. SlotOf(k, i) = Loc[k] + i - NumSlots  BY <1>1, <2>1, WindowSlots
  <2>3. QED  BY <1>1, <1>3, <1>4, <2>2
<1>6. Loc[k] + j < NumSlots  BY <1>1, <1>4, <1>5
<1>7. QED  BY <1>1, <1>2, <1>6, WindowSlots

PutAt(g, m, k, v) == [g EXCEPT !.key[m] = k, !.value[m] = v]

\* What Insert4split writes: nothing, or k and v to the first open slot.
LEMMA Insert4splitWrites ==
    ASSUME NEW g \in Segments, NEW k \in SlotKeys, NEW v \in Offsets
    PROVE  \/ /\ Insert4split(g, k, v) = g
              /\ \A i \in 0 .. Probe - 1 : g.key[SlotOf(k, i)] # INVALID
           \/ \E i \in 0 .. Probe - 1 :
                 /\ g.key[SlotOf(k, i)] = INVALID
                 /\ \A j \in 0 .. i - 1 : g.key[SlotOf(k, j)] # INVALID
                 /\ Insert4split(g, k, v) = PutAt(g, SlotOf(k, i), k, v)
<1> DEFINE open == {i \in 0 .. Probe - 1 : g.key[SlotOf(k, i)] = INVALID}
           first == CHOOSE i \in open : \A j \in open : i <= j
<1>1. CASE open = {}
  BY <1>1 DEF Insert4split
<1>2. CASE open # {}
  <2>1. open \subseteq Nat  BY CCEHAssumption
  <2>2. \E i \in open : \A j \in open : i <= j
    <3> HIDE DEF open
    <3>1. QED  BY <1>2, <2>1, Least
  <2>3. first \in open /\ \A j \in open : first <= j
    <3> HIDE DEF open
    <3>1. QED  BY <2>2
  <2>4. PICK i : i = first  OBVIOUS
  <2>5. Insert4split(g, k, v) = PutAt(g, SlotOf(k, i), k, v)
    BY <1>2, <2>4 DEF Insert4split, PutAt
  <2> HIDE DEF first
  <2>6. i \in 0 .. Probe - 1 /\ g.key[SlotOf(k, i)] = INVALID  BY <2>3, <2>4
  <2>7. \A j \in 0 .. i - 1 : j \notin open
    <3> HIDE DEF open
    <3>1. i \in Nat  BY <2>1, <2>3, <2>4
    <3>2. \A j \in 0 .. i - 1 : ~(i <= j)  BY <3>1
    <3>3. QED  BY <2>3, <2>4, <3>2
  <2>8. \A j \in 0 .. i - 1 : j \in 0 .. Probe - 1  BY <2>6, CCEHAssumption
  <2>9. \A j \in 0 .. i - 1 : g.key[SlotOf(k, j)] # INVALID  BY <2>7, <2>8
  <2>10. QED  BY <2>5, <2>6, <2>9
<1>3. QED  BY <1>1, <1>2

\* A slot that is not copied, or an open one.
LEMMA NothingCopied ==
    ASSUME NEW g \in Segments, NEW h \in Segments, NEW f \in Segments,
           NEW n \in 1 .. NumSlots, CopiedBelow(g, h, n - 1),
           \A k \in Keys : NextBit(k, g.local_depth) = 1 => g.key[n - 1] # k,
           f.key = h.key,
           \A m \in Slots : h.key[m] # INVALID => f.value[m] = h.value[m]
    PROVE  CopiedBelow(g, f, n)
<1>1. NumSlots \in Nat \ {0} /\ INVALID \notin Keys  BY CCEHAssumption
<1>2. PairsInWindows(f) /\ NoneClaimed(f)
  <2>1. PairsInWindows(h) /\ NoneClaimed(h)  BY DEF CopiedBelow
  <2>2. PairsInWindows(f)  BY <2>1 DEF PairsInWindows
  <2>3. NoneClaimed(f)  BY <2>1 DEF NoneClaimed
  <2>4. QED  BY <2>2, <2>3
<1>3. \A m \in Slots : m >= n => f.key[m] = INVALID
  BY <1>1 DEF CopiedBelow, Slots
<1>4. ASSUME NEW k \in Keys, NextBit(k, g.local_depth) = 1
      PROVE  \/ NoneBelow(g, k, n) /\ NoneBelow(f, k, NumSlots)
             \/ SamePair(g, f, k, n)
  <2>1. CASE NoneBelow(g, k, n - 1) /\ NoneBelow(h, k, NumSlots)
    <3>1. ASSUME NEW i \in 0 .. Probe - 1, SlotOf(k, i) < n
          PROVE  g.key[SlotOf(k, i)] # k
      <4>1. SlotOf(k, i) \in Slots  BY WindowSlots DEF SlotKeys
      <4>2. SlotOf(k, i) < n - 1 \/ SlotOf(k, i) = n - 1
        BY <1>1, <3>1, <4>1 DEF Slots
      <4>3. QED  BY <1>4, <2>1, <4>2 DEF NoneBelow
    <3>2. NoneBelow(f, k, NumSlots)  BY <2>1 DEF NoneBelow
    <3>3. QED  BY <3>1, <3>2 DEF NoneBelow
  <2>2. CASE SamePair(g, h, k, n - 1)
    <3>1. PICK i \in 0 .. Probe - 1, j \in 0 .. Probe - 1 :
             /\ FirstAt(g, k, i) /\ SlotOf(k, i) < n - 1
             /\ FirstAt(h, k, j) /\ h.value[SlotOf(k, j)] = g.value[SlotOf(k, i)]
             /\ \A m \in 0 .. j - 1 : h.key[SlotOf(k, m)] # INVALID
      BY <2>2 DEF SamePair
    <3>2. SlotOf(k, i) \in Slots /\ SlotOf(k, j) \in Slots  BY WindowSlots DEF SlotKeys
    <3>3. SlotOf(k, i) < n  BY <1>1, <3>1, <3>2 DEF Slots
    <3>4. f.value[SlotOf(k, j)] = g.value[SlotOf(k, i)]
      BY <1>1, <3>1, <3>2 DEF FirstAt
    <3>5. FirstAt(f, k, j)  BY <3>1 DEF FirstAt
    <3>6. QED  BY <3>1, <3>3, <3>4, <3>5 DEF SamePair
  <2>3. QED  BY <1>4, <2>1, <2>2 DEF CopiedBelow
<1>5. QED  BY <1>2, <1>3, <1>4 DEF CopiedBelow

LEMMA PairCopied ==
    ASSUME NEW g \in Segments, ~WentRound(g), NEW h \in Segments,
           NEW n \in 1 .. NumSlots, CopiedBelow(g, h, n - 1), PairsInWindows(g),
           NEW x \in Keys, NEW v \in Offsets, g.key[n - 1] = x, g.value[n - 1] = v,
           NextBit(x, g.local_depth) = 1
    PROVE  CopiedBelow(g, Insert4split(h, x, v), n)
<1> DEFINE f == Insert4split(h, x, v)
<1>1. /\ NumSlots \in Nat \ {0} /\ Probe \in Nat /\ x # INVALID /\ x # SENTINEL
      /\ n - 1 \in Slots /\ x \in SlotKeys
  BY CCEHAssumption DEF Slots, SlotKeys
<1>2. PICK i0 \in 0 .. Probe - 1 : SlotOf(x, i0) = n - 1
  BY <1>1 DEF PairsInWindows, InWindow
<1>3. h.key[SlotOf(x, i0)] = INVALID  BY <1>1, <1>2 DEF CopiedBelow, Slots
<1>4. PICK p \in 0 .. Probe - 1 :
         /\ h.key[SlotOf(x, p)] = INVALID
         /\ \A j \in 0 .. p - 1 : h.key[SlotOf(x, j)] # INVALID
         /\ f = PutAt(h, SlotOf(x, p), x, v)
  BY <1>1, <1>3, Insert4splitWrites
<1>5. PICK q \in Slots : q = SlotOf(x, p) /\ Loc[x] \in Nat
  BY <1>1, WindowSlots
<1>6. p <= i0 /\ q <= n - 1
  <2>1. p <= i0  BY <1>3, <1>4
  <2>2. i0 \in 0 .. i0 /\ p \in 0 .. i0 /\ g.key[SlotOf(x, i0)] = x  BY <1>1, <1>2, <2>1
  <2>3. Loc[x] + i0 = n - 1 /\ q = Loc[x] + p  BY <1>2, <1>5, <2>2, StaysBehind
  <2>4. QED  BY <1>1, <1>5, <2>1, <2>3
<1>7. /\ f.key[q] = x /\ f.value[q] = v
      /\ \A m \in Slots \ {q} : f.key[m] = h.key[m] /\ f.value[m] = h.value[m]
  BY <1>4, <1>5, FieldsOK DEF Segments, PutAt
<1>8. h.key[q] = INVALID  BY <1>4, <1>5
<1> HIDE DEF f
<1>9. PairsInWindows(f)
  <2>1. PairsInWindows(h)  BY DEF CopiedBelow
  <2>2. InWindow(x, q)  BY <1>5 DEF InWindow
  <2>3. \A k \in Keys, m \in Slots \ {q} : f.key[m] = k => InWindow(k, m)
    BY <1>7, <2>1 DEF PairsInWindows, InWindow
  <2>4. QED  BY <1>7, <2>2, <2>3 DEF PairsInWindows
<1>10. NoneClaimed(f)
  BY <1>1, <1>5, <1>7 DEF CopiedBelow, NoneClaimed
<1>11. \A m \in Slots : m >= n => f.key[m] = INVALID
  BY <1>1, <1>6, <1>7 DEF CopiedBelow, Slots
<1>12. ASSUME NEW k \in Keys, NextBit(k, g.local_depth) = 1, k # x
       PROVE  \/ NoneBelow(g, k, n) /\ NoneBelow(f, k, NumSlots)
              \/ SamePair(g, f, k, n)
  <2>1. CASE NoneBelow(g, k, n - 1) /\ NoneBelow(h, k, NumSlots)
    <3>1. ASSUME NEW i \in 0 .. Probe - 1, SlotOf(k, i) < n
          PROVE  g.key[SlotOf(k, i)] # k
      <4>1. SlotOf(k, i) \in Slots  BY WindowSlots DEF SlotKeys
      <4>2. SlotOf(k, i) < n - 1 \/ SlotOf(k, i) = n - 1
        BY <1>1, <3>1, <4>1 DEF Slots
      <4>3. QED  BY <1>12, <2>1, <4>2 DEF NoneBelow
    <3>2. ASSUME NEW i \in 0 .. Probe - 1
          PROVE  f.key[SlotOf(k, i)] # k
      <4>1. SlotOf(k, i) \in Slots  BY WindowSlots DEF SlotKeys
      <4>2. h.key[SlotOf(k, i)] # k  BY <2>1, <4>1, <1>1 DEF NoneBelow, Slots
      <4>3. QED  BY <1>7, <1>12, <4>1, <4>2
    <3>3. QED  BY <3>1, <3>2 DEF NoneBelow
  <2>2. CASE SamePair(g, h, k, n - 1)
    <3>1. PICK i \in 0 .. Probe - 1, j \in 0 .. Probe - 1 :
             /\ FirstAt(g, k, i) /\ SlotOf(k, i) < n - 1
             /\ FirstAt(h, k, j) /\ h.value[SlotOf(k, j)] = g.value[SlotOf(k, i)]
             /\ \A m \in 0 .. j - 1 : h.key[SlotOf(k, m)] # INVALID
      BY <2>2 DEF SamePair
    <3>2. SlotOf(k, i) \in Slots /\ SlotOf(k, j) \in Slots  BY WindowSlots DEF SlotKeys
    <3>3. SlotOf(k, i) < n  BY <1>1, <3>1, <3>2 DEF Slots
    <3>4. SlotOf(k, j) # q /\ h.key[SlotOf(k, j)] = k
      BY <1>8, <3>1, CCEHAssumption DEF FirstAt
    <3>5. f.value[SlotOf(k, j)] = g.value[SlotOf(k, i)] /\ f.key[SlotOf(k, j)] = k
      BY <1>7, <3>1, <3>2, <3>4
    <3>6. ASSUME NEW m \in 0 .. j - 1
          PROVE  f.key[SlotOf(k, m)] # INVALID /\ f.key[SlotOf(k, m)] # k
      <4>1. m \in 0 .. Probe - 1  BY <1>1
      <4>2. SlotOf(k, m) \in Slots  BY <4>1, WindowSlots DEF SlotKeys
      <4>3. h.key[SlotOf(k, m)] # INVALID /\ h.key[SlotOf(k, m)] # k
        BY <3>1 DEF FirstAt
      <4>4. QED  BY <1>1, <1>7, <1>12, <4>2, <4>3
    <3>7. FirstAt(f, k, j)  BY <3>5, <3>6 DEF FirstAt
    <3>8. QED  BY <3>1, <3>3, <3>5, <3>6, <3>7 DEF SamePair
  <2>3. QED  BY <1>12, <2>1, <2>2 DEF CopiedBelow
<1>13. ASSUME NEW m \in 0 .. Probe - 1, m # p
       PROVE  f.key[SlotOf(x, m)] = h.key[SlotOf(x, m)]
              /\ f.value[SlotOf(x, m)] = h.value[SlotOf(x, m)]
  <2>1. SlotOf(x, m) \in Slots  BY <1>1, WindowSlots
  <2>2. SlotOf(x, m) # q  BY <1>1, <1>5, <1>13, WindowApart
  <2>3. QED  BY <1>7, <2>1, <2>2
<1>14. ASSUME NoneBelow(g, x, n - 1), NoneBelow(h, x, NumSlots)
       PROVE  SamePair(g, f, x, n)
  <2>1. FirstAt(g, x, i0)
    <3>1. ASSUME NEW j \in 0 .. i0 - 1
          PROVE  g.key[SlotOf(x, j)] # x
      <4>1. j \in 0 .. Probe - 1 /\ j < i0 /\ i0 \in Nat  BY <1>1
      <4>2. SlotOf(x, j) = Loc[x] + j /\ SlotOf(x, i0) = Loc[x] + i0
        <5>1. i0 \in 0 .. i0 /\ j \in 0 .. i0 /\ g.key[SlotOf(x, i0)] = x  BY <1>1, <1>2, <4>1
        <5>2. QED  BY <5>1, StaysBehind
      <4>3. SlotOf(x, j) < n - 1  BY <1>2, <1>5, <4>1, <4>2
      <4>4. QED  BY <1>14, <4>1, <4>3 DEF NoneBelow
    <3>2. QED  BY <1>2, <3>1 DEF FirstAt
  <2>2. ASSUME NEW j \in 0 .. p - 1
        PROVE  f.key[SlotOf(x, j)] # x /\ f.key[SlotOf(x, j)] # INVALID
    <3>1. j \in 0 .. Probe - 1 /\ j # p  BY <1>1
    <3>2. SlotOf(x, j) \in Slots  BY <3>1, WindowSlots DEF SlotKeys
    <3>3. h.key[SlotOf(x, j)] # x  BY <1>1, <1>14, <3>1, <3>2 DEF NoneBelow, Slots
    <3>4. QED  BY <1>4, <1>13, <3>1, <3>3
  <2>3. FirstAt(f, x, p)  BY <1>5, <1>7, <2>2 DEF FirstAt
  <2>4. SlotOf(x, i0) < n  BY <1>1, <1>2 DEF Slots
  <2>5. f.value[SlotOf(x, p)] = g.value[SlotOf(x, i0)]  BY <1>2, <1>5, <1>7
  <2>6. QED  BY <2>1, <2>2, <2>3, <2>4, <2>5 DEF SamePair
<1>15. ASSUME SamePair(g, h, x, n - 1)
       PROVE  SamePair(g, f, x, n)
  <2>1. PICK i \in 0 .. Probe - 1, j \in 0 .. Probe - 1 :
           /\ FirstAt(g, x, i) /\ SlotOf(x, i) < n - 1
           /\ FirstAt(h, x, j) /\ h.value[SlotOf(x, j)] = g.value[SlotOf(x, i)]
           /\ \A m \in 0 .. j - 1 : h.key[SlotOf(x, m)] # INVALID
    BY <1>15 DEF SamePair
  <2>2. p \notin 0 .. j
    <3>1. h.key[SlotOf(x, j)] # INVALID  BY <1>1, <2>1 DEF FirstAt
    <3>2. QED  BY <1>4, <2>1, <3>1
  <2>3. \A m \in 0 .. j : m \in 0 .. Probe - 1 /\ m # p  BY <1>1, <2>2
  <2>4. \A m \in 0 .. j : /\ f.key[SlotOf(x, m)] = h.key[SlotOf(x, m)]
                          /\ f.value[SlotOf(x, m)] = h.value[SlotOf(x, m)]
    BY <1>13, <2>3
  <2>5. j \in 0 .. j /\ \A m \in 0 .. j - 1 : m \in 0 .. j  BY <2>1
  <2>6. FirstAt(f, x, j)  BY <2>1, <2>4, <2>5 DEF FirstAt
  <2>7. SlotOf(x, i) \in Slots  BY WindowSlots DEF SlotKeys
  <2>8. SlotOf(x, i) < n  BY <1>1, <2>1, <2>7 DEF Slots
  <2>9. QED  BY <2>1, <2>4, <2>5, <2>6, <2>8 DEF SamePair
<1>16. ASSUME NEW k \in Keys, NextBit(k, g.local_depth) = 1
       PROVE  \/ NoneBelow(g, k, n) /\ NoneBelow(f, k, NumSlots)
              \/ SamePair(g, f, k, n)
  BY <1>12, <1>14, <1>15, <1>16 DEF CopiedBelow
<1>17. QED  BY <1>9, <1>10, <1>11, <1>16 DEF CopiedBelow, f

LEMMA CopyStepKeeps ==
    ASSUME NEW g \in Segments, ~WentRound(g), NEW h \in Segments, PairsInWindows(g),
           NoneClaimed(g), NEW n \in 1 .. NumSlots, CopiedBelow(g, h, n - 1)
    PROVE  CopiedBelow(g, CopyStep(g, h, n), n)
<1>1. PICK x, v : x = g.key[n - 1] /\ v = g.value[n - 1]  OBVIOUS
<1>2. n - 1 \in Slots  BY CCEHAssumption DEF Slots
<1>3. x \in SlotKeys /\ v \in Offsets /\ x # SENTINEL
  BY <1>1, <1>2, FieldsOK DEF NoneClaimed
<1>4. CASE NextBit(x, g.local_depth) # 1
  <2>1. CopyStep(g, h, n) = h  BY <1>1, <1>4 DEF CopyStep
  <2>2. \A k \in Keys : NextBit(k, g.local_depth) = 1 => g.key[n - 1] # k
    BY <1>1, <1>4
  <2>3. QED  BY <2>1, <2>2, NothingCopied
<1>5. CASE NextBit(x, g.local_depth) = 1 /\ x \in Keys
  <2>1. CopyStep(g, h, n) = Insert4split(h, x, v)  BY <1>1, <1>5 DEF CopyStep
  <2>2. QED  BY <1>1, <1>3, <1>5, <2>1, PairCopied
<1>6. CASE NextBit(x, g.local_depth) = 1 /\ x = INVALID
  <2> DEFINE f == Insert4split(h, x, v)
  <2>1. CopyStep(g, h, n) = f  BY <1>1, <1>6 DEF CopyStep
  <2>2. f \in Segments  BY <1>3, Insert4splitOK
  <2>3. f.key = h.key /\ \A m \in Slots : h.key[m] # INVALID => f.value[m] = h.value[m]
    <3>1. CASE f = h  BY <3>1
    <3>2. CASE \E i \in 0 .. Probe - 1 : /\ h.key[SlotOf(x, i)] = INVALID
                                         /\ f = PutAt(h, SlotOf(x, i), x, v)
      <4>1. PICK i \in 0 .. Probe - 1 : /\ h.key[SlotOf(x, i)] = INVALID
                                        /\ f = PutAt(h, SlotOf(x, i), x, v)
        BY <3>2
      <4>2. i \in Nat  BY CCEHAssumption
      <4>3. PICK q \in Slots : q = SlotOf(x, i)  BY <1>3, <4>2, SlotOfType
      <4>4. /\ f.key = [h.key EXCEPT ![q] = INVALID]
            /\ f.value = [h.value EXCEPT ![q] = v]
        BY <1>6, <4>1, <4>3 DEF PutAt, Segments
      <4>5. h.key \in [Slots -> SlotKeys] /\ h.value \in [Slots -> Offsets]
            /\ h.key[q] = INVALID
        BY <4>1, <4>3, FieldsOK
      <4> HIDE DEF f
      <4>6. QED  BY <4>4, <4>5
    <3>3. QED  BY <1>3, <3>1, <3>2, Insert4splitWrites
  <2>4. \A k \in Keys : g.key[n - 1] # k  BY <1>1, <1>6, CCEHAssumption
  <2> HIDE DEF f
  <2>5. QED  BY <2>1, <2>2, <2>3, <2>4, NothingCopied
<1>7. QED  BY <1>3, <1>4, <1>5, <1>6 DEF SlotKeys

\* What a lookup finds, without the choice of a slot.
LEMMA Finds ==
    ASSUME NEW g \in Segments, NEW k \in Keys
    PROVE  /\ NoneBelow(g, k, NumSlots) => Find(g, k) = NONE
           /\ \A i \in 0 .. Probe - 1 : FirstAt(g, k, i) => Find(g, k) = g.value[SlotOf(k, i)]
<1> DEFINE at == {i \in 0 .. Probe - 1 : g.key[SlotOf(k, i)] = k}
<1>1. ASSUME NoneBelow(g, k, NumSlots)
      PROVE  Find(g, k) = NONE
  <2>1. \A i \in 0 .. Probe - 1 : SlotOf(k, i) < NumSlots
    BY WindowSlots, CCEHAssumption DEF Slots, SlotKeys
  <2>2. at = {}  BY <1>1, <2>1 DEF NoneBelow
  <2>3. QED  BY <2>2 DEF Find
<1>2. ASSUME NEW i \in 0 .. Probe - 1, FirstAt(g, k, i)
      PROVE  Find(g, k) = g.value[SlotOf(k, i)]
  <2>1. at \subseteq Nat /\ i \in at  BY <1>2, CCEHAssumption DEF FirstAt
  <2>2. \A j \in at : i <= j
    <3>1. SUFFICES ASSUME NEW j \in at, j < i
                   PROVE  FALSE
      BY <2>1
    <3>2. j \in 0 .. i - 1 /\ g.key[SlotOf(k, j)] = k  BY <2>1, <3>1
    <3>3. QED  BY <1>2, <3>2 DEF FirstAt
  <2>3. (CHOOSE j \in at : \A m \in at : j <= m) = i
    <3> HIDE DEF at
    <3>1. \A j \in at : (\A m \in at : j <= m) => j = i  BY <2>1, <2>2
    <3>2. QED  BY <2>1, <2>2, <3>1
  <2>4. at # {}  BY <2>1
  <2>5. QED  BY <2>3, <2>4 DEF Find
<1>3. QED  BY <1>1, <1>2

\* Without pairs that went round the end, every pair is found in the copy.
LEMMA InOrderCopies ==
    ASSUME NEW g \in Segments, ~WentRound(g), g.local_depth < HashBits,
           PairsInWindows(g), NoneClaimed(g)
    PROVE  \A k \in Keys : NextBit(k, g.local_depth) = 1 => Find(Copied(g), k) = Find(g, k)
<1>1. PICK c : c \in CopySteps(g)  BY CopyStepsExist
<1>2. /\ \A n \in 0 .. NumSlots : c[n] \in Segments
      /\ c[0] = NewSegment(g.local_depth + 1, 0)
      /\ \A n \in 1 .. NumSlots : c[n] = CopyStep(g, c[n - 1], n)
      /\ c[NumSlots] = Copied(g)
  BY <1>1 DEF CopySteps
<1>3. NumSlots \in Nat \ {0} /\ INVALID \notin Keys /\ INVALID # SENTINEL
  BY CCEHAssumption
<1>4. CopiedBelow(g, c[0], 0)
  <2>1. \A m \in Slots : c[0].key[m] = INVALID  BY <1>2 DEF NewSegment
  <2>2. PairsInWindows(c[0]) /\ NoneClaimed(c[0])
    BY <1>3, <2>1 DEF PairsInWindows, NoneClaimed
  <2>3. ASSUME NEW k \in Keys
        PROVE  NoneBelow(g, k, 0) /\ NoneBelow(c[0], k, NumSlots)
    <3>1. \A i \in 0 .. Probe - 1 : SlotOf(k, i) \in Slots  BY WindowSlots DEF SlotKeys
    <3>2. \A i \in 0 .. Probe - 1 : ~(SlotOf(k, i) < 0)
      BY <1>3, <3>1 DEF Slots
    <3>3. QED  BY <1>3, <2>1, <3>1, <3>2 DEF NoneBelow
  <2>4. QED  BY <2>1, <2>2, <2>3 DEF CopiedBelow
<1>5. CopiedBelow(g, c[NumSlots], NumSlots)
  <2> DEFINE S == {n \in 0 .. NumSlots : CopiedBelow(g, c[n], n)}
  <2>1. 0 \in S  BY <1>3, <1>4
  <2>2. ASSUME NEW n \in 1 .. NumSlots, n - 1 \in S
        PROVE  n \in S
    <3>1. CopiedBelow(g, c[n - 1], n - 1) /\ n - 1 \in 0 .. NumSlots  BY <2>2
    <3>2. c[n - 1] \in Segments  BY <1>2, <3>1
    <3>3. CopiedBelow(g, CopyStep(g, c[n - 1], n), n)
      BY <3>1, <3>2, CopyStepKeeps
    <3>4. QED  BY <1>2, <3>3
  <2> HIDE DEF S
  <2>3. \A n \in 0 + 1 .. NumSlots : n - 1 \in S => n \in S  BY <2>2
  <2>4. \A n \in 0 .. NumSlots : n \in S
    BY <1>3, <2>1, <2>3, Induction
  <2>5. NumSlots \in S  BY <1>3, <2>4
  <2>6. QED  BY <2>5 DEF S
<1>6. ASSUME NEW k \in Keys, NextBit(k, g.local_depth) = 1
      PROVE  Find(Copied(g), k) = Find(g, k)
  <2> DEFINE h == Copied(g)
  <2>1. h \in Segments /\ CopiedBelow(g, h, NumSlots)  BY <1>2, <1>3, <1>5
  <2> HIDE DEF h
  <2>2. CASE NoneBelow(g, k, NumSlots) /\ NoneBelow(h, k, NumSlots)
    BY <2>1, <2>2, Finds DEF h
  <2>3. CASE SamePair(g, h, k, NumSlots)
    <3>1. PICK i \in 0 .. Probe - 1, j \in 0 .. Probe - 1 :
             /\ FirstAt(g, k, i) /\ FirstAt(h, k, j)
             /\ h.value[SlotOf(k, j)] = g.value[SlotOf(k, i)]
      BY <2>3 DEF SamePair
    <3>2. QED  BY <2>1, <3>1, Finds DEF h
  <2>4. QED  BY <1>6, <2>1, <2>2, <2>3 DEF CopiedBelow
<1>7. QED  BY <1>6

\* The keys of which the old segment has one pair: h has no open slot for k,
\* neither segment has it, or h has only the pair of g.
CopiedOnce(g, h, n, k) ==
    \/ WindowFull(h, k)
    \/ /\ \A m \in Slots : m < n => g.key[m] # k
       /\ \A m \in Slots : h.key[m] # k
    \/ \E m \in Slots :
          /\ m < n /\ g.key[m] = k
          /\ \E j \in 0 .. Probe - 1 : h.key[SlotOf(k, j)] = k
          /\ \A j \in Slots : h.key[j] = k => h.value[j] = g.value[m]

CopiedSafely(g, h, n) ==
    /\ PairsInWindows(h) /\ NoneClaimed(h)
    /\ \A k \in Keys : NextBit(k, g.local_depth) = 1 /\ ~Twice(g, k) => CopiedOnce(g, h, n, k)

\* The pair is written, to an open slot of its window.
LEMMA PairWritten ==
    ASSUME NEW g \in Segments, NEW h \in Segments, NEW f \in Segments,
           NEW n \in 1 .. NumSlots, NEW k \in Keys, ~Twice(g, k), CopiedOnce(g, h, n - 1, k),
           NEW x \in SlotKeys, x # SENTINEL, g.key[n - 1] = x,
           NEW p \in 0 .. Probe - 1, NEW q \in Slots, q = SlotOf(x, p), h.key[q] = INVALID,
           f.key[q] = x, f.value[q] = g.value[n - 1],
           \A m \in Slots \ {q} : f.key[m] = h.key[m] /\ f.value[m] = h.value[m]
    PROVE  CopiedOnce(g, f, n, k)
<1>1. n - 1 \in Slots /\ n \in Int /\ k # INVALID /\ k \in SlotKeys
      /\ \A m \in Slots : m \in Int /\ (m < n - 1 => m < n) /\ (m < n => m < n - 1 \/ m = n - 1)
  BY CCEHAssumption DEF Slots, SlotKeys
<1>2. \A i \in 0 .. Probe - 1 : SlotOf(k, i) \in Slots  BY <1>1, WindowSlots
<1>3. CASE WindowFull(h, k)
  <2>1. \A i \in 0 .. Probe - 1 : f.key[SlotOf(k, i)] # INVALID
    BY <1>2, <1>3 DEF WindowFull
  <2>2. QED  BY <2>1 DEF CopiedOnce, WindowFull
<1>4. CASE /\ \A m \in Slots : m < n - 1 => g.key[m] # k
           /\ \A m \in Slots : h.key[m] # k
  <2>1. CASE x = k
    <3>1. n - 1 < n  BY <1>1
    <3>2. \A j \in Slots : f.key[j] = k => f.value[j] = g.value[n - 1]  BY <1>4
    <3>3. f.key[SlotOf(k, p)] = k  BY <2>1
    <3>4. QED  BY <1>1, <2>1, <3>1, <3>2, <3>3 DEF CopiedOnce
  <2>2. CASE x # k
    <3>1. \A m \in Slots : m < n => g.key[m] # k  BY <1>1, <1>4, <2>2
    <3>2. \A m \in Slots : f.key[m] # k  BY <1>4, <2>2
    <3>3. QED  BY <3>1, <3>2 DEF CopiedOnce
  <2>3. QED  BY <2>1, <2>2
<1>5. CASE \E m \in Slots :
              /\ m < n - 1 /\ g.key[m] = k
              /\ \E j \in 0 .. Probe - 1 : h.key[SlotOf(k, j)] = k
              /\ \A j \in Slots : h.key[j] = k => h.value[j] = g.value[m]
  <2>1. PICK m \in Slots :
           /\ m < n - 1 /\ g.key[m] = k
           /\ \E j \in 0 .. Probe - 1 : h.key[SlotOf(k, j)] = k
           /\ \A j \in Slots : h.key[j] = k => h.value[j] = g.value[m]
    BY <1>5
  <2>2. x # k
    <3>1. m # n - 1  BY <1>1, <2>1
    <3>2. QED  BY <1>1, <2>1, <3>1 DEF Twice
  <2>3. \E j \in 0 .. Probe - 1 : f.key[SlotOf(k, j)] = k
    <3>1. PICK j \in 0 .. Probe - 1 : h.key[SlotOf(k, j)] = k  BY <2>1
    <3>2. SlotOf(k, j) \in Slots \ {q}  BY <1>1, <1>2, <3>1
    <3>3. QED  BY <3>1, <3>2
  <2>4. \A j \in Slots : f.key[j] = k => f.value[j] = g.value[m]  BY <2>1, <2>2
  <2>5. QED  BY <1>1, <2>1, <2>3, <2>4 DEF CopiedOnce
<1>6. QED  BY <1>3, <1>4, <1>5 DEF CopiedOnce

\* The slot is not copied, or there is no open slot for its pair.
LEMMA PairNotWritten ==
    ASSUME NEW g \in Segments, NEW h \in Segments,
           NEW n \in 1 .. NumSlots, NEW k \in Keys, ~Twice(g, k), CopiedOnce(g, h, n - 1, k),
           g.key[n - 1] = k => WindowFull(h, k)
    PROVE  CopiedOnce(g, h, n, k)
<1>1. \A m \in Slots : m \in Int /\ (m < n - 1 => m < n) /\ (m < n => m < n - 1 \/ m = n - 1)
  BY CCEHAssumption DEF Slots
<1>2. CASE WindowFull(h, k)  BY <1>2 DEF CopiedOnce
<1>3. CASE ~WindowFull(h, k)
  <2>1. CASE /\ \A m \in Slots : m < n - 1 => g.key[m] # k
             /\ \A m \in Slots : h.key[m] # k
    <3>1. \A m \in Slots : m < n => g.key[m] # k  BY <1>1, <1>3, <2>1
    <3>2. QED  BY <2>1, <3>1 DEF CopiedOnce
  <2>2. CASE \E m \in Slots :
                /\ m < n - 1 /\ g.key[m] = k
                /\ \E j \in 0 .. Probe - 1 : h.key[SlotOf(k, j)] = k
                /\ \A j \in Slots : h.key[j] = k => h.value[j] = g.value[m]
    <3>1. PICK m \in Slots :
             /\ m < n - 1 /\ g.key[m] = k
             /\ \E j \in 0 .. Probe - 1 : h.key[SlotOf(k, j)] = k
             /\ \A j \in Slots : h.key[j] = k => h.value[j] = g.value[m]
      BY <2>2
    <3>2. m < n  BY <1>1, <3>1
    <3>3. QED  BY <3>1, <3>2 DEF CopiedOnce
  <2>3. QED  BY <1>3, <2>1, <2>2 DEF CopiedOnce
<1>4. QED  BY <1>2, <1>3

LEMMA CopyStepIsSafe ==
    ASSUME NEW g \in Segments, NEW h \in Segments, NoneClaimed(g),
           NEW n \in 1 .. NumSlots, CopiedSafely(g, h, n - 1)
    PROVE  CopiedSafely(g, CopyStep(g, h, n), n)
<1> DEFINE f == CopyStep(g, h, n)
<1>1. PICK x, v : x = g.key[n - 1] /\ v = g.value[n - 1]  OBVIOUS
<1>2. n - 1 \in Slots  BY CCEHAssumption DEF Slots
<1>3. x \in SlotKeys /\ v \in Offsets /\ x # SENTINEL
  BY <1>1, <1>2, FieldsOK DEF NoneClaimed
<1>4. CASE f = h /\ (NextBit(x, g.local_depth) # 1 \/ WindowFull(h, x))
  <2>1. ASSUME NEW k \in Keys, NextBit(k, g.local_depth) = 1, ~Twice(g, k)
        PROVE  CopiedOnce(g, h, n, k)
    <3>1. g.key[n - 1] = k => WindowFull(h, k)  BY <1>1, <1>4, <2>1
    <3>2. CopiedOnce(g, h, n - 1, k)  BY <2>1 DEF CopiedSafely
    <3>3. QED  BY <2>1, <3>1, <3>2, PairNotWritten
  <2> HIDE DEF f
  <2>2. CopiedSafely(g, h, n)  BY <2>1 DEF CopiedSafely
  <2>3. CopiedSafely(g, f, n)  BY <1>4, <2>2
  <2>4. QED  BY <2>3 DEF f
<1>5. ASSUME NEW p \in 0 .. Probe - 1, h.key[SlotOf(x, p)] = INVALID,
             f = PutAt(h, SlotOf(x, p), x, v)
      PROVE  CopiedSafely(g, f, n)
  <2>1. PICK q \in Slots : q = SlotOf(x, p)  BY <1>3, WindowSlots
  <2>2. /\ f.key[q] = x /\ f.value[q] = v
        /\ \A m \in Slots \ {q} : f.key[m] = h.key[m] /\ f.value[m] = h.value[m]
        /\ f \in Segments
    <3> HIDE DEF f
    <3>1. f = [h EXCEPT !.key[q] = x, !.value[q] = v]  BY <1>5, <2>1 DEF PutAt
    <3>2. QED  BY <1>3, <2>1, <3>1 DEF Segments
  <2> HIDE DEF f
  <2>3. PairsInWindows(f)
    <3>1. PairsInWindows(h)  BY DEF CopiedSafely
    <3>2. x \in Keys => InWindow(x, q)  BY <2>1 DEF InWindow
    <3>3. ASSUME NEW k \in Keys, NEW m \in Slots, f.key[m] = k
          PROVE  InWindow(k, m)
      <4>1. CASE m = q  BY <2>2, <3>2, <3>3, <4>1
      <4>2. CASE m # q  BY <2>2, <3>1, <3>3, <4>2 DEF PairsInWindows
      <4>3. QED  BY <4>1, <4>2
    <3>4. QED  BY <3>3 DEF PairsInWindows
  <2>4. NoneClaimed(f)
    <3>1. NoneClaimed(h)  BY DEF CopiedSafely
    <3>2. QED  BY <1>3, <2>2, <3>1 DEF NoneClaimed
  <2>5. ASSUME NEW k \in Keys, NextBit(k, g.local_depth) = 1, ~Twice(g, k)
        PROVE  CopiedOnce(g, f, n, k)
    <3>1. CopiedOnce(g, h, n - 1, k)  BY <2>5 DEF CopiedSafely
    <3>2. h.key[q] = INVALID  BY <1>5, <2>1
    <3>3. QED  BY <1>1, <1>3, <2>1, <2>2, <2>5, <3>1, <3>2, PairWritten
  <2>6. QED  BY <2>3, <2>4, <2>5 DEF CopiedSafely
<1>6. CASE NextBit(x, g.local_depth) # 1
  <2>1. f = h  BY <1>1, <1>6 DEF CopyStep
  <2>2. QED  BY <1>4, <1>6, <2>1
<1>7. CASE NextBit(x, g.local_depth) = 1
  <2>1. f = Insert4split(h, x, v)  BY <1>1, <1>7 DEF CopyStep
  <2> HIDE DEF f
  <2>2. CASE f = h /\ WindowFull(h, x)  BY <1>4, <2>2 DEF f
  <2>3. CASE \E p \in 0 .. Probe - 1 : /\ h.key[SlotOf(x, p)] = INVALID
                                       /\ f = PutAt(h, SlotOf(x, p), x, v)
    BY <1>5, <2>3 DEF f
  <2>4. (f = h /\ WindowFull(h, x)) \/
        \E p \in 0 .. Probe - 1 : /\ h.key[SlotOf(x, p)] = INVALID
                                  /\ f = PutAt(h, SlotOf(x, p), x, v)
    BY <1>3, <2>1, Insert4splitWrites DEF WindowFull
  <2>5. QED  BY <2>2, <2>3, <2>4 DEF f
<1>8. QED  BY <1>6, <1>7

\* What a lookup finds when all pairs of the key have one value.
LEMMA FindsValue ==
    ASSUME NEW g \in Segments, NEW k \in Keys, NEW v,
           \E i \in 0 .. Probe - 1 : g.key[SlotOf(k, i)] = k,
           \A m \in Slots : g.key[m] = k => g.value[m] = v
    PROVE  Find(g, k) = v
<1> DEFINE at == {i \in 0 .. Probe - 1 : g.key[SlotOf(k, i)] = k}
           first == CHOOSE i \in at : \A j \in at : i <= j
<1>1. at # {} /\ at \subseteq Nat  BY CCEHAssumption
<1>2. \E i \in at : \A j \in at : i <= j
  <2> HIDE DEF at
  <2>1. QED  BY <1>1, Least
<1>3. first \in at
  <2> HIDE DEF at
  <2>1. QED  BY <1>2
<1>4. Find(g, k) = g.value[SlotOf(k, first)]  BY <1>1 DEF Find
<1> HIDE DEF first
<1>5. SlotOf(k, first) \in Slots /\ g.key[SlotOf(k, first)] = k
  BY <1>3, WindowSlots DEF SlotKeys
<1>6. QED  BY <1>4, <1>5

LEMMA SplitCopies ==
    ASSUME NEW g \in Segments, g.local_depth < HashBits,
           PairsInWindows(g), NoneClaimed(g)
    PROVE  /\ PairsInWindows(Copied(g)) /\ NoneClaimed(Copied(g))
           /\ \A k \in Keys :
                 NextBit(k, g.local_depth) = 1 =>
                    \/ Find(Copied(g), k) = Find(g, k)
                    \/ WentRound(g) /\ (WindowFull(Copied(g), k) \/ Twice(g, k))
<1>1. PICK c : c \in CopySteps(g)  BY CopyStepsExist
<1>2. /\ \A n \in 0 .. NumSlots : c[n] \in Segments
      /\ c[0] = NewSegment(g.local_depth + 1, 0)
      /\ \A n \in 1 .. NumSlots : c[n] = CopyStep(g, c[n - 1], n)
      /\ c[NumSlots] = Copied(g)
  BY <1>1 DEF CopySteps
<1>3. NumSlots \in Nat \ {0} /\ INVALID \notin Keys /\ INVALID # SENTINEL
      /\ \A m \in Slots : m \in Nat /\ m < NumSlots
  BY CCEHAssumption DEF Slots
<1>4. CopiedSafely(g, c[0], 0)
  <2>1. \A m \in Slots : c[0].key[m] = INVALID  BY <1>2 DEF NewSegment
  <2>2. PairsInWindows(c[0]) /\ NoneClaimed(c[0])
    BY <1>3, <2>1 DEF PairsInWindows, NoneClaimed
  <2>3. \A m \in Slots : ~(m < 0)  BY <1>3
  <2>4. ASSUME NEW k \in Keys
        PROVE  CopiedOnce(g, c[0], 0, k)
    <3>1. \A m \in Slots : c[0].key[m] # k  BY <1>3, <2>1
    <3>2. QED  BY <2>3, <3>1 DEF CopiedOnce
  <2>5. QED  BY <2>2, <2>4 DEF CopiedSafely
<1>5. CopiedSafely(g, c[NumSlots], NumSlots)
  <2> DEFINE S == {n \in 0 .. NumSlots : CopiedSafely(g, c[n], n)}
  <2>1. 0 \in S  BY <1>3, <1>4
  <2>2. ASSUME NEW n \in 1 .. NumSlots, n - 1 \in S
        PROVE  n \in S
    <3>1. CopiedSafely(g, c[n - 1], n - 1) /\ n - 1 \in 0 .. NumSlots  BY <2>2
    <3>2. c[n - 1] \in Segments  BY <1>2, <3>1
    <3>3. CopiedSafely(g, CopyStep(g, c[n - 1], n), n)
      BY <3>1, <3>2, CopyStepIsSafe
    <3>4. QED  BY <1>2, <3>3
  <2> HIDE DEF S
  <2>3. \A n \in 0 + 1 .. NumSlots : n - 1 \in S => n \in S  BY <2>2
  <2>4. \A n \in 0 .. NumSlots : n \in S
    BY <1>3, <2>1, <2>3, Induction
  <2>5. NumSlots \in S  BY <1>3, <2>4
  <2>6. QED  BY <2>5 DEF S
<1>6. PICK h \in Segments : h = Copied(g)  BY <1>2, <1>3
<1>7. CopiedSafely(g, h, NumSlots)  BY <1>2, <1>5, <1>6
<1>8. ASSUME NEW k \in Keys, NextBit(k, g.local_depth) = 1, ~Twice(g, k), ~WindowFull(h, k)
      PROVE  Find(h, k) = Find(g, k)
  <2>1. CopiedOnce(g, h, NumSlots, k)  BY <1>7, <1>8 DEF CopiedSafely
  <2>2. CASE /\ \A m \in Slots : m < NumSlots => g.key[m] # k
             /\ \A m \in Slots : h.key[m] # k
    <3>1. \A i \in 0 .. Probe - 1 : SlotOf(k, i) \in Slots
      BY WindowSlots DEF SlotKeys
    <3>2. NoneBelow(g, k, NumSlots) /\ NoneBelow(h, k, NumSlots)
      BY <2>2, <3>1 DEF NoneBelow
    <3>3. QED  BY <3>2, Finds
  <2>3. CASE \E m \in Slots :
                /\ m < NumSlots /\ g.key[m] = k
                /\ \E j \in 0 .. Probe - 1 : h.key[SlotOf(k, j)] = k
                /\ \A j \in Slots : h.key[j] = k => h.value[j] = g.value[m]
    <3>1. PICK m \in Slots :
             /\ g.key[m] = k
             /\ \E j \in 0 .. Probe - 1 : h.key[SlotOf(k, j)] = k
             /\ \A j \in Slots : h.key[j] = k => h.value[j] = g.value[m]
      BY <2>3
    <3>2. Find(h, k) = g.value[m]  BY <3>1, FindsValue
    <3>3. \A j \in Slots : g.key[j] = k => g.value[j] = g.value[m]
      BY <1>8, <3>1 DEF Twice
    <3>4. \E i \in 0 .. Probe - 1 : g.key[SlotOf(k, i)] = k
      BY <3>1 DEF PairsInWindows, InWindow
    <3>5. Find(g, k) = g.value[m]  BY <3>3, <3>4, FindsValue
    <3>6. QED  BY <3>2, <3>5
  <2>4. QED  BY <1>8, <2>1, <2>2, <2>3 DEF CopiedOnce
<1>9. ~WentRound(g) => \A k \in Keys : NextBit(k, g.local_depth) = 1 => Find(h, k) = Find(g, k)
  BY <1>6, InOrderCopies
<1>10. QED  BY <1>6, <1>7, <1>8, <1>9 DEF CopiedSafely

-----------------------------------------------------------------------------
(* Where the pairs of a segment are, and who is writing its slots.         *)

Claiming == {"write", "publish"}
Claims(t, s, n) == pc[t] \in Claiming /\ loc[t].target = s /\ Slot(t) = n

PairsInv == \A s \in DOMAIN segment : PairsInWindows(segment[s])
ClaimsInv ==
    \A s \in DOMAIN segment, n \in Slots :
        segment[s].key[n] = SENTINEL => \E t \in Threads : Claims(t, s, n)

\* Three things a step may do to the keys: nothing, set one slot, split.
KeysKept(t) ==
    /\ DOMAIN segment' = DOMAIN segment
    /\ \A s \in DOMAIN segment : segment'[s].key = segment[s].key
    /\ pc[t] \in Claiming => pc'[t] \in Claiming /\ UNCHANGED <<loc[t], call[t]>>

KeySet(t, k) ==
    /\ DOMAIN segment' = DOMAIN segment
    /\ \A s \in DOMAIN segment \ {loc[t].target} : segment'[s].key = segment[s].key
    /\ segment'[loc[t].target].key = [segment[loc[t].target].key EXCEPT ![Slot(t)] = k]
    /\ k = SENTINEL => Claims(t, loc[t].target, Slot(t))'
                       /\ UNCHANGED <<loc[t].target, Slot(t)>>

KeySteps(t) ==
    \/ KeysKept(t)
    \/ pc[t] # "idle" /\ \E k \in {INVALID, SENTINEL, Key(t)} : KeySet(t, k)
    \/ CopyPairs(t)

\* The writes of a segment, as far as its keys are concerned.
LEMMA SetSemaKeys ==
    ASSUME IInv, NEW t \in Threads, NEW m, SetSema(t, m)
    PROVE  /\ DOMAIN segment' = DOMAIN segment
           /\ \A s \in DOMAIN segment : segment'[s].key = segment[s].key
<1>1. segment \in Seq(Segments) /\ loc[t].target \in DOMAIN segment
  BY Facts DEF SegmentsOK
<1>2. QED  BY <1>1 DEF SetSema, Segments

LEMMA SetValueKeys ==
    ASSUME IInv, NEW t \in Threads, NEW v, SetValue(t, v)
    PROVE  /\ DOMAIN segment' = DOMAIN segment
           /\ \A s \in DOMAIN segment : segment'[s].key = segment[s].key
<1>1. segment \in Seq(Segments) /\ loc[t].target \in DOMAIN segment
  BY Facts DEF SegmentsOK
<1>2. QED  BY <1>1 DEF SetValue, Segments

LEMMA SetKeyKeys ==
    ASSUME IInv, NEW t \in Threads, NEW k, SetKey(t, k)
    PROVE  /\ DOMAIN segment' = DOMAIN segment
           /\ \A s \in DOMAIN segment \ {loc[t].target} : segment'[s].key = segment[s].key
           /\ segment'[loc[t].target].key = [segment[loc[t].target].key EXCEPT ![Slot(t)] = k]
<1>1. segment \in Seq(Segments) /\ loc[t].target \in DOMAIN segment
  BY Facts DEF SegmentsOK
<1>2. PICK f : f = [segment[loc[t].target].key EXCEPT ![Slot(t)] = k]  OBVIOUS
<1>3. PICK g : g = [segment[loc[t].target] EXCEPT !.key = f]  OBVIOUS
<1>4. segment' = [segment EXCEPT ![loc[t].target] = g]  BY <1>2, <1>3 DEF SetKey
<1>5. g.key = f  BY <1>1, <1>3 DEF Segments
<1>6. /\ DOMAIN segment' = DOMAIN segment
      /\ \A s \in DOMAIN segment \ {loc[t].target} : segment'[s].key = segment[s].key
      /\ segment'[loc[t].target].key = f
  BY <1>1, <1>4, <1>5
<1>7. QED  BY <1>2, <1>6

LEMMA QuietKeys ==
    ASSUME IInv, NEW t \in Threads,
           \/ Start(t) \/ ReadDepth(t) \/ ReadSegment(t) \/ LoadSema(t) \/ ReadShift(t)
           \/ CheckPattern(t) \/ MatchKey(t) \/ GetKey(t) \/ GetValue(t)
           \/ AcquireDirectory(t) \/ UpdateEntries(t) \/ DoubleDirectory(t)
           \/ ReleaseDirectory(t)
    PROVE  KeysKept(t)
<1>1. UNCHANGED segment
  BY DEF Start, ReadDepth, ReadSegment, LoadSema, ReadShift, CheckPattern, MatchKey, GetKey,
         GetValue, AcquireDirectory, UpdateEntries, DoubleDirectory, ReleaseDirectory
<1>2. pc[t] \notin Claiming
  BY DEF Start, ReadDepth, ReadSegment, LoadSema, ReadShift, CheckPattern, MatchKey, GetKey,
         GetValue, AcquireDirectory, UpdateEntries, DoubleDirectory, ReleaseDirectory,
         NextSlot, Continue, GoTo, Claiming
<1>3. QED  BY <1>1, <1>2 DEF KeysKept

LEMMA SemaKeys ==
    ASSUME IInv, NEW t \in Threads,
           \/ LockShared(t) \/ UnlockShared(t) \/ TrySplit(t) \/ ReopenSegment(t)
           \/ GetLock(t) \/ GetUnlock(t)
    PROVE  KeysKept(t)
<1>1. UNCHANGED segment \/ \E m : SetSema(t, m)
  BY DEF LockShared, UnlockShared, TrySplit, ReopenSegment, GetLock, GetUnlock
<1>2. pc[t] \notin Claiming
  BY DEF LockShared, UnlockShared, TrySplit, ReopenSegment, GetLock, GetUnlock, Return,
         Continue, GoTo, Claiming
<1>3. QED  BY <1>1, <1>2, SetSemaKeys DEF KeysKept

LEMMA ValueKeys ==
    ASSUME IInv, NEW t \in Threads, ClearMoved(t) \/ WriteValue(t) \/ Replace(t)
    PROVE  KeysKept(t)
<1>1. \E v : SetValue(t, v)  BY DEF ClearMoved, WriteValue, Replace
<1>2. CASE WriteValue(t)
  <2>1. pc'[t] = "publish" /\ UNCHANGED <<loc, call>>
    BY <1>2, Facts DEF WriteValue, Continue, GoTo, ThreadsOK
  <2>2. QED  BY <1>1, <2>1, SetValueKeys DEF KeysKept, Claiming
<1>3. CASE ClearMoved(t) \/ Replace(t)
  <2>1. pc[t] \notin Claiming
    BY <1>3 DEF ClearMoved, Replace, Continue, GoTo, Claiming
  <2>2. QED  BY <1>1, <2>1, SetValueKeys DEF KeysKept
<1>4. QED  BY <1>2, <1>3

LEMMA PatternKeys ==
    ASSUME IInv, NEW t \in Threads, SetPatterns(t)
    PROVE  KeysKept(t)
<1>1. PICK p : segment' = [segment EXCEPT ![loc[t].target].pattern = p,
                                          ![loc[t].split].pattern = p + 1]
  BY DEF SetPatterns
<1>2. pc[t] = "pattern"  BY DEF SetPatterns, Continue, GoTo
<1>3. /\ segment \in Seq(Segments) /\ loc[t].target \in DOMAIN segment
      /\ loc[t].split \in DOMAIN segment
  BY <1>2, Facts DEF SegmentsOK, Holding
<1>4. DOMAIN segment' = DOMAIN segment
      /\ \A s \in DOMAIN segment : segment'[s].key = segment[s].key
  <2> DEFINE g == [segment[loc[t].target] EXCEPT !.pattern = p]
             S == [segment EXCEPT ![loc[t].target] = g]
             h == [S[loc[t].split] EXCEPT !.pattern = p + 1]
             T == [S EXCEPT ![loc[t].split] = h]
  <2>1. segment' = T  BY <1>1
  <2>2. g.key = segment[loc[t].target].key  BY <1>3 DEF Segments
  <2> HIDE DEF g
  <2>3. /\ DOMAIN S = DOMAIN segment
        /\ \A s \in DOMAIN segment : S[s].key = segment[s].key
    BY <1>3, <2>2
  <2>4. h.key = S[loc[t].split].key
    <3> HIDE DEF S
    <3>1. QED  OBVIOUS
  <2> HIDE DEF h, S
  <2>5. QED  BY <1>3, <2>1, <2>3, <2>4
<1>5. QED  BY <1>2, <1>4 DEF KeysKept, Claiming

LEMMA SlotKeysSet ==
    ASSUME IInv, NEW t \in Threads,
           InvalidateMoved(t) \/ ClaimSlot(t) \/ PublishKey(t) \/ EraseKey(t)
    PROVE  KeySteps(t)
<1>1. INVALID # SENTINEL /\ (pc[t] # "idle" => Key(t) \in Keys /\ Key(t) # SENTINEL)
  BY Facts, CCEHAssumption
<1>2. CASE InvalidateMoved(t)
  <2>1. pc[t] = "invalidate"  BY <1>2 DEF InvalidateMoved, Continue, GoTo
  <2>2. CASE SetKey(t, INVALID)
    <3>1. KeySet(t, INVALID)  BY <1>1, <2>2, SetKeyKeys DEF KeySet
    <3>2. QED  BY <2>1, <3>1 DEF KeySteps
  <2>3. CASE UNCHANGED segment
    BY <2>1, <2>3 DEF KeySteps, KeysKept, Claiming
  <2>4. QED  BY <1>2, <2>2, <2>3 DEF InvalidateMoved
<1>3. CASE ClaimSlot(t)
  <2>1. pc[t] = "claim"  BY <1>3 DEF ClaimSlot, Continue, GoTo
  <2>2. CASE SetKey(t, SENTINEL) /\ Continue(t, "claim", "write")
             /\ loc' = [loc EXCEPT ![t].old = Target(t).value[Slot(t)]]
    <3>1. loc'[t].target = loc[t].target /\ loc'[t].i = loc[t].i
          /\ pc'[t] = "write" /\ call'[t] = call[t]
      BY <2>2, Facts DEF Continue, GoTo, ThreadsOK, Locals
    <3>2. Slot(t)' = Slot(t)  BY <3>1 DEF Slot, Key, SlotOf
    <3>3. KeySet(t, SENTINEL)
      BY <2>2, <3>1, <3>2, SetKeyKeys DEF KeySet, Claims, Claiming
    <3>4. QED  BY <2>1, <3>3 DEF KeySteps
  <2>3. CASE UNCHANGED segment
    BY <2>1, <2>3 DEF KeySteps, KeysKept, Claiming
  <2>4. QED  BY <1>3, <2>2, <2>3 DEF ClaimSlot
<1>4. CASE PublishKey(t)
  <2>1. pc[t] = "publish"  BY <1>4 DEF PublishKey, Continue, GoTo
  <2>2. PICK k \in {INVALID, Key(t)} : SetKey(t, k)
    BY <1>4 DEF PublishKey
  <2>3. KeySet(t, k)  BY <1>1, <2>1, <2>2, SetKeyKeys DEF KeySet
  <2>4. QED  BY <2>1, <2>3 DEF KeySteps
<1>5. CASE EraseKey(t)
  <2>1. pc[t] = "erase"  BY <1>5 DEF EraseKey, Continue, GoTo
  <2>2. CASE SetKey(t, INVALID)
    <3>1. KeySet(t, INVALID)  BY <1>1, <2>2, SetKeyKeys DEF KeySet
    <3>2. QED  BY <2>1, <3>1 DEF KeySteps
  <2>3. CASE SetKey(t, Target(t).key[Slot(t)])
    <3>1. segment[loc[t].target].key \in [Slots -> SlotKeys]
      BY Facts, FieldsOK DEF Target
    <3>2. segment'[loc[t].target].key = segment[loc[t].target].key
      BY <2>3, <3>1, SetKeyKeys DEF Target
    <3>3. DOMAIN segment' = DOMAIN segment
          /\ \A s \in DOMAIN segment : segment'[s].key = segment[s].key
      BY <2>3, <3>2, SetKeyKeys
    <3>4. QED  BY <2>1, <3>3 DEF KeySteps, KeysKept, Claiming
  <2>4. QED  BY <1>5, <2>2, <2>3 DEF EraseKey
<1>6. QED  BY <1>2, <1>3, <1>4, <1>5

LEMMA KeyStepKinds ==
    ASSUME IInv, NEW t \in Threads, Start(t) \/ Step(t)
    PROVE  KeySteps(t)
<1>1. CASE Start(t) \/ ReadDepth(t) \/ ReadSegment(t)
  BY <1>1, QuietKeys DEF KeySteps
<1>2. CASE Insert(t)
  BY <1>2, QuietKeys, SemaKeys, ValueKeys, SlotKeysSet DEF KeySteps, Insert
<1>3. CASE Split(t)
  BY <1>3, QuietKeys, SemaKeys, PatternKeys DEF KeySteps, Split
<1>4. CASE Get(t)
  BY <1>4, QuietKeys, SemaKeys DEF KeySteps, Get
<1>5. QED  BY <1>1, <1>2, <1>3, <1>4 DEF Step

\* No step touches another thread.
LEMMA OthersStay ==
    ASSUME IInv, NEW t \in Threads, Start(t) \/ Step(t)
    PROVE  OnlyMoves(t)
<1>1. pc \in [Threads -> Labels] /\ loc \in [Threads -> Locals]
      /\ call \in [Threads -> Calls \cup {NoCall}]
  BY Facts, SMTT(30) DEF ThreadsOK
<1> DEFINE MovesPc == \E x : pc' = [pc EXCEPT ![t] = x]
           MovesCall == UNCHANGED call \/ \E x : call' = [call EXCEPT ![t] = x]
           MovesLoc == UNCHANGED loc \/ \E x : loc' = [loc EXCEPT ![t] = x]
<1>2. CASE Start(t) \/ ReadDepth(t) \/ ReadSegment(t)
  <2>1. MovesPc
    BY <1>2 DEF Start, ReadDepth, ReadSegment, GoTo, Continue, Return
  <2>2. MovesCall
    BY <1>2 DEF Start, ReadDepth, ReadSegment, GoTo, Continue, Return
  <2>3. MovesLoc
    BY <1>2 DEF Start, ReadDepth, ReadSegment, GoTo, Continue, Return
  <2>4. QED  BY <1>1, <2>1, <2>2, <2>3 DEF OnlyMoves
<1>3. CASE LoadSema(t) \/ ReadShift(t) \/ CheckPattern(t) \/ LockShared(t) \/
            InvalidateMoved(t) \/ ClearMoved(t)
  <2>1. MovesPc
    BY <1>3 DEF LoadSema, ReadShift, CheckPattern, LockShared, InvalidateMoved, ClearMoved,
             NextSlot, GoTo, Continue, Return
  <2>2. MovesCall
    BY <1>3 DEF LoadSema, ReadShift, CheckPattern, LockShared, InvalidateMoved, ClearMoved,
             NextSlot, GoTo, Continue, Return
  <2>3. MovesLoc
    BY <1>3 DEF LoadSema, ReadShift, CheckPattern, LockShared, InvalidateMoved, ClearMoved,
             NextSlot, GoTo, Continue, Return
  <2>4. QED  BY <1>1, <2>1, <2>2, <2>3 DEF OnlyMoves
<1>4. CASE ClaimSlot(t) \/ WriteValue(t) \/ PublishKey(t) \/ MatchKey(t) \/ Replace(t) \/
            EraseKey(t) \/ UnlockShared(t)
  <2>1. MovesPc
    BY <1>4 DEF ClaimSlot, WriteValue, PublishKey, MatchKey, Replace, EraseKey, UnlockShared,
             NextSlot, GoTo, Continue, Return
  <2>2. MovesCall
    BY <1>4 DEF ClaimSlot, WriteValue, PublishKey, MatchKey, Replace, EraseKey, UnlockShared,
             NextSlot, GoTo, Continue, Return
  <2>3. MovesLoc
    BY <1>4 DEF ClaimSlot, WriteValue, PublishKey, MatchKey, Replace, EraseKey, UnlockShared,
             NextSlot, GoTo, Continue, Return
  <2>4. QED  BY <1>1, <2>1, <2>2, <2>3 DEF OnlyMoves
<1>5. CASE Split(t)
  <2>1. MovesPc
    BY <1>5 DEF Split, TrySplit, CopyPairs, SetPatterns, AcquireDirectory, UpdateEntries,
             DoubleDirectory, ReleaseDirectory, ReopenSegment, GoTo, Continue, Return
  <2>2. MovesCall
    BY <1>5 DEF Split, TrySplit, CopyPairs, SetPatterns, AcquireDirectory, UpdateEntries,
             DoubleDirectory, ReleaseDirectory, ReopenSegment, GoTo, Continue, Return
  <2>3. MovesLoc
    BY <1>5 DEF Split, TrySplit, CopyPairs, SetPatterns, AcquireDirectory, UpdateEntries,
             DoubleDirectory, ReleaseDirectory, ReopenSegment, GoTo, Continue, Return
  <2>4. QED  BY <1>1, <2>1, <2>2, <2>3 DEF OnlyMoves
<1>6. CASE Get(t)
  <2>1. MovesPc
    BY <1>6 DEF Get, GetLock, GetKey, GetValue, GetUnlock, NextSlot, GoTo, Continue, Return
  <2>2. MovesCall
    BY <1>6 DEF Get, GetLock, GetKey, GetValue, GetUnlock, NextSlot, GoTo, Continue, Return
  <2>3. MovesLoc
    BY <1>6 DEF Get, GetLock, GetKey, GetValue, GetUnlock, NextSlot, GoTo, Continue, Return
  <2>4. QED  BY <1>1, <2>1, <2>2, <2>3 DEF OnlyMoves
<1>7. QED  BY <1>2, <1>3, <1>4, <1>5, <1>6 DEF Step, Insert

\* A split is alone in its segment, where no slot is being written then.
LEMMA SplitSeesNoClaim ==
    ASSUME IInv, ClaimsInv, NEW t \in Threads, pc[t] = "copy"
    PROVE  NoneClaimed(segment[loc[t].target])
<1> DEFINE s == loc[t].target
<1>1. s \in DOMAIN segment /\ SemaCounts  BY Facts
<1>2. t \in Splitting(s)  BY DEF Splitting, SplitSteps
<1>3. Inside(s) = {}  BY <1>1, <1>2, InsideOK DEF SemaCounts
<1>4. \A u \in Threads, n \in Slots : ~Claims(u, s, n)
  BY <1>3 DEF Inside, Claims, Claiming, SharedSteps
<1>5. QED  BY <1>1, <1>4 DEF ClaimsInv, NoneClaimed

LEMMA CopyPairsSegments ==
    ASSUME IInv, NEW t \in Threads, CopyPairs(t)
    PROVE  /\ DOMAIN segment' = 1 .. Len(segment) + 1 /\ DOMAIN segment = 1 .. Len(segment)
           /\ segment'[Len(segment) + 1] = Copied(Target(t))
           /\ \A r \in DOMAIN segment : segment'[r].key = segment[r].key
<1>1. segment \in Seq(Segments) /\ loc[t].target \in DOMAIN segment
  BY Facts DEF SegmentsOK
<1> DEFINE S == [segment EXCEPT ![loc[t].target].local_depth = @ + 1]
           h == Copied(Target(t))
<1>2. segment' = Append(S, h)  BY DEF CopyPairs
<1>3. /\ Len(S) = Len(segment) /\ DOMAIN S = DOMAIN segment
      /\ \A r \in DOMAIN segment : S[r].key = segment[r].key
  BY <1>1 DEF Segments
<1>4. S \in Seq({S[r] : r \in DOMAIN S})
  <2>1. S = [r \in 1 .. Len(segment) |-> S[r]]
    BY <1>1
  <2> HIDE DEF S
  <2>2. QED  BY <1>1, <1>3, <2>1
<1> HIDE DEF S, h
<1>5. QED  BY <1>1, <1>2, <1>3, <1>4 DEF h

LEMMA StepKeepsPairs ==
    ASSUME IInv, PairsInv, ClaimsInv, NEW t \in Threads, Start(t) \/ Step(t)
    PROVE  PairsInv' /\ ClaimsInv'
<1>1. OnlyMoves(t)  BY OthersStay
<1>2. \A u \in Threads \ {t} : \A s, n : Claims(u, s, n) => Claims(u, s, n)'
  BY <1>1 DEF OnlyMoves, Claims, Slot, Key, SlotOf
<1>3. loc[t].target \in DOMAIN segment
      /\ \A s \in DOMAIN segment : segment[s].key \in [Slots -> SlotKeys]
  BY Facts, FieldsOK
<1>4. CASE KeysKept(t)
  <2>1. DOMAIN segment' = DOMAIN segment
        /\ \A s \in DOMAIN segment : segment'[s].key = segment[s].key
    BY <1>4 DEF KeysKept
  <2>2. \A s, n : Claims(t, s, n) => Claims(t, s, n)'
    BY <1>4 DEF KeysKept, Claims, Slot, Key, SlotOf
  <2>3. PairsInv'  BY <2>1 DEF PairsInv, PairsInWindows, InWindow
  <2>4. ClaimsInv'  BY <1>2, <2>1, <2>2 DEF ClaimsInv
  <2>5. QED  BY <2>3, <2>4
<1>5. CASE pc[t] # "idle" /\ \E k \in {INVALID, SENTINEL, Key(t)} : KeySet(t, k)
  <2>1. PICK k \in {INVALID, SENTINEL, Key(t)} : KeySet(t, k)  BY <1>5
  <2>2. PICK m : m = Slot(t)  OBVIOUS
  <2>3. PICK r : r = loc[t].target  OBVIOUS
  <2>4. /\ m \in Slots /\ Key(t) \in Keys /\ loc[t].i \in 0 .. Probe - 1
        /\ r \in DOMAIN segment
    BY <1>3, <1>5, <2>2, <2>3, Facts DEF Locals
  <2>5. InWindow(Key(t), m)  BY <2>2, <2>4 DEF InWindow, Slot
  <2>6. /\ DOMAIN segment' = DOMAIN segment
        /\ \A s \in DOMAIN segment \ {r} : segment'[s].key = segment[s].key
        /\ segment'[r].key = [segment[r].key EXCEPT ![m] = k]
        /\ k = SENTINEL => Claims(t, r, m)'
    <3>1. k = SENTINEL => Claims(t, loc[t].target, Slot(t))'
                          /\ UNCHANGED <<loc[t].target, Slot(t)>>
      BY <2>1 DEF KeySet
    <3>2. k = SENTINEL => Claims(t, r, m)'
      BY <3>1, <2>2, <2>3 DEF Claims
    <3>3. QED  BY <2>1, <2>2, <2>3, <3>2 DEF KeySet
  <2>7. segment'[r].key[m] = k /\ \A n \in Slots \ {m} : segment'[r].key[n] = segment[r].key[n]
    BY <1>3, <2>4, <2>6
  <2>8. PairsInv'
    <3>1. PairsInWindows(segment[r])  BY <2>4 DEF PairsInv
    <3>2. \A n \in Slots, x \in Keys : segment'[r].key[n] = x => InWindow(x, n)
      <4>1. INVALID \notin Keys /\ SENTINEL \notin Keys  BY CCEHAssumption
      <4>2. QED  BY <2>1, <2>5, <2>7, <3>1, <4>1 DEF PairsInWindows
    <3>3. \A s \in DOMAIN segment \ {r} : PairsInWindows(segment'[s])
      BY <2>6 DEF PairsInv, PairsInWindows
    <3>4. PairsInWindows(segment'[r])  BY <3>2 DEF PairsInWindows
    <3>5. QED  BY <2>6, <3>3, <3>4 DEF PairsInv
  <2>9. ClaimsInv'
    <3>1. SUFFICES ASSUME NEW s \in DOMAIN segment, NEW n \in Slots,
                          segment'[s].key[n] = SENTINEL
                   PROVE  \E u \in Threads : Claims(u, s, n)'
      BY <2>6 DEF ClaimsInv
    <3>2. CASE s = r /\ n = m
      <4>1. Claims(t, r, m)'  BY <2>6, <2>7, <3>1, <3>2
      <4>2. QED  BY <3>2, <4>1
    <3>3. CASE ~(s = r /\ n = m)
      <4>1. segment[s].key[n] = SENTINEL  BY <2>6, <2>7, <3>1, <3>3
      <4>2. PICK u \in Threads : Claims(u, s, n)  BY <4>1 DEF ClaimsInv
      <4>3. u # t  BY <2>2, <2>3, <3>3, <4>2 DEF Claims
      <4>4. QED  BY <1>2, <4>2, <4>3
    <3>4. QED  BY <3>2, <3>3
  <2>10. QED  BY <2>8, <2>9
<1>6. CASE CopyPairs(t)
  <2> DEFINE s == loc[t].target
             g == Target(t)
  <2>1. pc[t] = "copy" /\ g.local_depth < HashBits /\ g = segment[s]
    BY <1>6 DEF CopyPairs, Continue, GoTo, Target
  <2>2. g \in Segments /\ segment \in Seq(Segments) /\ s \in DOMAIN segment
    BY Facts DEF SegmentsOK
  <2>3. NoneClaimed(g)  BY <2>1, <2>2, SplitSeesNoClaim
  <2>4. PairsInWindows(g)  BY <2>1, <2>2 DEF PairsInv
  <2>5. PairsInWindows(Copied(g)) /\ NoneClaimed(Copied(g))
    BY <2>1, <2>2, <2>3, <2>4, SplitCopies
  <2>6. /\ DOMAIN segment' = 1 .. Len(segment) + 1 /\ DOMAIN segment = 1 .. Len(segment)
        /\ segment'[Len(segment) + 1] = Copied(g)
        /\ \A r \in DOMAIN segment : segment'[r].key = segment[r].key
    BY <1>6, CopyPairsSegments
  <2>7. DOMAIN segment' = DOMAIN segment \cup {Len(segment) + 1}
    BY <2>2, <2>6
  <2>8. pc[t] \notin Claiming  BY <2>1 DEF Claiming
  <2> HIDE DEF g, s
  <2>9. PairsInv'
    <3>1. \A r \in DOMAIN segment : PairsInWindows(segment'[r])
      BY <2>6 DEF PairsInv, PairsInWindows
    <3>2. QED  BY <2>5, <2>6, <2>7, <3>1 DEF PairsInv
  <2>10. ClaimsInv'
    <3>1. SUFFICES ASSUME NEW r \in DOMAIN segment', NEW n \in Slots,
                          segment'[r].key[n] = SENTINEL
                   PROVE  \E u \in Threads : Claims(u, r, n)'
      BY DEF ClaimsInv
    <3>2. r \in DOMAIN segment  BY <2>5, <2>6, <2>7, <3>1 DEF NoneClaimed
    <3>3. PICK u \in Threads : Claims(u, r, n)  BY <2>6, <3>1, <3>2 DEF ClaimsInv
    <3>4. u # t  BY <2>8, <3>3 DEF Claims
    <3>5. QED  BY <1>2, <3>3, <3>4
  <2>11. QED  BY <2>9, <2>10
<1>7. QED  BY <1>4, <1>5, <1>6, KeyStepKinds DEF KeySteps

LEMMA PairsInitially == Init => PairsInv /\ ClaimsInv
<1> SUFFICES ASSUME Init
             PROVE  PairsInv /\ ClaimsInv
  OBVIOUS
<1>1. \A s \in DOMAIN segment, n \in Slots : segment[s].key[n] = INVALID
  BY DEF Init, NewSegment
<1>2. INVALID # SENTINEL /\ INVALID \notin Keys  BY CCEHAssumption
<1>3. QED  BY <1>1, <1>2 DEF PairsInv, ClaimsInv, PairsInWindows

(* What the split of a segment does to the pairs of the new one's keys.    *)
SplitStep ==
    \A t \in Threads :
        pc[t] = "copy" /\ pc'[t] # "copy" =>
            \A k \in Keys :
                Prefix(k, Target(t).local_depth + 1) = 2 * Target(t).pattern + 1
                => LET old == Target(t)
                       new == segment'[loc'[t].split]
                   IN  \/ Find(new, k) = Find(old, k)
                       \/ WentRound(old) /\ (WindowFull(new, k) \/ Twice(old, k))

LEMMA SplitStepHolds ==
    ASSUME IInv, PairsInv, ClaimsInv, [Next]_vars
    PROVE  SplitStep
<1> SUFFICES ASSUME NEW t \in Threads, pc[t] = "copy", pc'[t] # "copy", NEW k \in Keys,
                    Prefix(k, Target(t).local_depth + 1) = 2 * Target(t).pattern + 1
             PROVE  \/ Find(segment'[loc'[t].split], k) = Find(Target(t), k)
                    \/ /\ WentRound(Target(t))
                       /\ WindowFull(segment'[loc'[t].split], k) \/ Twice(Target(t), k)
  BY DEF SplitStep
<1>1. PICK u \in Threads : Start(u) \/ Step(u)
  BY DEF Next, Finished, vars
<1>2. u = t  BY <1>1, OthersStay, SMTT(30) DEF OnlyMoves
<1>3. CopyPairs(t)
  BY <1>1, <1>2
     DEF Step, Insert, Split, Get, Start, ReadDepth, ReadSegment, LoadSema, ReadShift,
         CheckPattern, LockShared, InvalidateMoved, ClearMoved, ClaimSlot, WriteValue, PublishKey,
         MatchKey, Replace, EraseKey, UnlockShared, TrySplit, SetPatterns,
         AcquireDirectory, UpdateEntries, DoubleDirectory, ReleaseDirectory, ReopenSegment,
         GetLock, GetKey, GetValue, GetUnlock, NextSlot, Return, Continue, GoTo
<1> DEFINE g == Target(t)
<1>4. g \in Segments /\ g.local_depth < HashBits /\ loc[t].target \in DOMAIN segment
      /\ g = segment[loc[t].target]
  BY <1>3, Facts DEF CopyPairs, Target
<1>5. NoneClaimed(g) /\ PairsInWindows(g)
  BY <1>4, SplitSeesNoClaim DEF PairsInv
<1>6. NextBit(k, g.local_depth) = 1
  <2>1. g.pattern \in Nat  BY <1>4, FieldsOK, CCEHAssumption, PowerType
  <2>2. \A p \in Nat : (2 * p + 1) % 2 = 1  OBVIOUS
  <2>3. QED  BY <2>1, <2>2 DEF NextBit
<1>7. segment'[loc'[t].split] = Copied(g)
  <2>1. loc[t] \in Locals /\ loc \in [Threads -> Locals]  BY Facts DEF ThreadsOK
  <2>2. loc'[t].split = Len(segment) + 1
    BY <1>3, <2>1 DEF CopyPairs, Locals
  <2>3. QED  BY <1>3, <2>2, CopyPairsSegments
<1>8. QED  BY <1>4, <1>5, <1>6, <1>7, SplitCopies

(* A split moves every pair that belongs to the new segment, and a lookup  *)
(* finds there what it found in the old one; only when a pair went round   *)
(* the end of the old one (Insert4split, its window of slots modulo        *)
(* kNumSlot) can a pair be dropped, for which it finds no open slot, or    *)
(* the older of two be found.                                              *)
THEOREM SplitsKeepPairs == Spec => SplitKeepsPairs
<1>1. Init => IInv /\ PairsInv /\ ClaimsInv  BY InitOK, PairsInitially
<1>2. IInv /\ PairsInv /\ ClaimsInv /\ [Next]_vars => (IInv /\ PairsInv /\ ClaimsInv)'
  <2> SUFFICES ASSUME IInv, PairsInv, ClaimsInv, [Next]_vars
               PROVE  (IInv /\ PairsInv /\ ClaimsInv)'
    OBVIOUS
  <2>1. IInv'  BY NextOK
  <2>2. CASE UNCHANGED vars
    BY <2>1, <2>2 DEF vars, PairsInv, ClaimsInv, Claims, Slot, Key
  <2>3. CASE \E t \in Threads : Start(t) \/ Step(t)
    BY <2>1, <2>3, StepKeepsPairs
  <2>4. QED  BY <2>2, <2>3 DEF Next, Finished
<1>3. IInv /\ PairsInv /\ ClaimsInv /\ [Next]_vars => [SplitStep]_vars
  BY SplitStepHolds
<1>4. QED  BY <1>1, <1>2, <1>3, PTL DEF Spec, SplitKeepsPairs, SplitStep

-----------------------------------------------------------------------------
(* The directory, while one thread inserts and any number of threads look  *)
(* up: no other thread then splits a segment or doubles the directory      *)
(* between two of its steps.                                               *)

\* The steps of a lookup; those of an insert that has found its segment, and
\* those between the copy of a segment and the change of the directory.
GetSteps == {"idle", "depth", "segment", "g_lock", "g_key", "g_value", "g_unlock"}
Halfway == {"pattern", "acquire", "update"}
Located == {"load", "shift", "check", "lock", "invalidate", "clear", "claim", "match", "write",
            "publish", "replace", "erase", "unlock", "split", "copy"} \cup Halfway

\* The segment n is the one for directory index x.
Covers(n, x) ==
    /\ segment[n].local_depth <= dir.depth
    /\ segment[n].pattern = x \div 2 ^ (dir.depth - segment[n].local_depth)

OthersGet(w) ==
    \A t \in Threads \ {w} : pc[t] \in GetSteps /\ (pc[t] # "idle" => call[t].name = "get")

EntriesInv(w) ==
    \A x \in DOMAIN dir.entry :
        Covers(dir.entry[x], x) \/ (pc[w] \in Halfway /\ dir.entry[x] = loc[w].target)

FoundInv(w) ==
    /\ pc[w] = "segment" => loc[w].x = Prefix(Key(w), dir.depth)
    /\ pc[w] \in Located => dir.entry[Prefix(Key(w), dir.depth)] = loc[w].target

\* While a segment s has been split into s and r, in a directory that knows
\* s alone: d is the depth that s had.
Halves(k, s, r, d) ==
    /\ d <= dir.depth /\ segment[s].local_depth = d + 1 /\ segment[r].local_depth = d + 1
    /\ \A x \in DOMAIN dir.entry :
          /\ dir.entry[x] # r
          /\ dir.entry[x] = s => x \div 2 ^ (dir.depth - d) = Prefix(k, d)
HalvesSet(k, s, r, d) ==
    /\ segment[s].pattern = 2 * Prefix(k, d)
    /\ segment[r].pattern = 2 * Prefix(k, d) + 1

HalvesInv(w) ==
    LET d == Target(w).local_depth - 1
    IN  /\ pc[w] \in Halfway => Halves(Key(w), loc[w].target, loc[w].split, d)
        /\ pc[w] \in Halfway \ {"pattern"} => HalvesSet(Key(w), loc[w].target, loc[w].split, d)

DirInv(w) == OthersGet(w) /\ EntriesInv(w) /\ FoundInv(w) /\ HalvesInv(w)

-----------------------------------------------------------------------------
\* A number is a multiple of the divisor and a rest below the divisor.
LEMMA Division ==
    ASSUME NEW h \in Nat, NEW c \in Nat \ {0}
    PROVE  h \div c \in Nat /\ h = c * (h \div c) + (h % c) /\ h % c \in 0 .. c - 1
OBVIOUS

\* A quotient is the only number with a rest below the divisor.
LEMMA Quotient ==
    ASSUME NEW c \in Nat \ {0}, NEW p \in Nat, NEW r \in 0 .. c - 1
    PROVE  (p * c + r) \div c = p
<1> DEFINE h == p * c + r
           q == h \div c
<1>1. p * c \in Nat /\ h \in Nat  OBVIOUS
<1>2. q \in Nat /\ h - c * q \in 0 .. c - 1
  <2> HIDE DEF h
  <2>1. QED  BY <1>1
<1>3. c * (p - q) = h - c * q - r
  <2> HIDE DEF q
  <2>1. q \in Nat  BY <1>2
  <2>2. QED  BY <1>1, <2>1, Z3
<1> HIDE DEF h, q
<1>4. c * (p - q) < c /\ c * (p - q) > -c
  BY <1>1, <1>2, <1>3
<1>5. p - q \in Int  BY <1>2
<1>6. p - q >= 1 => c * (p - q) >= c  BY <1>5, Z3
<1>7. p - q <= -1 => c * (p - q) <= -c  BY <1>5, Z3
<1>8. p = q  BY <1>2, <1>4, <1>5, <1>6, <1>7
<1>9. QED  BY <1>8 DEF h, q

LEMMA DivideTwice ==
    ASSUME NEW h \in Nat, NEW a \in Nat \ {0}, NEW b \in Nat \ {0}
    PROVE  (h \div a) \div b = h \div (a * b)
<1> DEFINE q == h \div a
           p == q \div b
           r == h % a
           s == q % b
<1>1. q \in Nat /\ r \in 0 .. a - 1 /\ h = a * q + r  OBVIOUS
<1> HIDE DEF q, r
<1>2. p \in Nat /\ s \in 0 .. b - 1 /\ q = b * p + s  BY <1>1
<1> HIDE DEF p, s
<1>3. a * b \in Nat \ {0}  BY Z3
<1>4. h = p * (a * b) + (a * s + r)
  <2>1. a * (b * p + s) = p * (a * b) + a * s  BY <1>2, Z3
  <2>2. a * s \in Nat /\ p * (a * b) \in Nat  BY <1>2, <1>3
  <2>3. QED  BY <1>1, <1>2, <2>1, <2>2
<1>5. a * s + r \in 0 .. a * b - 1
  <2>1. a * s <= a * (b - 1)  BY <1>2, Z3
  <2>2. a * (b - 1) = a * b - a  BY Z3
  <2>3. a * s \in Nat  BY <1>2
  <2>4. QED  BY <1>1, <1>3, <2>1, <2>2, <2>3
<1>6. h \div (a * b) = p
  <2> DEFINE c == a * b
             e == a * s + r
  <2>1. c \in Nat \ {0} /\ e \in 0 .. c - 1 /\ h = p * c + e  BY <1>3, <1>4, <1>5
  <2> HIDE DEF c, e
  <2>2. h \div c = p  BY <1>2, <2>1, Quotient
  <2>3. QED  BY <2>2 DEF c
<1>7. QED  BY <1>6 DEF p, q

LEMMA DivideByOne == 2 ^ 0 = 1 /\ \A n \in Nat : n \div 1 = n /\ n \div 2 ^ 0 = n
<1>1. 2 ^ 0 = 1  OBVIOUS
<1>2. \A n \in Nat : n \div 1 = n  OBVIOUS
<1>3. QED  BY <1>1, <1>2

\* The leading d bits of a hash's leading n bits are those of the hash.
LEMMA PrefixOfPrefix ==
    ASSUME NEW k \in SlotKeys, NEW n \in 0 .. HashBits, NEW d \in 0 .. n
    PROVE  Prefix(k, n) \div 2 ^ (n - d) = Prefix(k, d)
<1> DEFINE a == 2 ^ (HashBits - n)
           b == 2 ^ (n - d)
           h == Hash[k]
<1>1. /\ HashBits \in Nat /\ HashBits - n \in Nat /\ n - d \in Nat
      /\ HashBits - d = (HashBits - n) + (n - d) /\ 2 ^ HashBits \in Nat
  BY CCEHAssumption, PowerType
<1>2. h \in Nat /\ a \in Nat \ {0} /\ b \in Nat \ {0}
  BY <1>1, CCEHAssumption, PowerType
<1>3. 2 ^ (HashBits - d) = a * b  BY <1>1, PowerSum
<1> HIDE DEF a, b, h
<1>4. (h \div a) \div b = h \div (a * b)  BY <1>2, DivideTwice
<1>5. QED  BY <1>3, <1>4 DEF Prefix, a, b, h

\* The index x of a directory of twice the size leads where x div 2 did.
LEMMA DoubledIndex ==
    ASSUME NEW y \in Nat, NEW d \in Nat, NEW n \in 0 .. d
    PROVE  y \div 2 ^ ((d + 1) - n) = (y \div 2) \div 2 ^ (d - n)
<1> DEFINE a == 2 ^ (d - n)
<1>1. d - n \in Nat /\ (d + 1) - n = (d - n) + 1  OBVIOUS
<1>2. a \in Nat \ {0} /\ 2 ^ ((d + 1) - n) = 2 * a  BY <1>1, PowerType, PowerStep
<1> HIDE DEF a
<1>3. (y \div 2) \div a = y \div (2 * a)  BY <1>2, DivideTwice
<1>4. QED  BY <1>2, <1>3 DEF a

\* The two halves of a chunk.
LEMMA ChunkHalves ==
    ASSUME NEW x \in Nat, NEW y \in Nat, NEW c \in Nat \ {0}
    PROVE  /\ y \in UpperHalf(x, 2 * c) => y \div c = 2 * (x \div (2 * c)) + 1
           /\ y \notin UpperHalf(x, 2 * c) /\ y \div (2 * c) = x \div (2 * c)
                 => y \div c = 2 * (x \div (2 * c))
<1> DEFINE e == 2 * c
           P == x \div e
           first == x - (x % e)
<1>1. e \in Nat \ {0} /\ e = c + c /\ e \div 2 = c  OBVIOUS
<1>2. P \in Nat /\ x = e * P + (x % e) /\ x % e \in 0 .. e - 1
  <2> HIDE DEF e
  <2>1. QED  BY <1>1, Division
<1>3. first = (2 * P) * c /\ first \in Nat
  <2>1. first = e * P
    <3> HIDE DEF e, P
    <3>1. e * P \in Nat  BY <1>1, <1>2
    <3>2. QED  BY <1>2, <3>1
  <2>2. e * P = (2 * P) * c
    <3> HIDE DEF P
    <3>1. QED  BY <1>2, Z3
  <2> HIDE DEF e, P, first
  <2>3. e * P \in Nat  BY <1>1, <1>2
  <2>4. QED  BY <2>1, <2>2, <2>3
<1>4. UpperHalf(x, e) = first + c .. first + e - 1  BY <1>1 DEF UpperHalf
<1> HIDE DEF first, e, P
<1>5. ASSUME y \in UpperHalf(x, e)
      PROVE  y \div c = 2 * P + 1
  <2>1. y - first - c \in 0 .. c - 1  BY <1>1, <1>3, <1>4, <1>5, SMTT(30)
  <2>2. (2 * P + 1) * c = (2 * P) * c + c  BY <1>2, Z3
  <2>3. y = (2 * P + 1) * c + (y - first - c)  BY <1>3, <2>1, <2>2
  <2>4. QED  BY <1>2, <2>1, <2>3, Quotient
<1>6. ASSUME y \notin UpperHalf(x, e), y \div e = P
      PROVE  y \div c = 2 * P
  <2>1. y = e * P + (y % e) /\ y % e \in 0 .. e - 1  BY <1>1, <1>6, Division
  <2>2. e * P = first
    <3>1. e * P \in Nat  BY <1>1, <1>2
    <3>2. x = e * P + (x % e)  BY <1>2
    <3>3. QED  BY <1>1, <1>2, <3>1, <3>2 DEF first
  <2>3. y - first \in 0 .. c - 1
    <3> DEFINE r == y % e
    <3>1. y = first + r /\ r \in 0 .. e - 1  BY <2>1, <2>2
    <3> HIDE DEF r
    <3>2. ~(first + c <= y /\ y <= first + e - 1)  BY <1>1, <1>3, <1>4, <1>6
    <3>3. QED  BY <1>1, <1>3, <3>1, <3>2
  <2>4. y = (2 * P) * c + (y - first)  BY <1>3, <2>3
  <2>5. 2 * P \in Nat  BY <1>2
  <2>6. QED  BY <2>3, <2>4, <2>5, Quotient
<1>7. QED  BY <1>5, <1>6 DEF e, P
-----------------------------------------------------------------------------
(* The steps that change neither the segments' depths and patterns nor the *)
(* directory's entries.                                                    *)

SameShapes ==
    /\ DOMAIN segment' = DOMAIN segment
    /\ \A s \in DOMAIN segment : /\ segment'[s].local_depth = segment[s].local_depth
                                 /\ segment'[s].pattern = segment[s].pattern
SameEntries == dir'.depth = dir.depth /\ dir'.entry = dir.entry

LEMMA SegmentKeepsShape ==
    ASSUME IInv, NEW s \in DOMAIN segment, NEW g, segment' = [segment EXCEPT ![s] = g],
           g.local_depth = segment[s].local_depth, g.pattern = segment[s].pattern
    PROVE  SameShapes
<1>1. segment \in Seq(Segments)  BY DEF IInv, TypeInv, SegmentsOK
<1>2. QED  BY <1>1 DEF SameShapes

LEMMA WritesKeepShapes ==
    ASSUME IInv, NEW t \in Threads,
           \/ \E m : SetSema(t, m)
           \/ \E k : SetKey(t, k)
           \/ \E v : SetValue(t, v)
    PROVE  SameShapes
<1>1. PICK s : s = loc[t].target  OBVIOUS
<1>2. s \in DOMAIN segment /\ segment[s] \in Segments  BY <1>1, Facts
<1>3. CASE \E m : SetSema(t, m)
  <2>1. PICK m : SetSema(t, m)  BY <1>3
  <2> DEFINE g == [segment[s] EXCEPT !.sema = m]
  <2>2. segment' = [segment EXCEPT ![s] = g]  BY <1>1, <2>1 DEF SetSema
  <2>3. g.local_depth = segment[s].local_depth /\ g.pattern = segment[s].pattern
    BY <1>2 DEF Segments
  <2> HIDE DEF g
  <2>4. QED  BY <1>2, <2>2, <2>3, SegmentKeepsShape
<1>4. CASE \E k : SetKey(t, k)
  <2>1. PICK k : SetKey(t, k)  BY <1>4
  <2> DEFINE g == [segment[s] EXCEPT !.key[Slot(t)] = k]
  <2>2. segment' = [segment EXCEPT ![s] = g]  BY <1>1, <2>1 DEF SetKey
  <2>3. g.local_depth = segment[s].local_depth /\ g.pattern = segment[s].pattern
    BY <1>2 DEF Segments
  <2> HIDE DEF g
  <2>4. QED  BY <1>2, <2>2, <2>3, SegmentKeepsShape
<1>5. CASE \E v : SetValue(t, v)
  <2>1. PICK v : SetValue(t, v)  BY <1>5
  <2> DEFINE g == [segment[s] EXCEPT !.value[Slot(t)] = v]
  <2>2. segment' = [segment EXCEPT ![s] = g]  BY <1>1, <2>1 DEF SetValue
  <2>3. g.local_depth = segment[s].local_depth /\ g.pattern = segment[s].pattern
    BY <1>2 DEF Segments
  <2> HIDE DEF g
  <2>4. QED  BY <1>2, <2>2, <2>3, SegmentKeepsShape
<1>6. QED  BY <1>3, <1>4, <1>5

LEMMA QuietShapes ==
    ASSUME IInv, NEW t \in Threads,
           \/ Start(t) \/ ReadDepth(t) \/ ReadSegment(t) \/ Insert(t) \/ Get(t) \/ TrySplit(t)
           \/ AcquireDirectory(t) \/ ReleaseDirectory(t) \/ ReopenSegment(t)
    PROVE  SameShapes /\ SameEntries
<1>1. CASE Start(t) \/ ReadDepth(t) \/ ReadSegment(t) \/ AcquireDirectory(t) \/ ReleaseDirectory(t)
  <2>1. UNCHANGED segment
    BY <1>1 DEF Start, ReadDepth, ReadSegment, AcquireDirectory, ReleaseDirectory
  <2>2. dir' = dir \/ \E b : dir' = [dir EXCEPT !.lock = b]
    BY <1>1 DEF Start, ReadDepth, ReadSegment, AcquireDirectory, ReleaseDirectory
  <2>3. DOMAIN dir = {"depth", "lock", "entry"}  BY Facts DEF DirectoryOK
  <2>4. QED  BY <2>1, <2>2, <2>3 DEF SameShapes, SameEntries
<1>2. CASE Insert(t) \/ Get(t) \/ TrySplit(t) \/ ReopenSegment(t)
  <2>1. UNCHANGED dir
    BY <1>2 DEF Insert, Get, LoadSema, ReadShift, CheckPattern, LockShared, InvalidateMoved,
             ClearMoved, ClaimSlot, WriteValue, PublishKey, MatchKey, Replace, EraseKey,
             UnlockShared, TrySplit, ReopenSegment, GetLock, GetKey, GetValue, GetUnlock
  <2>2. UNCHANGED segment \/ (\E m : SetSema(t, m)) \/ (\E k : SetKey(t, k))
        \/ \E v : SetValue(t, v)
    BY <1>2 DEF Insert, Get, LoadSema, ReadShift, CheckPattern, LockShared, InvalidateMoved,
             ClearMoved, ClaimSlot, WriteValue, PublishKey, MatchKey, Replace, EraseKey,
             UnlockShared, TrySplit, ReopenSegment, GetLock, GetKey, GetValue, GetUnlock
  <2>3. UNCHANGED segment => SameShapes  BY DEF SameShapes
  <2>4. QED  BY <2>1, <2>2, <2>3, WritesKeepShapes DEF SameEntries
<1>3. QED  BY <1>1, <1>2

\* What they leave of the invariant's parts.
LEMMA EntriesKept ==
    ASSUME IInv, NEW w \in Threads, EntriesInv(w), HalvesInv(w), SameShapes, SameEntries,
           pc[w] \in Halfway <=> pc'[w] \in Halfway,
           pc'[w] \in Halfway \ {"pattern"} => pc[w] \in Halfway \ {"pattern"},
           pc'[w] \in Halfway => UNCHANGED <<loc[w].target, loc[w].split, call[w]>>
    PROVE  EntriesInv(w)' /\ HalvesInv(w)'
<1>1. DirectoryOK /\ Holding(w)  BY Facts
<1>2. EntriesInv(w)'
  <2>1. ASSUME NEW x \in DOMAIN dir.entry, Covers(dir.entry[x], x)
        PROVE  Covers(dir.entry[x], x)'
    <3>1. dir.entry[x] \in DOMAIN segment  BY <1>1 DEF DirectoryOK
    <3>2. QED  BY <2>1, <3>1 DEF Covers, SameShapes, SameEntries
  <2>2. QED  BY <2>1 DEF EntriesInv, SameEntries, Covers
<1>3. HalvesInv(w)'
  <2>1. CASE pc'[w] \in Halfway
    <3>1. /\ loc[w].target \in DOMAIN segment /\ loc[w].split \in DOMAIN segment
          /\ pc[w] \in Halfway /\ Key(w)' = Key(w)
          /\ loc'[w].target = loc[w].target /\ loc'[w].split = loc[w].split
      BY <1>1, <2>1 DEF Holding, Halfway, Key
    <3>2. Target(w)'.local_depth = Target(w).local_depth
      BY <3>1 DEF Target, SameShapes
    <3>3. Halves(Key(w), loc[w].target, loc[w].split, Target(w).local_depth - 1)'
      BY <3>1, <3>2 DEF HalvesInv, Halves, SameShapes, SameEntries, Prefix
    <3>4. pc'[w] # "pattern" =>
             HalvesSet(Key(w), loc[w].target, loc[w].split, Target(w).local_depth - 1)'
      BY <2>1, <3>1, <3>2 DEF HalvesInv, HalvesSet, SameShapes, Prefix
    <3>5. QED  BY <3>3, <3>4 DEF HalvesInv
  <2>2. CASE pc'[w] \notin Halfway  BY <2>2 DEF HalvesInv
  <2>3. QED  BY <2>1, <2>2
<1>4. QED  BY <1>2, <1>3

LEMMA FoundKept ==
    ASSUME NEW w \in Threads, FoundInv(w), SameEntries,
           pc'[w] \in Located => pc[w] \in Located /\ UNCHANGED <<loc[w].target, call[w]>>,
           pc'[w] = "segment" => pc[w] = "segment" /\ UNCHANGED <<loc[w].x, call[w]>>
    PROVE  FoundInv(w)'
BY DEF FoundInv, SameEntries, Key, Prefix

-----------------------------------------------------------------------------
(* The steps of the threads that look up.                                  *)

LEMMA OthersQuiet ==
    ASSUME IInv, NEW w \in Threads, OthersOnlyGot(w)', OthersGet(w),
           NEW t \in Threads \ {w}, Start(t) \/ Step(t)
    PROVE  /\ OthersGet(w)' /\ OnlyMoves(t)
           /\ Start(t) \/ ReadDepth(t) \/ ReadSegment(t) \/ Get(t)
<1>1. OnlyMoves(t)  BY OthersStay
<1>2. pc[t] \in GetSteps /\ (pc[t] # "idle" => call[t].name = "get")  BY DEF OthersGet
<1>3. Start(t) \/ ReadDepth(t) \/ ReadSegment(t) \/ Get(t)
  <2>1. ~Insert(t)
    BY <1>2 DEF GetSteps, Insert, LoadSema, ReadShift, CheckPattern, LockShared, InvalidateMoved,
             ClearMoved, ClaimSlot, WriteValue, PublishKey, MatchKey, Replace, EraseKey,
             UnlockShared, NextSlot, Return, Continue, GoTo
  <2>2. ~Split(t)
    BY <1>2 DEF GetSteps, Split, TrySplit, CopyPairs, SetPatterns, AcquireDirectory,
             UpdateEntries, DoubleDirectory, ReleaseDirectory, ReopenSegment, Continue, GoTo
  <2>3. QED  BY <2>1, <2>2 DEF Step
<1>4. pc \in [Threads -> Labels] /\ call \in [Threads -> Calls \cup {NoCall}]
      /\ done \in [Threads -> Nat]
  BY Facts DEF ThreadsOK
<1>5. pc'[t] \in GetSteps /\ (pc'[t] # "idle" => call'[t].name = "get")
  <2>1. CASE Start(t)
    <3>1. PICK x \in Program[t][done[t] + 1] : call' = [call EXCEPT ![t] = x]
      BY <2>1 DEF Start
    <3>2. pc'[t] = "depth" /\ call'[t] = x /\ done'[t] = done[t]
      BY <1>4, <2>1, <3>1 DEF Start, GoTo
    <3>3. done[t] + 1 \in 1 .. Begun(t)'  BY <1>4, <3>2 DEF Begun
    <3>4. x.name = "get"  BY <3>1, <3>3 DEF OthersOnlyGot, OnlyGotSoFar
    <3>5. QED  BY <3>2, <3>4 DEF GetSteps
  <2>2. CASE ReadDepth(t) \/ ReadSegment(t)
    BY <1>2, <1>4, <2>2 DEF ReadDepth, ReadSegment, Continue, GoTo, GetSteps
  <2>3. CASE Get(t)
    BY <1>2, <1>4, <2>3 DEF Get, GetLock, GetKey, GetValue, GetUnlock, NextSlot, Return,
             Continue, GoTo, GetSteps
  <2>4. QED  BY <1>3, <2>1, <2>2, <2>3
<1>6. OthersGet(w)'
  BY <1>1, <1>5 DEF OthersGet, OnlyMoves
<1>7. QED  BY <1>1, <1>3, <1>6

LEMMA OthersKeep ==
    ASSUME IInv, NEW w \in Threads, OthersOnlyGot(w)', DirInv(w),
           NEW t \in Threads \ {w}, Start(t) \/ Step(t)
    PROVE  DirInv(w)'
<1>1. /\ OthersGet(w)' /\ OnlyMoves(t)
      /\ Start(t) \/ ReadDepth(t) \/ ReadSegment(t) \/ Get(t)
  BY OthersQuiet DEF DirInv
<1>2. SameShapes /\ SameEntries  BY <1>1, QuietShapes
<1>3. pc'[w] = pc[w] /\ call'[w] = call[w] /\ loc'[w] = loc[w]
  BY <1>1 DEF OnlyMoves
<1>4. EntriesInv(w)' /\ HalvesInv(w)'  BY <1>2, <1>3, EntriesKept DEF DirInv
<1>5. FoundInv(w)'  BY <1>2, <1>3, FoundKept DEF DirInv
<1>6. QED  BY <1>1, <1>4, <1>5 DEF DirInv

-----------------------------------------------------------------------------
(* The steps of the thread that inserts, except those of a split.          *)

LEMMA InsertMoves ==
    ASSUME IInv, NEW t \in Threads, Insert(t)
    PROVE  /\ pc[t] \in Located \ Halfway
           /\ \/ pc'[t] \in {"depth", "idle"}
              \/ /\ pc'[t] \in Located \ Halfway
                 /\ loc'[t].target = loc[t].target /\ call'[t] = call[t]
<1>1. pc \in [Threads -> Labels] /\ call \in [Threads -> Calls \cup {NoCall}]
      /\ loc \in [Threads -> Locals] /\ loc[t] \in Locals
  BY Facts DEF ThreadsOK
<1> DEFINE Stays == loc'[t].target = loc[t].target /\ call'[t] = call[t]
           Goes(to) == pc'[t] \in to
<1>2. pc[t] \in Located \ Halfway
  BY DEF Insert, LoadSema, ReadShift, CheckPattern, LockShared, InvalidateMoved,
         ClearMoved, ClaimSlot, WriteValue, PublishKey, MatchKey, Replace, EraseKey,
         UnlockShared, NextSlot, Return, Continue, GoTo, Located, Halfway
<1>3. CASE LoadSema(t) \/ ReadShift(t) \/ CheckPattern(t) \/ LockShared(t)
  <2>1. Stays
    BY <1>1, <1>3 DEF LoadSema, ReadShift, CheckPattern, LockShared, Continue, Locals
  <2>2. Goes({"shift", "check", "lock", "depth", "split", "invalidate"})
    BY <1>1, <1>3 DEF LoadSema, ReadShift, CheckPattern, LockShared, Continue, GoTo, AfterLoad
  <2>3. QED  BY <1>2, <2>1, <2>2 DEF Located, Halfway
<1>4. CASE InvalidateMoved(t) \/ ClearMoved(t) \/ ClaimSlot(t) \/ WriteValue(t) \/ PublishKey(t)
  <2>1. Stays
    BY <1>1, <1>4 DEF InvalidateMoved, ClearMoved, ClaimSlot, WriteValue, PublishKey, Continue,
             Locals
  <2>2. Goes({"clear", "claim", "match", "write", "publish", "unlock"})
    BY <1>1, <1>4 DEF InvalidateMoved, ClearMoved, ClaimSlot, WriteValue, PublishKey, Continue,
             GoTo
  <2>3. QED  BY <1>2, <2>1, <2>2 DEF Located, Halfway
<1>5. CASE MatchKey(t) \/ Replace(t) \/ EraseKey(t)
  <2>1. Stays
    BY <1>1, <1>5 DEF MatchKey, Replace, EraseKey, NextSlot, Continue, Locals
  <2>2. Goes({"replace", "invalidate", "unlock", "erase"})
    BY <1>1, <1>5 DEF MatchKey, Replace, EraseKey, NextSlot, Continue, GoTo
  <2>3. QED  BY <1>2, <2>1, <2>2 DEF Located, Halfway
<1>6. CASE UnlockShared(t)
  <2>1. CASE Continue(t, "unlock", "split") /\ loc' = [loc EXCEPT ![t].full = FALSE]
    <3>1. Stays  BY <1>1, <2>1 DEF Continue, Locals
    <3>2. pc'[t] = "split"  BY <1>1, <2>1 DEF Continue, GoTo
    <3>3. QED  BY <1>2, <3>1, <3>2 DEF Located, Halfway
  <2>2. CASE Return(t, "unlock", loc[t].old)
    BY <1>1, <1>2, <2>2 DEF Return, GoTo
  <2>3. QED  BY <1>6, <2>1, <2>2 DEF UnlockShared
<1>7. QED  BY <1>3, <1>4, <1>5, <1>6 DEF Insert

LEMMA InsertKeepsDirectory ==
    ASSUME IInv, NEW w \in Threads, DirInv(w), Insert(w)
    PROVE  EntriesInv(w)' /\ FoundInv(w)' /\ HalvesInv(w)'
<1>1. SameShapes /\ SameEntries  BY QuietShapes
<1>2. /\ pc[w] \in Located \ Halfway
      /\ \/ pc'[w] \in {"depth", "idle"}
         \/ /\ pc'[w] \in Located \ Halfway
            /\ loc'[w].target = loc[w].target /\ call'[w] = call[w]
  BY InsertMoves
<1>3. pc[w] \notin Halfway /\ pc'[w] \notin Halfway  BY <1>2 DEF Halfway
<1>4. pc'[w] \in Located =>
         pc[w] \in Located /\ loc'[w].target = loc[w].target /\ call'[w] = call[w]
  BY <1>2 DEF Located, Halfway
<1>5. pc'[w] # "segment"  BY <1>2 DEF Located, Halfway
<1>6. QED  BY <1>1, <1>3, <1>4, <1>5, EntriesKept, FoundKept DEF DirInv

\* The steps before the insert has found its segment, and those of a lookup.
LEMMA SearchKeepsDirectory ==
    ASSUME IInv, NEW w \in Threads, DirInv(w), Start(w) \/ ReadDepth(w) \/ ReadSegment(w) \/ Get(w)
    PROVE  EntriesInv(w)' /\ FoundInv(w)' /\ HalvesInv(w)'
<1>1. SameShapes /\ SameEntries  BY QuietShapes
<1>2. pc \in [Threads -> Labels] /\ call \in [Threads -> Calls \cup {NoCall}]
      /\ loc \in [Threads -> Locals] /\ loc[w] \in Locals
  BY Facts DEF ThreadsOK
<1>3. CASE Start(w) \/ Get(w)
  <2>1. pc[w] \in GetSteps /\ pc'[w] \in GetSteps \ {"segment"}
    BY <1>2, <1>3 DEF Start, Get, GetLock, GetKey, GetValue, GetUnlock, NextSlot, Return,
             Continue, GoTo, GetSteps
  <2>2. pc[w] \notin Halfway /\ pc'[w] \notin Halfway /\ pc'[w] \notin Located
    BY <2>1 DEF GetSteps, Located, Halfway
  <2>3. QED  BY <1>1, <2>1, <2>2, EntriesKept, FoundKept DEF DirInv
<1>4. CASE ReadDepth(w)
  <2>1. /\ pc[w] = "depth" /\ pc'[w] = "segment" /\ call' = call
        /\ loc'[w].x = Prefix(Key(w), dir.depth)
    BY <1>2, <1>4 DEF ReadDepth, Continue, GoTo, Locals
  <2>2. pc[w] \notin Halfway /\ pc'[w] \notin Halfway /\ pc'[w] \notin Located
    BY <2>1 DEF Located, Halfway
  <2>3. FoundInv(w)'  BY <1>1, <2>1, <2>2 DEF FoundInv, SameEntries, Key, Prefix
  <2>4. QED  BY <1>1, <2>2, <2>3, EntriesKept DEF DirInv
<1>5. CASE ReadSegment(w)
  <2>1. /\ pc[w] = "segment" /\ pc'[w] \in {"g_lock", "load"} /\ call' = call
        /\ loc'[w].target = dir.entry[loc[w].x]
    BY <1>2, <1>5 DEF ReadSegment, Continue, GoTo, Locals
  <2>2. pc[w] \notin Halfway /\ pc'[w] \notin Halfway /\ pc'[w] # "segment"
    BY <2>1 DEF Halfway
  <2>3. loc'[w].target = dir.entry[Prefix(Key(w), dir.depth)]
    BY <2>1 DEF DirInv, FoundInv
  <2>4. FoundInv(w)'  BY <1>1, <2>1, <2>2, <2>3 DEF FoundInv, SameEntries, Key, Prefix
  <2>5. QED  BY <1>1, <2>2, <2>4, EntriesKept DEF DirInv
<1>6. QED  BY <1>3, <1>4, <1>5

-----------------------------------------------------------------------------
(* The steps of a split.                                                   *)

\* Those that change no depth, no pattern and no entry.
LEMMA QuietSplitKeeps ==
    ASSUME IInv, NEW w \in Threads, DirInv(w),
           TrySplit(w) \/ AcquireDirectory(w) \/ ReleaseDirectory(w) \/ ReopenSegment(w)
    PROVE  EntriesInv(w)' /\ FoundInv(w)' /\ HalvesInv(w)'
<1>1. SameShapes /\ SameEntries  BY QuietShapes
<1>2. pc \in [Threads -> Labels]  BY Facts DEF ThreadsOK
<1>3. UNCHANGED <<call, loc>>
  BY DEF TrySplit, AcquireDirectory, ReleaseDirectory, ReopenSegment, Continue
<1>4. \/ pc[w] = "split" /\ pc'[w] \in {"copy", "depth"}
      \/ pc[w] = "acquire" /\ pc'[w] = "update"
      \/ pc[w] = "release" /\ pc'[w] = "reopen"
      \/ pc[w] = "reopen" /\ pc'[w] = "depth"
  BY <1>2 DEF TrySplit, AcquireDirectory, ReleaseDirectory, ReopenSegment, Continue, GoTo
<1>5. /\ pc[w] \in Halfway <=> pc'[w] \in Halfway
      /\ pc'[w] \in Halfway \ {"pattern"} => pc[w] \in Halfway \ {"pattern"}
      /\ pc'[w] \in Located => pc[w] \in Located
      /\ pc'[w] # "segment"
  BY <1>4 DEF Located, Halfway
<1>6. QED  BY <1>1, <1>3, <1>5, EntriesKept, FoundKept DEF DirInv

\* The new segment is one deeper than the old one was.
LEMMA CopiedDepth ==
    ASSUME NEW g \in Segments, g.local_depth < HashBits
    PROVE  Copied(g).local_depth = g.local_depth + 1
<1>1. PICK c : c \in CopySteps(g)  BY CopyStepsExist
<1> DEFINE d == g.local_depth + 1
<1>2. c[0].local_depth = d  BY <1>1 DEF CopySteps, NewSegment
<1>3. \A h \in Segments : \A k, v : Insert4split(h, k, v).local_depth = h.local_depth
  BY DEF Insert4split, Segments
<1>4. \A n \in 1 .. NumSlots : c[n].local_depth = c[n - 1].local_depth
  <2> TAKE n \in 1 .. NumSlots
  <2>1. c[n - 1] \in Segments /\ c[n] = CopyStep(g, c[n - 1], n)
    BY <1>1, CCEHAssumption DEF CopySteps
  <2>2. QED  BY <1>3, <2>1 DEF CopyStep
<1> HIDE DEF d
<1> DEFINE T == {n \in 0 .. NumSlots : c[n].local_depth # d}
<1>5. T = {}
  <2> SUFFICES ASSUME T # {}
               PROVE  FALSE
    OBVIOUS
  <2>1. T \subseteq Nat  BY CCEHAssumption
  <2>2. PICK n \in T : \A m \in T : n <= m
    <3> HIDE DEF T
    <3>1. QED  BY <2>1, Least
  <2>3. n # 0 /\ n \in 0 .. NumSlots /\ c[n].local_depth # d  BY <1>2
  <2>4. n \in 1 .. NumSlots /\ n - 1 \in 0 .. NumSlots /\ n - 1 < n
    BY <2>3, CCEHAssumption
  <2>5. n - 1 \in T  BY <1>4, <2>3, <2>4
  <2>6. QED  BY <2>2, <2>4, <2>5
<1>6. c[NumSlots].local_depth = d  BY <1>5, CCEHAssumption
<1>7. QED  BY <1>1, <1>6 DEF CopySteps, d

\* A segment found for a key, while the directory's entries are right.
LEMMA FoundCovers ==
    ASSUME IInv, NEW w \in Threads, DirInv(w), pc[w] \in Located
    PROVE  /\ dir.depth \in 0 .. HashBits /\ HashBits \in Nat /\ Key(w) \in SlotKeys
           /\ Prefix(Key(w), dir.depth) \in DOMAIN dir.entry
           /\ dir.entry[Prefix(Key(w), dir.depth)] = loc[w].target
           /\ loc[w].target \in DOMAIN segment
           /\ segment[loc[w].target].local_depth \in 1 .. HashBits
<1>1. DirectoryOK /\ pc[w] # "idle"  BY Facts DEF Located, Halfway
<1>2. dir.depth \in 0 .. HashBits /\ HashBits \in Nat /\ Key(w) \in SlotKeys
  BY <1>1, Facts, CCEHAssumption DEF DirectoryOK
<1>3. Prefix(Key(w), dir.depth) \in DOMAIN dir.entry
  <2>1. Prefix(Key(w), dir.depth) \in 0 .. 2 ^ dir.depth - 1  BY <1>2, PrefixType
  <2>2. QED  BY <1>1, <2>1 DEF DirectoryOK
<1>4. segment[loc[w].target].local_depth \in InitDepth .. HashBits
  BY Facts, FieldsOK DEF Target
<1>5. segment[loc[w].target].local_depth \in 1 .. HashBits
  BY <1>4, CCEHAssumption
<1>6. QED  BY <1>2, <1>3, <1>5, Facts DEF DirInv, FoundInv

LEMMA CopyPairsKeepsDirectory ==
    ASSUME IInv, NEW w \in Threads, DirInv(w), CopyPairs(w)
    PROVE  EntriesInv(w)' /\ FoundInv(w)' /\ HalvesInv(w)'
<1>1. PICK s : s = loc[w].target  OBVIOUS
<1>2. PICK r : r = Len(segment) + 1  OBVIOUS
<1>3. PICK d : d = segment[s].local_depth  OBVIOUS
<1>4. /\ UNCHANGED dir /\ d < HashBits
      /\ segment' = Append([segment EXCEPT ![s].local_depth = @ + 1], Copied(segment[s]))
      /\ loc' = [loc EXCEPT ![w].split = r]
  BY <1>1, <1>2, <1>3 DEF CopyPairs, Target
<1>5. /\ loc \in [Threads -> Locals] /\ loc[w] \in Locals /\ pc \in [Threads -> Labels]
      /\ segment \in Seq(Segments) /\ s \in DOMAIN segment /\ segment[s] \in Segments
      /\ DirectoryOK
  BY <1>1, Facts DEF ThreadsOK, SegmentsOK
<1>6. /\ pc[w] = "copy" /\ pc'[w] = "pattern" /\ Key(w)' = Key(w)
      /\ loc'[w].target = s /\ loc'[w].split = r
  BY <1>1, <1>4, <1>5 DEF CopyPairs, Continue, GoTo, Key, Locals
<1>7. /\ DOMAIN segment = 1 .. Len(segment) /\ r \notin DOMAIN segment
      /\ segment'[s].local_depth = d + 1 /\ segment'[r].local_depth = d + 1
      /\ \A n \in DOMAIN segment \ {s} : segment'[n] = segment[n]
  <2> DEFINE g == [segment[s] EXCEPT !.local_depth = @ + 1]
             h == Copied(segment[s])
             S == [segment EXCEPT ![s] = g]
  <2>1. g.local_depth = d + 1 /\ h.local_depth = d + 1
    BY <1>3, <1>4, <1>5, CopiedDepth DEF Segments
  <2>2. segment' = Append(S, h)  BY <1>4
  <2> HIDE DEF g, h
  <2>3. S \in Seq(Segments \cup {g}) /\ Len(S) = Len(segment) /\ S[s] = g
        /\ \A n \in DOMAIN segment \ {s} : S[n] = segment[n]
    BY <1>5
  <2> HIDE DEF S
  <2>4. QED  BY <1>2, <1>5, <2>1, <2>2, <2>3
<1>8. /\ dir.depth \in 0 .. HashBits /\ HashBits \in Nat /\ Key(w) \in SlotKeys
      /\ Prefix(Key(w), dir.depth) \in DOMAIN dir.entry
      /\ dir.entry[Prefix(Key(w), dir.depth)] = s /\ d \in 1 .. HashBits
  BY <1>1, <1>3, <1>6, FoundCovers DEF Located
<1>9. \A x \in DOMAIN dir.entry : Covers(dir.entry[x], x) /\ dir.entry[x] \in DOMAIN segment
  BY <1>5, <1>6 DEF DirInv, EntriesInv, Halfway, DirectoryOK
<1>10. d <= dir.depth /\ segment[s].pattern = Prefix(Key(w), d)
  <2>1. /\ d <= dir.depth
        /\ segment[s].pattern = Prefix(Key(w), dir.depth) \div 2 ^ (dir.depth - d)
    BY <1>3, <1>8, <1>9 DEF Covers
  <2>2. d \in 0 .. dir.depth  BY <1>8, <2>1
  <2>3. QED  BY <1>8, <2>1, <2>2, PrefixOfPrefix
<1>11. \A x \in DOMAIN dir.entry :
          /\ dir.entry[x] # r
          /\ dir.entry[x] = s => x \div 2 ^ (dir.depth - d) = Prefix(Key(w), d)
  BY <1>3, <1>7, <1>9, <1>10 DEF Covers
<1>12. EntriesInv(w)'
  BY <1>4, <1>6, <1>7, <1>9 DEF EntriesInv, Covers, Halfway
<1>13. FoundInv(w)'
  BY <1>4, <1>6, <1>8 DEF FoundInv, Prefix
<1>14. HalvesInv(w)'
  <2>1. (Target(w).local_depth - 1)' = d  BY <1>6, <1>7, <1>8 DEF Target
  <2>2. Halves(Key(w), s, r, d)'
    BY <1>4, <1>6, <1>7, <1>10, <1>11 DEF Halves, Prefix
  <2>3. QED  BY <1>6, <2>1, <2>2 DEF HalvesInv, Halfway
<1>15. QED  BY <1>12, <1>13, <1>14

LEMMA SetPatternsKeepsDirectory ==
    ASSUME IInv, NEW w \in Threads, DirInv(w), SetPatterns(w)
    PROVE  EntriesInv(w)' /\ FoundInv(w)' /\ HalvesInv(w)'
<1>1. PICK s : s = loc[w].target  OBVIOUS
<1>2. PICK r : r = loc[w].split  OBVIOUS
<1>3. PICK d : d = segment[s].local_depth - 1  OBVIOUS
<1>4. PICK p : p = 2 * Prefix(Key(w), d)  OBVIOUS
<1>5. /\ UNCHANGED <<dir, loc, call>> /\ pc[w] = "pattern" /\ pc'[w] = "acquire"
      /\ segment' = [segment EXCEPT ![s].pattern = p, ![r].pattern = p + 1]
  BY <1>1, <1>2, <1>3, <1>4, Facts
     DEF SetPatterns, Target, Continue, GoTo, ThreadsOK, LowerPattern
<1>6. /\ segment \in Seq(Segments) /\ s \in DOMAIN segment /\ r \in DOMAIN segment
      /\ segment[s] \in Segments /\ DirectoryOK
  BY <1>1, <1>2, <1>5, Facts DEF SegmentsOK, Holding
<1>7. /\ dir.depth \in 0 .. HashBits /\ HashBits \in Nat /\ Key(w) \in SlotKeys
      /\ Prefix(Key(w), dir.depth) \in DOMAIN dir.entry
      /\ dir.entry[Prefix(Key(w), dir.depth)] = s /\ segment[s].local_depth \in 1 .. HashBits
  BY <1>1, <1>5, FoundCovers DEF Located, Halfway
<1>8. Halves(Key(w), s, r, d) /\ d \in Nat
  BY <1>1, <1>2, <1>3, <1>5, <1>7 DEF DirInv, HalvesInv, Target, Halfway
<1>9. s # r  BY <1>7, <1>8 DEF Halves
<1>10. /\ DOMAIN segment' = DOMAIN segment
       /\ segment'[s].pattern = p /\ segment'[r].pattern = p + 1
       /\ \A n \in DOMAIN segment \ {s, r} : segment'[n] = segment[n]
       /\ \A n \in DOMAIN segment : segment'[n].local_depth = segment[n].local_depth
  <2> DEFINE g == [segment[s] EXCEPT !.pattern = p]
             h == [segment[r] EXCEPT !.pattern = p + 1]
             S == [segment EXCEPT ![s] = g]
  <2>1. g.pattern = p /\ g.local_depth = segment[s].local_depth
        /\ h.pattern = p + 1 /\ h.local_depth = segment[r].local_depth
    BY <1>6 DEF Segments
  <2>2. segment' = [S EXCEPT ![r] = h]
    <3>1. S[r] = segment[r]  BY <1>6, <1>9
    <3>2. segment' = [S EXCEPT ![r] = [S[r] EXCEPT !.pattern = p + 1]]  BY <1>5
    <3>3. QED  BY <3>1, <3>2
  <2> HIDE DEF g, h
  <2>3. DOMAIN S = DOMAIN segment /\ S[s] = g /\ \A n \in DOMAIN segment \ {s} : S[n] = segment[n]
    BY <1>6
  <2> HIDE DEF S
  <2>4. /\ DOMAIN segment' = DOMAIN segment /\ segment'[r] = h
        /\ \A n \in DOMAIN segment \ {r} : segment'[n] = S[n]
    BY <1>6, <2>2, <2>3
  <2>5. QED  BY <1>6, <1>9, <2>1, <2>3, <2>4
<1>11. EntriesInv(w)'
  <2>1. SUFFICES ASSUME NEW x \in DOMAIN dir.entry
                 PROVE  Covers(dir.entry[x], x)' \/ dir.entry[x] = s
    BY <1>1, <1>5 DEF EntriesInv, Halfway
  <2>2. dir.entry[x] # r /\ dir.entry[x] \in DOMAIN segment
    BY <1>6, <1>8 DEF Halves, DirectoryOK
  <2>3. Covers(dir.entry[x], x) \/ dir.entry[x] = s
    BY <1>1 DEF DirInv, EntriesInv
  <2>4. QED  BY <1>5, <1>10, <2>2, <2>3 DEF Covers
<1>12. FoundInv(w)'
  BY <1>1, <1>5, <1>7 DEF FoundInv, Key, Prefix
<1>13. HalvesInv(w)'
  <2>1. (Target(w).local_depth - 1)' = d  BY <1>1, <1>3, <1>5, <1>6, <1>10 DEF Target
  <2>2. Halves(Key(w), s, r, d)' /\ HalvesSet(Key(w), s, r, d)'
    BY <1>4, <1>5, <1>6, <1>8, <1>10 DEF Halves, HalvesSet, Key, Prefix
  <2>3. QED  BY <1>1, <1>2, <1>5, <2>1, <2>2 DEF HalvesInv
<1>14. QED  BY <1>11, <1>12, <1>13

\* The directory comes to know both halves.
LEMMA UpdateEntriesKeepsDirectory ==
    ASSUME IInv, NEW w \in Threads, DirInv(w), UpdateEntries(w)
    PROVE  EntriesInv(w)' /\ FoundInv(w)' /\ HalvesInv(w)'
<1>1. PICK s : s = loc[w].target  OBVIOUS
<1>2. PICK r : r = loc[w].split  OBVIOUS
<1>3. PICK d : d = segment[s].local_depth - 1  OBVIOUS
<1>4. PICK x : x = Prefix(Key(w), dir.depth)  OBVIOUS
<1>5. PICK U : U = UpperHalf(x, 2 ^ (dir.depth - d))  OBVIOUS
<1>6. /\ dir.depth \in 0 .. HashBits /\ HashBits \in Nat /\ Key(w) \in SlotKeys
      /\ x \in DOMAIN dir.entry
      /\ dir.entry[x] = s /\ s \in DOMAIN segment /\ segment[s].local_depth \in 1 .. HashBits
  BY <1>1, <1>4, FoundCovers DEF UpdateEntries, Continue, GoTo, Located, Halfway
<1>7. /\ UNCHANGED segment /\ pc[w] = "update" /\ pc'[w] = "release" /\ d < dir.depth
      /\ dir' = [dir EXCEPT !.entry = [y \in DOMAIN dir.entry |->
                                          IF y \in U THEN r ELSE dir.entry[y]]]
  BY <1>1, <1>2, <1>3, <1>4, <1>5, <1>6, Facts
     DEF UpdateEntries, Target, Continue, GoTo, ThreadsOK
<1>8. DirectoryOK  BY Facts
<1>9. /\ dir'.depth = dir.depth /\ DOMAIN dir'.entry = DOMAIN dir.entry
      /\ \A y \in DOMAIN dir.entry : dir'.entry[y] = IF y \in U THEN r ELSE dir.entry[y]
  BY <1>7, <1>8 DEF DirectoryOK
<1>10. Halves(Key(w), s, r, d) /\ HalvesSet(Key(w), s, r, d)
  BY <1>1, <1>2, <1>3, <1>7 DEF DirInv, HalvesInv, Target, Halfway
<1>11. PICK c : c = 2 ^ (dir.depth - (d + 1))  OBVIOUS
<1>12. /\ d \in 0 .. dir.depth /\ d + 1 <= dir.depth /\ c \in Nat \ {0}
       /\ 2 ^ (dir.depth - d) = 2 * c
  <2>1. d \in 0 .. dir.depth /\ d + 1 <= dir.depth /\ dir.depth - (d + 1) \in Nat
        /\ dir.depth - d = (dir.depth - (d + 1)) + 1
    BY <1>3, <1>6, <1>7
  <2>2. QED  BY <1>11, <2>1, PowerType, PowerStep
<1>13. x \div (2 * c) = Prefix(Key(w), d)
  BY <1>4, <1>6, <1>12, PrefixOfPrefix
<1>14. \A y \in DOMAIN dir.entry : y \in Nat
  BY <1>6, <1>8, PowerType DEF DirectoryOK
<1>15. EntriesInv(w)'
  <2>1. SUFFICES ASSUME NEW y \in DOMAIN dir.entry
                 PROVE  Covers(dir.entry[y], y)'
    BY <1>9 DEF EntriesInv
  <2>2. CASE y \in U
    <3>1. y \div c = 2 * Prefix(Key(w), d) + 1
      <4>1. y \in UpperHalf(x, 2 * c) /\ x \in Nat /\ y \in Nat
        BY <1>5, <1>6, <1>12, <1>14, <2>2
      <4>2. y \div c = 2 * (x \div (2 * c)) + 1  BY <1>12, <4>1, ChunkHalves
      <4>3. QED  BY <1>13, <4>2
    <3>2. QED
      BY <1>7, <1>9, <1>10, <1>11, <1>12, <2>2, <3>1 DEF Covers, Halves, HalvesSet
  <2>3. CASE y \notin U /\ dir.entry[y] = s
    <3>1. y \div (2 * c) = Prefix(Key(w), d)  BY <1>10, <1>12, <2>3 DEF Halves
    <3>2. y \div c = 2 * Prefix(Key(w), d)
      <4>1. y \notin UpperHalf(x, 2 * c) /\ x \in Nat /\ y \in Nat
        BY <1>5, <1>6, <1>12, <1>14, <2>3
      <4>2. y \div (2 * c) = x \div (2 * c)  BY <1>13, <3>1
      <4>3. y \div c = 2 * (x \div (2 * c))  BY <1>12, <4>1, <4>2, ChunkHalves
      <4>4. QED  BY <1>13, <4>3
    <3>3. QED
      BY <1>7, <1>9, <1>10, <1>11, <1>12, <2>3, <3>2 DEF Covers, Halves, HalvesSet
  <2>4. CASE y \notin U /\ dir.entry[y] # s
    <3>1. Covers(dir.entry[y], y)  BY <1>1, <2>4 DEF DirInv, EntriesInv
    <3>2. QED  BY <1>7, <1>9, <2>4, <3>1 DEF Covers
  <2>5. QED  BY <2>2, <2>3, <2>4
<1>16. FoundInv(w)' /\ HalvesInv(w)'
  BY <1>7 DEF FoundInv, HalvesInv, Located, Halfway
<1>17. QED  BY <1>15, <1>16

LEMMA DoubleDirectoryKeepsDirectory ==
    ASSUME IInv, NEW w \in Threads, DirInv(w), DoubleDirectory(w)
    PROVE  EntriesInv(w)' /\ FoundInv(w)' /\ HalvesInv(w)'
<1>1. PICK s : s = loc[w].target  OBVIOUS
<1>2. PICK r : r = loc[w].split  OBVIOUS
<1>3. PICK d : d = segment[s].local_depth - 1  OBVIOUS
<1>4. PICK x : x = Prefix(Key(w), dir.depth)  OBVIOUS
<1>5. /\ dir.depth \in 0 .. HashBits /\ HashBits \in Nat /\ Key(w) \in SlotKeys
      /\ x \in DOMAIN dir.entry
      /\ dir.entry[x] = s /\ s \in DOMAIN segment /\ segment[s].local_depth \in 1 .. HashBits
  BY <1>1, <1>4, FoundCovers DEF DoubleDirectory, Continue, GoTo, Located, Halfway
<1>6. /\ UNCHANGED segment /\ pc[w] = "update" /\ pc'[w] = "reopen" /\ d >= dir.depth
      /\ dir' = [depth |-> dir.depth + 1, lock |-> FALSE,
                 entry |-> [y \in 0 .. 2 ^ (dir.depth + 1) - 1 |->
                               IF y = 2 * x THEN s
                               ELSE IF y = 2 * x + 1 THEN r
                               ELSE dir.entry[y \div 2]]]
  BY <1>1, <1>2, <1>3, <1>4, <1>5, Facts
     DEF DoubleDirectory, Target, Continue, GoTo, ThreadsOK
<1>7. Halves(Key(w), s, r, d) /\ HalvesSet(Key(w), s, r, d)
  BY <1>1, <1>2, <1>3, <1>6 DEF DirInv, HalvesInv, Target, Halfway
<1>8. d = dir.depth /\ dir.depth \in Nat  BY <1>3, <1>5, <1>6, <1>7 DEF Halves
<1>9. DirectoryOK  BY Facts
<1>10. PICK a : a = 2 ^ dir.depth  OBVIOUS
<1>11. a \in Nat \ {0} /\ 2 ^ (dir.depth + 1) = 2 * a /\ DOMAIN dir.entry = 0 .. a - 1
       /\ x \in Nat
  <2>1. a \in Nat \ {0} /\ 2 ^ (dir.depth + 1) = 2 * a
    BY <1>8, <1>10, PowerType, PowerStep
  <2>2. DOMAIN dir.entry = 0 .. a - 1  BY <1>9, <1>10 DEF DirectoryOK
  <2>3. QED  BY <1>5, <2>1, <2>2
<1>12. /\ dir'.depth = dir.depth + 1 /\ DOMAIN dir'.entry = 0 .. 2 * a - 1
       /\ \A y \in 0 .. 2 * a - 1 :
             dir'.entry[y] = IF y = 2 * x THEN s ELSE IF y = 2 * x + 1 THEN r
                             ELSE dir.entry[y \div 2]
  BY <1>6, <1>11
<1>13. 2 ^ (dir.depth - d) = 1 /\ \A y \in Nat : y \div 1 = y
  <2>1. dir.depth - d = 0  BY <1>8
  <2>2. QED  BY <2>1, DivideByOne
<1>14. EntriesInv(w)'
  <2>1. SUFFICES ASSUME NEW y \in 0 .. 2 * a - 1
                 PROVE  Covers(dir.entry[y], y)'
    BY <1>12 DEF EntriesInv
  <2>2. y \in Nat /\ y \div 2 \in 0 .. a - 1 /\ y \in {2 * (y \div 2), 2 * (y \div 2) + 1}
    BY <1>11
  <2>3. CASE y = 2 * x
    <3>1. dir'.entry[y] = s  BY <1>12, <2>3
    <3>2. segment'[s].local_depth = dir'.depth /\ segment'[s].pattern = y
      BY <1>4, <1>6, <1>7, <1>8, <1>12, <2>3 DEF Halves, HalvesSet
    <3>3. dir'.depth - segment'[s].local_depth = 0 /\ segment'[s].local_depth <= dir'.depth
      BY <1>8, <1>12, <3>2
    <3>4. y = y \div 2 ^ 0  BY <2>2, DivideByOne
    <3>5. segment'[s].pattern = y \div 2 ^ (dir'.depth - segment'[s].local_depth)
      BY <3>2, <3>3, <3>4
    <3>6. QED  BY <3>1, <3>3, <3>5 DEF Covers
  <2>4. CASE y = 2 * x + 1
    <3>1. dir'.entry[y] = r
      <4>1. y # 2 * x  BY <1>11, <2>4
      <4>2. QED  BY <1>12, <2>4, <4>1
    <3>2. segment'[r].local_depth = dir'.depth /\ segment'[r].pattern = y
      BY <1>4, <1>6, <1>7, <1>8, <1>12, <2>4 DEF Halves, HalvesSet
    <3>3. dir'.depth - segment'[r].local_depth = 0 /\ segment'[r].local_depth <= dir'.depth
      BY <1>8, <1>12, <3>2
    <3>4. y = y \div 2 ^ 0  BY <2>2, DivideByOne
    <3>5. segment'[r].pattern = y \div 2 ^ (dir'.depth - segment'[r].local_depth)
      BY <3>2, <3>3, <3>4
    <3>6. QED  BY <3>1, <3>3, <3>5 DEF Covers
  <2>5. CASE y # 2 * x /\ y # 2 * x + 1
    <3>1. PICK z : z = y \div 2  OBVIOUS
    <3>2. z \in DOMAIN dir.entry /\ z # x /\ z \in Nat /\ dir'.entry[y] = dir.entry[z]
      <4>1. z \in 0 .. a - 1 /\ z \in Nat /\ y \in {2 * z, 2 * z + 1}  BY <1>11, <2>2, <3>1
      <4>2. z # x  BY <2>5, <4>1
      <4>3. dir'.entry[y] = dir.entry[z]  BY <1>12, <2>5, <3>1
      <4>4. QED  BY <1>11, <4>1, <4>2, <4>3
    <3>3. dir.entry[z] # s
      <4>1. dir.entry[z] = s => z \div 2 ^ (dir.depth - d) = Prefix(Key(w), d)
        BY <1>7, <3>2 DEF Halves
      <4>2. QED  BY <1>4, <1>8, <1>13, <3>2, <4>1
    <3>4. PICK n : n = dir.entry[z]  OBVIOUS
    <3>5. Covers(n, z) /\ segment[n] \in Segments
      BY <1>1, <1>9, <3>2, <3>3, <3>4, Facts DEF DirInv, EntriesInv, DirectoryOK
    <3>6. segment[n].local_depth \in 0 .. dir.depth
      <4>1. segment[n].local_depth \in InitDepth .. HashBits  BY <3>5, FieldsOK
      <4>2. QED  BY <1>5, <3>5, <4>1, CCEHAssumption DEF Covers
    <3>7. y \div 2 ^ ((dir.depth + 1) - segment[n].local_depth)
             = z \div 2 ^ (dir.depth - segment[n].local_depth)
      BY <1>8, <2>2, <3>1, <3>6, DoubledIndex
    <3>8. /\ dir'.entry[y] = n /\ segment'[n] = segment[n]
          /\ segment[n].pattern = z \div 2 ^ (dir.depth - segment[n].local_depth)
      BY <1>6, <3>2, <3>4, <3>5 DEF Covers
    <3>9. segment[n].local_depth <= dir'.depth  BY <1>8, <1>12, <3>6
    <3>10. segment[n].pattern = y \div 2 ^ (dir'.depth - segment[n].local_depth)
      <4>1. segment[n].pattern = y \div 2 ^ ((dir.depth + 1) - segment[n].local_depth)
        BY <3>7, <3>8
      <4>2. dir'.depth = dir.depth + 1  BY <1>12
      <4>3. QED  BY <4>1, <4>2
    <3>11. QED  BY <3>8, <3>9, <3>10 DEF Covers
  <2>6. QED  BY <2>3, <2>4, <2>5
<1>15. FoundInv(w)' /\ HalvesInv(w)'
  BY <1>6 DEF FoundInv, HalvesInv, Located, Halfway
<1>16. QED  BY <1>14, <1>15

-----------------------------------------------------------------------------
LEMMA InserterKeeps ==
    ASSUME IInv, NEW w \in Threads, DirInv(w), Start(w) \/ Step(w)
    PROVE  DirInv(w)'
<1>1. OthersGet(w)'  BY OthersStay DEF DirInv, OthersGet, OnlyMoves
<1>2. EntriesInv(w)' /\ FoundInv(w)' /\ HalvesInv(w)'
  BY SearchKeepsDirectory, InsertKeepsDirectory, QuietSplitKeeps, CopyPairsKeepsDirectory,
     SetPatternsKeepsDirectory, UpdateEntriesKeepsDirectory, DoubleDirectoryKeepsDirectory
     DEF Step, Split
<1>3. QED  BY <1>1, <1>2 DEF DirInv

LEMMA DirectoryInitially == ASSUME Init, NEW w \in Threads  PROVE DirInv(w)
<1>1. pc \in [Threads -> {"idle"}]  BY DEF Init
<1>2. OthersGet(w) /\ FoundInv(w) /\ HalvesInv(w)
  BY <1>1 DEF OthersGet, FoundInv, HalvesInv, GetSteps, Located, Halfway
<1>3. PICK a : a = 2 ^ InitDepth  OBVIOUS
<1>4. a \in Nat /\ InitDepth \in Nat  BY <1>3, PowerType, CCEHAssumption
<1>5. /\ segment = [n \in 1 .. a |-> NewSegment(InitDepth, n - 1)]
      /\ dir.depth = InitDepth /\ dir.entry = [x \in 0 .. a - 1 |-> x + 1]
  BY <1>3 DEF Init
<1>6. EntriesInv(w)
  <2> SUFFICES ASSUME NEW x \in 0 .. a - 1
               PROVE  Covers(dir.entry[x], x)
    BY <1>5 DEF EntriesInv
  <2>1. dir.entry[x] = x + 1 /\ x + 1 \in 1 .. a /\ x \in Nat /\ (x + 1) - 1 = x
    BY <1>4, <1>5
  <2>2. segment[x + 1].local_depth = InitDepth /\ segment[x + 1].pattern = x
    BY <1>5, <2>1 DEF NewSegment
  <2>3. InitDepth - InitDepth = 0 /\ x = x \div 2 ^ 0  BY <1>4, <2>1, DivideByOne
  <2>4. dir.depth - segment[x + 1].local_depth = 0  BY <1>4, <1>5, <2>2
  <2>5. segment[x + 1].pattern = x \div 2 ^ (dir.depth - segment[x + 1].local_depth)
    BY <2>2, <2>3, <2>4
  <2>6. segment[x + 1].local_depth <= dir.depth  BY <1>4, <1>5, <2>2
  <2>7. QED  BY <2>1, <2>5, <2>6 DEF Covers
<1>7. QED  BY <1>2, <1>6 DEF DirInv

LEMMA DirectoryMatches ==
    ASSUME IInv, NEW w \in Threads, DirInv(w)
    PROVE  DirectoryMatchesSegments
<1> SUFFICES ASSUME NEW x \in DOMAIN dir.entry, ~segment[dir.entry[x]].sema.exclusive
             PROVE  Covers(dir.entry[x], x)
  BY DEF DirectoryMatchesSegments, Covers
<1>1. ASSUME pc[w] \in Halfway, dir.entry[x] = loc[w].target
      PROVE  FALSE
  <2>1. w \in Splitting(dir.entry[x])  BY <1>1 DEF Splitting, Halfway, SplitSteps
  <2>2. segment[dir.entry[x]].sema.exclusive
    BY <1>1, <2>1, Facts DEF SemaCounts
  <2>3. QED  BY <2>2
<1>2. QED  BY <1>1 DEF DirInv, EntriesInv

\* The calls a thread has begun are still begun after any step.
LEMMA BegunGrows ==
    ASSUME IInv, NEW t \in Threads, NEW u \in Threads, Start(u) \/ Step(u)
    PROVE  Begun(t) \in Nat /\ Begun(t)' \in Nat /\ Begun(t) <= Begun(t)'
<1>1. pc \in [Threads -> Labels] /\ done \in [Threads -> Nat]  BY Facts DEF ThreadsOK
<1>2. CASE Start(u)
  <2>1. done' = done /\ (pc'[t] = pc[t] \/ (pc[t] = "idle" /\ pc'[t] = "depth"))
    BY <1>1, <1>2 DEF Start, GoTo
  <2>2. QED  BY <1>1, <2>1 DEF Begun
<1> DEFINE Continues == /\ done' = done /\ pc[u] # "idle" /\ pc'[u] # "idle"
                     /\ pc' = [pc EXCEPT ![u] = pc'[u]]
           Ends == /\ done' = [done EXCEPT ![u] = @ + 1] /\ pc[u] # "idle"
                      /\ pc' = [pc EXCEPT ![u] = "idle"]
<1>3. Continues \/ Ends => Begun(t) \in Nat /\ Begun(t)' \in Nat /\ Begun(t) <= Begun(t)'
  BY <1>1 DEF Begun
<1>4. Step(u) => Continues \/ Ends
  <2>1. Insert(u) => Continues \/ Ends
    BY <1>1 DEF Insert, LoadSema, ReadShift, CheckPattern, LockShared, InvalidateMoved,
             ClearMoved, ClaimSlot, WriteValue, PublishKey, MatchKey, Replace, EraseKey,
             UnlockShared, NextSlot, Return, Continue, GoTo, AfterLoad
  <2>2. Split(u) => Continues
    BY <1>1 DEF Split, TrySplit, CopyPairs, SetPatterns, AcquireDirectory,
             UpdateEntries, DoubleDirectory, ReleaseDirectory, ReopenSegment, Continue, GoTo
  <2>3. Get(u) => Continues \/ Ends
    BY <1>1 DEF Get, GetLock, GetKey, GetValue, GetUnlock, NextSlot, Return, Continue, GoTo
  <2>4. ReadDepth(u) \/ ReadSegment(u) => Continues
    BY <1>1 DEF ReadDepth, ReadSegment, Continue, GoTo
  <2>5. QED  BY <2>1, <2>2, <2>3, <2>4 DEF Step
<1>5. QED  BY <1>2, <1>3, <1>4

LEMMA OthersHadOnlyGot ==
    ASSUME IInv, NEW w \in Threads, OthersOnlyGot(w)',
           NEW u \in Threads, Start(u) \/ Step(u)
    PROVE  OthersOnlyGot(w)
<1> SUFFICES ASSUME NEW t \in Threads \ {w}, NEW n \in 1 .. Begun(t)
             PROVE  n \in 1 .. Begun(t)'
  BY DEF OthersOnlyGot, OnlyGotSoFar
<1>1. Begun(t) \in Nat /\ Begun(t)' \in Nat /\ Begun(t) <= Begun(t)'  BY BegunGrows
<1>2. QED  BY <1>1

(* While one thread has inserted, and any number have looked up, every     *)
(* entry of the directory leads to the segment of its prefix unless that   *)
(* segment is locked for a split: CoreInsert's update and doubling lose no *)
(* half of a split segment and give none to an index of another prefix.    *)
THEOREM DirectoryIsRight == Spec => []OneInserterKeepsDirectory
<1> DEFINE DInv == \A w \in Threads : OthersOnlyGot(w) => DirInv(w)
<1>1. Init => IInv /\ DInv  BY InitOK, DirectoryInitially
<1>2. IInv /\ DInv /\ [Next]_vars => (IInv /\ DInv)'
  <2> SUFFICES ASSUME IInv, DInv, [Next]_vars
               PROVE  (IInv /\ DInv)'
    OBVIOUS
  <2>1. IInv'  BY NextOK
  <2>2. ASSUME NEW w \in Threads, OthersOnlyGot(w)'
        PROVE  DirInv(w)'
    <3>1. CASE UNCHANGED vars
      <4>1. OthersOnlyGot(w)
        BY <2>2, <3>1 DEF vars, OthersOnlyGot, OnlyGotSoFar, Begun
      <4>2. DirInv(w)  BY <4>1
      <4>3. QED
        BY <4>2, <3>1 DEF vars, DirInv, OthersGet, EntriesInv, FoundInv, HalvesInv, Halves,
                      HalvesSet, Covers, Target, Key, Prefix
    <3>2. CASE \E t \in Threads : Start(t) \/ Step(t)
      <4>1. PICK t \in Threads : Start(t) \/ Step(t)  BY <3>2
      <4>2. DirInv(w)  BY <2>2, <4>1, OthersHadOnlyGot
      <4>3. QED  BY <2>2, <4>1, <4>2, OthersKeep, InserterKeeps
    <3>3. QED  BY <3>1, <3>2 DEF Next, Finished
  <2>3. QED  BY <2>1, <2>2
<1>3. IInv /\ DInv => OneInserterKeepsDirectory
  BY DirectoryMatches DEF OneInserterKeepsDirectory
<1>4. QED  BY <1>1, <1>2, <1>3, PTL DEF Spec
=============================================================================
