---------------------------- MODULE XIndex_proof ----------------------------
(***************************************************************************)
(* Proofs about XIndex, for any workers, keys, values, calls, groups and   *)
(* stores, and any number of adjustments: nothing a worker in a call can   *)
(* reach is freed.                                                         *)
(***************************************************************************)
EXTENDS XIndex, WellFoundedInduction, TLAPS

-----------------------------------------------------------------------------
(* The groups and the stores of an adjustment.                             *)
Olds == Range(bg.old)
Inters == Range(bg.inter)
News == Range(bg.new)
Adjusting == bg.pc \in {"prepare", "merge", "publish_next", "unlink_next", "replace", "free"}
Stored(g) == {Array(g), Buffer(g)}

(* A worker may still hold, but not find, a group that was replaced.       *)
Retired ==
    IF \/ bg.pc \in {"delete", "publish_next"}
       \/ bg.pc \in {"prepare", "merge"} /\ bg.kind = "split"
    THEN Olds
    ELSE IF bg.pc \in {"unlink_next", "replace", "free"} THEN Olds \cup Inters ELSE {}

(* The shape of the background thread's locals in every phase.             *)
WorkInv ==
    /\ bg.pc \in {"visit", "list", "trim", "settle", "aborted"} =>
          bg.old = <<>> /\ bg.inter = <<>> /\ bg.new = <<>>
    /\ bg.pc = "delete" => Len(bg.old) = 1 /\ bg.inter = <<>> /\ bg.new = <<>>
    /\ bg.pc # "list" => bg.listed = <<>>
    /\ Adjusting =>
          /\ bg.kind \in {"split", "merge", "compact"}
          /\ Len(bg.old) = (IF bg.kind = "merge" THEN 2 ELSE 1)
          /\ Len(bg.inter) = (IF bg.kind = "split" THEN 2 ELSE 0)
          /\ Len(bg.new) = (IF bg.pc = "prepare" THEN 0 ELSE IF bg.kind = "split" THEN 2 ELSE 1)
          /\ bg.kind = "merge" => bg.old[1] # bg.old[2]
          /\ bg.kind = "split" => bg.inter[1] # bg.inter[2]
          /\ bg.kind = "split" /\ bg.pc # "prepare" => bg.new[1] # bg.new[2]
    /\ bg.pc \in {"publish_next", "unlink_next"} => bg.kind = "merge"
    /\ Adjusting \/ bg.pc = "delete" => bg.adjusted < MaxAdjustments

(* Where the groups of an adjustment are: L can be found, O is retired.    *)
PlaceInv(L, O) ==
    /\ L \cap O = {}
    /\ bg.pc # "trim" => O = Retired
    /\ bg.pc \in {"prepare", "merge"} =>
          /\ bg.kind = "split" => Inters \subseteq L
          /\ bg.kind # "split" => Olds \subseteq L
    /\ bg.pc = "merge" => News \cap (L \cup O) = {}
    /\ bg.pc \in {"publish_next", "unlink_next", "replace", "free"} => News \subseteq L

GroupInv(L, O) ==
    /\ \A g \in L \cup O \cup News :
          /\ group[g] # NONE
          /\ mem[Array(g)] # NONE /\ mem[Buffer(g)] # NONE
          /\ group[g].buffer_temp # NONE => mem[group[g].buffer_temp] # NONE
          /\ g \notin Olds \cup Inters => group[g].buffer_temp = NONE
    /\ \A g \in L : group[g].next \in L \cup {NONE}
    /\ \A g \in O : group[g].next \in L \cup O \cup {NONE}

(* The groups of an adjustment follow each other.                          *)
ChainInv ==
    /\ bg.pc \in {"prepare", "merge"} /\ bg.kind = "split" => group[bg.inter[1]].next = bg.inter[2]
    /\ Adjusting /\ bg.pc # "prepare" /\ bg.kind = "split" => group[bg.new[1]].next = bg.new[2]
    /\ bg.pc = "merge" =>
          group[bg.new[Len(bg.new)]].next =
             group[IF bg.kind = "split" THEN bg.inter[2] ELSE bg.old[Len(bg.old)]].next

SlotInv(L, O) ==
    /\ roots[root] # NONE
    /\ 1 \in DOMAIN roots[root] /\ roots[root][1].group # NONE
    /\ \A i \in DOMAIN roots[root] :
          \/ roots[root][i].group \in L \cup {NONE}
          \/ bg.pc = "publish_next" /\ bg.next_ptr = Slot(i) /\ roots[root][i].group = bg.old[2]
    /\ bg.pc = "trim" =>
          /\ roots[1 - root] # NONE
          /\ 1 \in DOMAIN roots[1 - root] /\ roots[1 - root][1].group # NONE
          /\ \A i \in DOMAIN roots[1 - root] : roots[1 - root][i].group \in L \cup O \cup {NONE}
          /\ \A g \in L : \E i \in DOMAIN roots[root] : roots[root][i].group = g

(* One link leads to a group.                                              *)
Links(L) ==
    ({Slot(i) : i \in DOMAIN roots[root]} \cup (IF bg.pc = "trim" THEN {} ELSE {NextOf(g) : g \in L}))
    \ (IF bg.pc \in {"publish_next", "unlink_next"} THEN {bg.next_ptr} ELSE {})

LinkInv(L) == \A p, q \in Links(L) : Deref(p) = Deref(q) /\ Deref(p) # NONE => p = q

(* Where the background thread is: P are the groups it has passed.         *)
Passed(P, p) == (\E j \in 1 .. bg.slot : p = Slot(j)) \/ (\E v \in P : p = NextOf(v))

PtrInv(L, P) ==
    bg.pc \notin {"trim", "settle"} =>
       /\ P \subseteq L
       /\ bg.slot \in DOMAIN roots[root]
       /\ bg.ptr = Slot(bg.slot) \/ \E v \in P : bg.ptr = NextOf(v)
       /\ \A p \in Links(L) : Deref(p) \in P => p # bg.ptr /\ Passed(P, p)
       /\ bg.pc \in {"prepare", "merge"} =>
             Deref(bg.ptr) = IF bg.kind = "split" THEN bg.inter[1] ELSE bg.old[1]
       /\ bg.pc \in {"publish_next", "unlink_next", "replace", "free"} =>
             Deref(bg.ptr) = bg.new[1] /\ P \cap News = {}

NextInv ==
    bg.kind = "merge" /\ bg.pc \in {"prepare", "merge", "publish_next", "unlink_next"} =>
       /\ \/ bg.next_ptr = NextOf(bg.old[1])
          \/ bg.next_ptr = Slot(bg.slot + 1) /\ bg.slot + 1 \in DOMAIN roots[root]
       /\ bg.pc # "unlink_next" => Deref(bg.next_ptr) = bg.old[2]

ListInv(P) ==
    bg.pc = "list" =>
       /\ P = {bg.listed[i].group : i \in DOMAIN bg.listed}
       /\ \A i, j \in DOMAIN bg.listed : bg.listed[i].group = bg.listed[j].group => i = j
       /\ \A v \in P : group[v].next \in P \cup {NONE} \/ NextOf(v) = bg.ptr
       /\ \A j \in 1 .. bg.slot : roots[root][j].group \in P \cup {NONE} \/ Slot(j) = bg.ptr

(* No two groups share memory, but the old ones and those between.         *)
Own(L) == (L \cup News) \ (Olds \cup Inters)

ApartInv(L) ==
    /\ \A g, h \in Own(L) : g # h => Stored(g) \cap Stored(h) = {}
    /\ bg.pc # "delete" => \A g \in Own(L) : Stored(g) \cap Sources = {}
    /\ \A g \in Own(L) : Array(g) # Buffer(g)
    /\ \A g \in Inters : Stored(g) \subseteq Sources
    /\ \A g \in Olds \cup Inters, n \in News : group[g].buffer_temp # Array(n)
    /\ bg.pc = "prepare" /\ bg.kind = "split" =>
          /\ group[bg.inter[1]].buffer_temp # group[bg.inter[2]].buffer_temp
          /\ \A g \in Inters :
                /\ group[g].buffer_temp \notin Sources \cup {NONE}
                /\ \A h \in Own(L) : group[g].buffer_temp \notin Stored(h)

(* Pointers lead from the new arrays to the old records.                   *)
PointerInv ==
    \A s \in Stores : mem[s] # NONE => \A k \in Keys : mem[s][k].kind = "ptr" =>
       /\ bg.pc \in {"merge", "publish_next", "unlink_next", "replace"}
       /\ \E n \in News : s = Array(n)
       /\ mem[s][k].val \in Sources
       /\ mem[mem[s][k].val][k].kind \in {"val", "removed"}

WorkerFits(L, O, w) ==
    /\ pc[w] # "idle" => call[w] \in AllCalls
    /\ pc[w] \in {"has_temp", "is_frozen", "insert"} => Is(w, {"put"})
    /\ loc[w].root # NONE <=> pc[w] = "locate"
    /\ loc[w].group # NONE <=> pc[w] \notin {"idle", "locate"}
    /\ loc[w].store # NONE <=> pc[w] = "pointer"
    /\ pc[w] = "locate" =>
          \/ loc[w].root = root
          \/ bg.pc = "trim" /\ w \in waits /\ loc[w].root = 1 - root
    /\ loc[w].group # NONE =>
          loc[w].group \in IF w \in waits \/ bg.pc = "publish_next" THEN L \cup O ELSE L
    /\ loc[w].store # NONE =>
          /\ loc[w].store \in Sources
          /\ \/ bg.pc \in {"publish_next", "unlink_next", "replace"}
             \/ bg.pc = "free" /\ w \in waits

WorkerInv(L, O) == \A w \in Workers : WorkerFits(L, O, w)

Shape(L, O, P) ==
    /\ TypeOK /\ WorkInv /\ PlaceInv(L, O) /\ GroupInv(L, O) /\ ChainInv /\ SlotInv(L, O)
    /\ LinkInv(L) /\ PtrInv(L, P) /\ NextInv /\ ListInv(P) /\ ApartInv(L) /\ PointerInv
    /\ WorkerInv(L, O)

(* A process that was aborted stays as it was.                             *)
IndexInv ==
    \/ \E L, O, P \in SUBSET Groups : Shape(L, O, P)
    \/ At("aborted") /\ NothingInUseIsFreed

-----------------------------------------------------------------------------
(* Sets and sequences.                                                     *)

(* A set of numbers that is not empty has a least element.                 *)
LEMMA Least ==
    ASSUME NEW T, T \subseteq Nat, T # {}
    PROVE  \E x \in T : \A y \in T : x <= y
<1>1. IsWellFoundedOn(OpToRel(<, Nat), Nat)
  BY NatLessThanWellFounded
<1>2. \E x \in T : \A y \in T : ~(<<y, x>> \in OpToRel(<, Nat))
  BY <1>1, WFMin
<1>3. \A x, y \in Nat : ~(<<y, x>> \in OpToRel(<, Nat)) => x <= y
  BY DEF OpToRel
<1>4. QED  BY <1>2, <1>3

(* The least element of a set of numbers is in the set.                    *)
LEMMA SmallestIs ==
    ASSUME NEW T, T \subseteq Nat, T # {}
    PROVE  Smallest(T) \in T /\ \A y \in T : Smallest(T) <= y
<1>1. \E x \in T : \A y \in T : x <= y
  BY Least
<1> QED
  BY <1>1, Zenon DEF Smallest

(* Of a set with two elements the first and the second are different.      *)
LEMMA TwoOf ==
    ASSUME NEW T, T \subseteq Nat, AtLeastTwo(T)
    PROVE  First(T) \in T /\ Second(T) \in T /\ First(T) # Second(T)
<1>1. PICK x \in T, y \in T : x # y
  BY DEF AtLeastTwo
<1>2. First(T) \in T
  BY <1>1, SmallestIs DEF First
<1>3. T \ {First(T)} # {} /\ T \ {First(T)} \subseteq Nat
  <2>1. x # First(T) \/ y # First(T)
    BY <1>1
  <2>2. x \in T \ {First(T)} \/ y \in T \ {First(T)}
    BY <2>1
  <2> QED  BY <2>2
<1>4. Second(T) \in T \ {First(T)}
  BY <1>3, SmallestIs DEF Second
<1> QED
  BY <1>2, <1>4

(* A sequence is a function on 1 .. its length.                            *)
LEMMA SeqForm ==
    ASSUME NEW S
    PROVE  /\ \A s \in Seq(S) : s \in [1 .. Len(s) -> S] /\ Len(s) \in Nat /\ DOMAIN s = 1 .. Len(s)
           /\ \A n \in Nat : \A s \in [1 .. n -> S] : s \in Seq(S)
  OBVIOUS

(* What a sequence of none, one or two elements has.                       *)
LEMMA Ranges ==
    ASSUME NEW S, NEW s \in Seq(S)
    PROVE  /\ Range(s) \subseteq S
           /\ Len(s) = 0 => Range(s) = {}
           /\ Len(s) = 1 => s[1] \in S /\ Range(s) = {s[1]}
           /\ Len(s) = 2 => s[1] \in S /\ s[2] \in S /\ Range(s) = {s[1], s[2]}
<1>1. DOMAIN s = 1 .. Len(s) /\ \A i \in 1 .. Len(s) : s[i] \in S
  OBVIOUS
<1>2. Range(s) = {s[i] : i \in 1 .. Len(s)}
  BY <1>1 DEF Range
<1>3. Len(s) = 0 => 1 .. Len(s) = {}
  OBVIOUS
<1>4. Len(s) = 1 => 1 .. Len(s) = {1}
  OBVIOUS
<1>5. Len(s) = 2 => 1 .. Len(s) = {1, 2}
  OBVIOUS
<1> QED
  BY <1>1, <1>2, <1>3, <1>4, <1>5, Zenon

(* The sequences of none, one and two elements that are built here.        *)
LEMMA Singles ==
    ASSUME NEW S
    PROVE  /\ \A a \in S : <<a>> \in Seq(S) /\ Len(<<a>>) = 1 /\ <<a>>[1] = a /\ Range(<<a>>) = {a}
           /\ \A a, b \in S : /\ <<a, b>> \in Seq(S) /\ Len(<<a, b>>) = 2
                              /\ <<a, b>>[1] = a /\ <<a, b>>[2] = b /\ Range(<<a, b>>) = {a, b}
           /\ <<>> \in Seq(S) /\ Len(<<>>) = 0 /\ Range(<<>>) = {}
<1>1. ASSUME NEW a \in S
      PROVE  <<a>> \in Seq(S) /\ Len(<<a>>) = 1 /\ <<a>>[1] = a /\ Range(<<a>>) = {a}
  <2>1. <<a>> \in Seq(S) /\ Len(<<a>>) = 1 /\ <<a>>[1] = a
    OBVIOUS
  <2> QED  BY <2>1, Ranges
<1>2. ASSUME NEW a \in S, NEW b \in S
      PROVE  /\ <<a, b>> \in Seq(S) /\ Len(<<a, b>>) = 2
             /\ <<a, b>>[1] = a /\ <<a, b>>[2] = b /\ Range(<<a, b>>) = {a, b}
  <2>1. <<a, b>> \in Seq(S) /\ Len(<<a, b>>) = 2 /\ <<a, b>>[1] = a /\ <<a, b>>[2] = b
    OBVIOUS
  <2> QED  BY <2>1, Ranges
<1>3. <<>> \in Seq(S) /\ Len(<<>>) = 0 /\ Range(<<>>) = {}
  <2>1. <<>> \in Seq(S) /\ Len(<<>>) = 0
    OBVIOUS
  <2> QED  BY <2>1, Ranges
<1> QED
  BY <1>1, <1>2, <1>3

-----------------------------------------------------------------------------
(* What the types say.                                                     *)

(* A record is absent, removed, a value, or a pointer to a store.          *)
LEMMA RecordKinds ==
    ASSUME NEW r \in Records
    PROVE  /\ r.kind \in {"none", "removed", "val", "ptr"}
           /\ r.kind = "ptr" => r.val \in Stores
           /\ r.kind = "val" => r.val \in Values
  BY DEF Records, Absent, Removed

(* What the constructors of records make.                                  *)
LEMMA RecordMakers ==
    /\ Absent \in Records /\ Absent.kind = "none"
    /\ Removed \in Records /\ Removed.kind = "removed"
    /\ \A v \in Values : Val(v) \in Records /\ Val(v).kind = "val"
    /\ \A s \in Stores : Ptr(s) \in Records /\ Ptr(s).kind = "ptr" /\ Ptr(s).val = s
    /\ Empty \in [Keys -> Records] /\ \A k \in Keys : Empty[k] = Absent
  BY DEF Records, Absent, Removed, Val, Ptr, Empty

(* What the members of a group are.                                        *)
LEMMA GroupFields ==
    ASSUME NEW r \in GroupRecords
    PROVE  /\ r.pivot \in Keys /\ r.array \in Stores /\ r.buffer \in Stores
           /\ r.buffer_temp \in Stores \cup {NONE} /\ r.next \in Groups \cup {NONE}
           /\ r.buf_frozen \in BOOLEAN
  BY DEF GroupRecords

(* freeze_buffer changes a group's buf_frozen and nothing else.            *)
LEMMA FrozenFields ==
    ASSUME NEW r \in GroupRecords, NEW f \in BOOLEAN
    PROVE  /\ [r EXCEPT !.buf_frozen = f] \in GroupRecords
           /\ [r EXCEPT !.buf_frozen = f].pivot = r.pivot
           /\ [r EXCEPT !.buf_frozen = f].array = r.array
           /\ [r EXCEPT !.buf_frozen = f].buffer = r.buffer
           /\ [r EXCEPT !.buf_frozen = f].buffer_temp = r.buffer_temp
           /\ [r EXCEPT !.buf_frozen = f].buf_frozen = f
           /\ [r EXCEPT !.buf_frozen = f].next = r.next
  BY DEF GroupRecords

(* Installing buffer_temp changes a group's buffer_temp and nothing else.  *)
LEMMA TempFields ==
    ASSUME NEW r \in GroupRecords, NEW t \in Stores \cup {NONE}
    PROVE  /\ [r EXCEPT !.buffer_temp = t] \in GroupRecords
           /\ [r EXCEPT !.buffer_temp = t].pivot = r.pivot
           /\ [r EXCEPT !.buffer_temp = t].array = r.array
           /\ [r EXCEPT !.buffer_temp = t].buffer = r.buffer
           /\ [r EXCEPT !.buffer_temp = t].buffer_temp = t
           /\ [r EXCEPT !.buffer_temp = t].buf_frozen = r.buf_frozen
           /\ [r EXCEPT !.buffer_temp = t].next = r.next
  BY DEF GroupRecords

(* Storing a group's next changes its next and nothing else.               *)
LEMMA NextFields ==
    ASSUME NEW r \in GroupRecords, NEW n \in Groups \cup {NONE}
    PROVE  /\ [r EXCEPT !.next = n] \in GroupRecords
           /\ [r EXCEPT !.next = n].pivot = r.pivot
           /\ [r EXCEPT !.next = n].array = r.array
           /\ [r EXCEPT !.next = n].buffer = r.buffer
           /\ [r EXCEPT !.next = n].buffer_temp = r.buffer_temp
           /\ [r EXCEPT !.next = n].buf_frozen = r.buf_frozen
           /\ [r EXCEPT !.next = n].next = n
  BY DEF GroupRecords

(* Pointers to slots and to next fields are distinct.                      *)
LEMMA PointerMakers ==
    /\ \A i \in Nat : Slot(i) \in Pointer /\ Slot(i).at = "slot" /\ Slot(i).of = i
    /\ \A g \in Groups : NextOf(g) \in Pointer /\ NextOf(g).at = "next" /\ NextOf(g).of = g
    /\ \A i, j : Slot(i) = Slot(j) => i = j
    /\ \A g, h : NextOf(g) = NextOf(h) => g = h
    /\ \A i, g : Slot(i) # NextOf(g)
<1>1. \A i, j : Slot(i) = Slot(j) => i = j
  <2> TAKE i, j
  <2>1. Slot(i).of = i /\ Slot(j).of = j
    BY DEF Slot
  <2> QED  BY <2>1
<1>2. \A g, h : NextOf(g) = NextOf(h) => g = h
  <2> TAKE g, h
  <2>1. NextOf(g).of = g /\ NextOf(h).of = h
    BY DEF NextOf
  <2> QED  BY <2>1
<1>3. \A i, g : Slot(i) # NextOf(g)
  <2> TAKE i, g
  <2>1. Slot(i).at = "slot" /\ NextOf(g).at = "next"
    BY DEF Slot, NextOf
  <2> QED  BY <2>1
<1>4. /\ \A i \in Nat : Slot(i) \in Pointer /\ Slot(i).at = "slot" /\ Slot(i).of = i
      /\ \A g \in Groups : NextOf(g) \in Pointer /\ NextOf(g).at = "next" /\ NextOf(g).of = g
  BY DEF Pointer, Slot, NextOf
<1> QED
  BY <1>1, <1>2, <1>3, <1>4

(* The types of the background thread's locals.                            *)
LEMMA BgFields ==
    ASSUME NEW b \in BgLocals
    PROVE  /\ b.pc \in BgLabels /\ b.slot \in Nat /\ b.ptr \in Pointer
           /\ b.kind \in {"none", "split", "merge", "compact"}
           /\ b.old \in Seq(Groups) /\ b.inter \in Seq(Groups) /\ b.new \in Seq(Groups)
           /\ b.next_ptr \in Pointer \cup {NONE} /\ b.left \in SUBSET Keys
           /\ b.listed \in Seq([pivot : Keys, group : Groups])
           /\ b.should_update \in BOOLEAN /\ b.adjusted \in 0 .. MaxAdjustments
  BY DEF BgLocals

(* A worker's locals when it has a root, a group, or nothing.              *)
LEMMA LocalFields ==
    /\ NoLoc \in Locals /\ NoLoc.root = NONE /\ NoLoc.group = NONE /\ NoLoc.store = NONE
    /\ \A r \in Roots : /\ [NoLoc EXCEPT !.root = r] \in Locals
                        /\ [NoLoc EXCEPT !.root = r].root = r
                        /\ [NoLoc EXCEPT !.root = r].group = NONE
                        /\ [NoLoc EXCEPT !.root = r].store = NONE
    /\ \A g \in Groups : /\ [NoLoc EXCEPT !.group = g] \in Locals
                         /\ [NoLoc EXCEPT !.group = g].root = NONE
                         /\ [NoLoc EXCEPT !.group = g].group = g
                         /\ [NoLoc EXCEPT !.group = g].store = NONE
    /\ \A l \in Locals :
          /\ \A g \in Groups : /\ [l EXCEPT !.group = g] \in Locals
                               /\ [l EXCEPT !.group = g].root = l.root
                               /\ [l EXCEPT !.group = g].group = g
                               /\ [l EXCEPT !.group = g].store = l.store
          /\ \A s \in Stores \cup {NONE} : /\ [l EXCEPT !.store = s] \in Locals
                                           /\ [l EXCEPT !.store = s].root = l.root
                                           /\ [l EXCEPT !.store = s].group = l.group
                                           /\ [l EXCEPT !.store = s].store = s
  BY DEF Locals, NoLoc

-----------------------------------------------------------------------------
(* Steps of the workers.                                                   *)

(* What a worker that holds a group can read.                              *)
LEMMA Held ==
    ASSUME NEW L \in SUBSET Groups, NEW O \in SUBSET Groups, NEW P \in SUBSET Groups,
           Shape(L, O, P), NEW w \in Workers, pc[w] \notin {"idle", "locate"}
    PROVE  /\ loc[w].group \in Groups /\ loc[w].group \in L \cup O
           /\ Mine(w) \in GroupRecords
           /\ Mine(w).array \in Stores /\ mem[Mine(w).array] \in [Keys -> Records]
           /\ Mine(w).buffer \in Stores /\ mem[Mine(w).buffer] \in [Keys -> Records]
           /\ Mine(w).buffer_temp # NONE =>
                 Mine(w).buffer_temp \in Stores /\ mem[Mine(w).buffer_temp] \in [Keys -> Records]
           /\ mem[Mine(w).array] # NONE /\ mem[Mine(w).buffer] # NONE
           /\ Mine(w).next \in Groups \cup {NONE}
           /\ call[w] \in AllCalls /\ Key(w) \in Keys
<1>1. WorkerFits(L, O, w) /\ TypeOK
  BY DEF Shape, WorkerInv
<1>2. loc[w].group \in L \cup O /\ call[w] \in AllCalls
  BY <1>1 DEF WorkerFits
<1>3. loc[w].group \in Groups
  BY <1>2
<1>4. /\ group[loc[w].group] # NONE
      /\ mem[Array(loc[w].group)] # NONE /\ mem[Buffer(loc[w].group)] # NONE
      /\ group[loc[w].group].buffer_temp # NONE => mem[group[loc[w].group].buffer_temp] # NONE
  BY <1>2 DEF Shape, GroupInv
<1>5. Mine(w) \in GroupRecords
  BY <1>1, <1>3, <1>4 DEF TypeOK, Mine
<1>6. /\ Mine(w).array \in Stores /\ Mine(w).buffer \in Stores
      /\ Mine(w).buffer_temp \in Stores \cup {NONE} /\ Mine(w).next \in Groups \cup {NONE}
  BY <1>5, GroupFields
<1>7. \A s \in Stores : mem[s] # NONE => mem[s] \in [Keys -> Records]
  BY <1>1 DEF TypeOK
<1>8. Key(w) \in Keys
  BY <1>2 DEF Key, AllCalls
<1> QED
  BY <1>2, <1>3, <1>4, <1>5, <1>6, <1>7, <1>8 DEF Mine, Array, Buffer

(* A worker changes its own variables, perhaps ends a wait for it, and     *)
(* leaves the groups alone.                                                *)
LEMMA WorkerMoves ==
    ASSUME NEW L \in SUBSET Groups, NEW O \in SUBSET Groups, NEW P \in SUBSET Groups,
           Shape(L, O, P), NEW w \in Workers,
           UNCHANGED <<group, roots, root, bg>>,
           waits' \in {waits, waits \ {w}},
           mem' \in [Stores -> [Keys -> Records] \cup {NONE}],
           \A s \in Stores : mem'[s] = NONE <=> mem[s] = NONE,
           PointerInv',
           \A v \in Workers : v # w => pc'[v] = pc[v] /\ call'[v] = call[v] /\ loc'[v] = loc[v],
           pc' \in [Workers -> Labels], call' \in [Workers -> AllCalls \cup {NoCall}],
           loc' \in [Workers -> Locals],
           result' \in [Workers -> {NoAnswer} \cup [ok : {TRUE}, value : Values \cup {NONE}]],
           WorkerFits(L, O, w)'
    PROVE  Shape(L, O, P)'
<1> USE DEF Shape
<1>1. TypeOK'
  BY DEF TypeOK
<1>2. WorkInv'
  BY DEF WorkInv, Adjusting
<1>3. PlaceInv(L, O)'
  <2>1. Retired' = Retired /\ Olds' = Olds /\ Inters' = Inters /\ News' = News
    BY DEF Retired, Olds, Inters, News
  <2> QED  BY <2>1 DEF PlaceInv
<1>4. GroupInv(L, O)'
  <2>1. Olds' = Olds /\ Inters' = Inters /\ News' = News
    BY DEF Olds, Inters, News
  <2>2. ASSUME NEW g \in L \cup O \cup News
        PROVE  (/\ group[g] # NONE
                /\ mem[Array(g)] # NONE /\ mem[Buffer(g)] # NONE
                /\ group[g].buffer_temp # NONE => mem[group[g].buffer_temp] # NONE
                /\ g \notin Olds \cup Inters => group[g].buffer_temp = NONE)'
    <3>1. /\ group[g] # NONE
          /\ mem[Array(g)] # NONE /\ mem[Buffer(g)] # NONE
          /\ group[g].buffer_temp # NONE => mem[group[g].buffer_temp] # NONE
          /\ g \notin Olds \cup Inters => group[g].buffer_temp = NONE
      BY DEF GroupInv
    <3>2. g \in Groups
      BY Ranges, BgFields DEF TypeOK, News
    <3>3. group[g] \in GroupRecords
      BY <3>1, <3>2 DEF TypeOK
    <3>4. Array(g) \in Stores /\ Buffer(g) \in Stores /\ group[g].buffer_temp \in Stores \cup {NONE}
      BY <3>3, GroupFields DEF Array, Buffer
    <3>5. Array(g)' = Array(g) /\ Buffer(g)' = Buffer(g)
      BY DEF Array, Buffer
    <3> QED  BY <2>1, <3>1, <3>4, <3>5
  <2> QED  BY <2>1, <2>2 DEF GroupInv
<1>5. ChainInv'
  BY DEF ChainInv, Adjusting
<1>6. SlotInv(L, O)'
  BY DEF SlotInv
<1>7. LinkInv(L)'
  BY DEF LinkInv, Links, Deref
<1>8. PtrInv(L, P)'
  <2>1. Links(L)' = Links(L) /\ News' = News
    BY DEF Links, News
  <2> QED  BY <2>1 DEF PtrInv, Passed, Deref
<1>9. NextInv'
  BY DEF NextInv, Deref
<1>10. ListInv(P)'
  BY DEF ListInv
<1>11. ApartInv(L)'
  <2>1. Own(L)' = Own(L) /\ Inters' = Inters /\ Olds' = Olds /\ News' = News
    BY DEF Own, News, Olds, Inters
  <2>2. Sources' = Sources /\ \A g : Stored(g)' = Stored(g) /\ Array(g)' = Array(g) /\ Buffer(g)' = Buffer(g)
    BY DEF Sources, Stored, Array, Buffer
  <2> QED  BY <2>1, <2>2 DEF ApartInv
<1>12. WorkerInv(L, O)'
  <2>1. ASSUME NEW v \in Workers, v # w
        PROVE  WorkerFits(L, O, v)'
    <3>1. WorkerFits(L, O, v)
      BY DEF WorkerInv
    <3>2. /\ pc'[v] = pc[v] /\ call'[v] = call[v] /\ loc'[v] = loc[v]
          /\ v \in waits' <=> v \in waits
      BY <2>1
    <3>3. Sources' = Sources
      BY DEF Sources, Array, Buffer
    <3> QED  BY <3>1, <3>2, <3>3 DEF WorkerFits, Is
  <2> QED  BY <2>1 DEF WorkerInv
<1> QED
  BY <1>1, <1>2, <1>3, <1>4, <1>5, <1>6, <1>7, <1>8, <1>9, <1>10, <1>11, <1>12

(* A worker sets a record that is no pointer.                              *)
LEMMA WriteKeeps ==
    ASSUME TypeOK, PointerInv, UNCHANGED <<group, bg>>,
           NEW s \in Stores, mem[s] # NONE, NEW k \in Keys, mem[s][k].kind # "ptr",
           NEW r \in Records, r.kind \in {"val", "removed"}, Overwrite(s, k, r)
    PROVE  /\ mem' \in [Stores -> [Keys -> Records] \cup {NONE}]
           /\ \A t \in Stores : mem'[t] = NONE <=> mem[t] = NONE
           /\ PointerInv'
<1>1. mem[s] \in [Keys -> Records]
  BY DEF TypeOK
<1>2. mem' = [mem EXCEPT ![s] = [mem[s] EXCEPT ![k] = r]]
  BY DEF Overwrite
<1>3. [mem[s] EXCEPT ![k] = r] \in [Keys -> Records]
  BY <1>1
<1>4. mem'[s] = [mem[s] EXCEPT ![k] = r] /\ mem'[s] # NONE
  BY <1>2, <1>3, NullAssumption DEF TypeOK
<1>5. \A t \in Stores : t # s => mem'[t] = mem[t]
  BY <1>2 DEF TypeOK
<1>6. mem' \in [Stores -> [Keys -> Records] \cup {NONE}]
  BY <1>2, <1>3 DEF TypeOK
<1>7. PointerInv'
  <2> SUFFICES ASSUME NEW t \in Stores, mem'[t] # NONE, NEW j \in Keys, mem'[t][j].kind = "ptr"
               PROVE  (/\ bg.pc \in {"merge", "publish_next", "unlink_next", "replace"}
                       /\ \E n \in News : t = Array(n)
                       /\ mem[t][j].val \in Sources
                       /\ mem[mem[t][j].val][j].kind \in {"val", "removed"})'
    BY DEF PointerInv
  <2>1. mem[t] # NONE /\ mem[t][j] = mem'[t][j]
    BY <1>1, <1>4, <1>5
  <2>2. /\ bg.pc \in {"merge", "publish_next", "unlink_next", "replace"}
        /\ \E n \in News : t = Array(n)
        /\ mem[t][j].val \in Sources
        /\ mem[mem[t][j].val][j].kind \in {"val", "removed"}
    BY <2>1 DEF PointerInv
  <2>3. Sources' = Sources /\ News' = News /\ \A n \in News : Array(n)' = Array(n)
    BY DEF Sources, News, Array, Buffer
  <2>4. mem[t][j].val \in Stores
    <3>1. mem[t][j] \in Records
      BY <2>1 DEF TypeOK
    <3> QED  BY <2>1, <3>1, RecordKinds
  <2>5. mem'[mem'[t][j].val][j].kind \in {"val", "removed"}
    <3>1. CASE mem[t][j].val = s /\ j = k
      BY <1>1, <1>4, <2>1, <3>1
    <3>2. CASE mem[t][j].val = s /\ j # k
      BY <1>1, <1>4, <2>1, <2>2, <3>2
    <3>3. CASE mem[t][j].val # s
      BY <1>5, <2>1, <2>2, <2>4, <3>3
    <3> QED  BY <3>1, <3>2, <3>3
  <2> QED  BY <2>1, <2>2, <2>3, <2>5
<1> QED
  BY <1>4, <1>5, <1>6, <1>7

(* The answers of a call.                                                  *)
Answers == {NoAnswer} \cup [ok : {TRUE}, value : Values \cup {NONE}]

(* What workers answer with.                                               *)
LEMMA AnswerIs ==
    /\ NoAnswer \in Answers
    /\ \A v \in Values \cup {NONE} : [ok |-> TRUE, value |-> v] \in Answers
  BY DEF Answers

(* A worker that goes on with its call in the same group.                  *)
LEMMA WorkerGoesOn ==
    ASSUME NEW L \in SUBSET Groups, NEW O \in SUBSET Groups, NEW P \in SUBSET Groups,
           Shape(L, O, P), NEW w \in Workers, pc[w] \notin {"idle", "locate", "pointer"},
           UNCHANGED <<group, roots, root, bg, waits, call, loc, result>>,
           mem' \in [Stores -> [Keys -> Records] \cup {NONE}],
           \A s \in Stores : mem'[s] = NONE <=> mem[s] = NONE,
           PointerInv',
           NEW l \in Labels \ {"idle", "locate", "pointer"}, Goto(w, l),
           l \in {"has_temp", "is_frozen", "insert"} => Is(w, {"put"})
    PROVE  Shape(L, O, P)'
<1>1. WorkerFits(L, O, w) /\ TypeOK
  BY DEF Shape, WorkerInv
<1>2. pc' \in [Workers -> Labels] /\ pc'[w] = l /\ \A v \in Workers : v # w => pc'[v] = pc[v]
  BY <1>1 DEF Goto, TypeOK
<1>3. WorkerFits(L, O, w)'
  <2>1. Sources' = Sources
    BY DEF Sources, Array, Buffer
  <2> QED  BY <1>1, <1>2, <2>1 DEF WorkerFits, Is
<1> QED
  BY <1>1, <1>2, <1>3, WorkerMoves DEF TypeOK

(* A worker whose call returns.                                            *)
LEMMA WorkerAnswers ==
    ASSUME NEW L \in SUBSET Groups, NEW O \in SUBSET Groups, NEW P \in SUBSET Groups,
           Shape(L, O, P), NEW w \in Workers,
           UNCHANGED <<mem, group, roots, root, bg, waits>>,
           NEW a \in Answers, Answer(w, a)
    PROVE  Shape(L, O, P)'
<1>1. TypeOK /\ PointerInv
  BY DEF Shape
<1>2. pc' \in [Workers -> Labels] /\ pc'[w] = "idle" /\ \A v \in Workers : v # w => pc'[v] = pc[v]
  BY <1>1 DEF Answer, Goto, TypeOK, Labels
<1>3. call' \in [Workers -> AllCalls \cup {NoCall}] /\ \A v \in Workers : v # w => call'[v] = call[v]
  BY <1>1 DEF Answer, TypeOK
<1>4. /\ loc' \in [Workers -> Locals] /\ \A v \in Workers : v # w => loc'[v] = loc[v]
      /\ loc'[w] = NoLoc
  BY <1>1, LocalFields DEF Answer, TypeOK
<1>5. result' \in [Workers -> Answers]
  BY <1>1 DEF Answer, TypeOK, Answers
<1>6. WorkerFits(L, O, w)'
  BY <1>2, <1>4, LocalFields, Zenon DEF WorkerFits
<1>7. PointerInv'
  BY <1>1 DEF PointerInv, Sources, News, Array, Buffer
<1> QED
  BY <1>1, <1>2, <1>3, <1>4, <1>5, <1>6, <1>7, WorkerMoves, ZenonT(30) DEF TypeOK, Answers

(* Where no store changes, pointers lead where they led.                   *)
LEMMA PointersStay ==
    ASSUME PointerInv, UNCHANGED <<mem, group, bg>>
    PROVE  PointerInv'
  BY DEF PointerInv, Sources, News, Array, Buffer

(* rcu_progress: the worker begins a call, or begins it again.             *)
LEMMA WorkerProgress ==
    ASSUME NEW L \in SUBSET Groups, NEW O \in SUBSET Groups, NEW P \in SUBSET Groups,
           Shape(L, O, P), NEW w \in Workers, Progress(w),
           UNCHANGED <<mem, group, roots, root, bg>>,
           call' \in [Workers -> AllCalls \cup {NoCall}], call'[w] \in AllCalls,
           \A v \in Workers : v # w => call'[v] = call[v],
           result' \in [Workers -> Answers]
    PROVE  Shape(L, O, P)'
<1>1. TypeOK /\ PointerInv
  BY DEF Shape
<1>2. pc' \in [Workers -> Labels] /\ pc'[w] = "locate" /\ \A v \in Workers : v # w => pc'[v] = pc[v]
  BY <1>1 DEF Progress, Goto, TypeOK, Labels
<1>3. root \in Roots /\ root # NONE
  BY <1>1, NullAssumption DEF TypeOK
<1>4. /\ loc' \in [Workers -> Locals] /\ \A v \in Workers : v # w => loc'[v] = loc[v]
      /\ loc'[w].root = root /\ loc'[w].group = NONE /\ loc'[w].store = NONE
  <2>1. loc' = [loc EXCEPT ![w] = [NoLoc EXCEPT !.root = root]]
    BY DEF Progress
  <2>2. [NoLoc EXCEPT !.root = root] \in Locals
    BY <1>3, LocalFields, Zenon
  <2>3. loc' \in [Workers -> Locals] /\ loc'[w] = [NoLoc EXCEPT !.root = root]
        /\ \A v \in Workers : v # w => loc'[v] = loc[v]
    BY <1>1, <2>1, <2>2 DEF TypeOK
  <2> QED  BY <1>3, <2>3, LocalFields
<1>5. WorkerFits(L, O, w)'
  BY <1>2, <1>3, <1>4 DEF WorkerFits
<1>6. PointerInv'
  BY <1>1, PointersStay
<1>7. waits' \in {waits, waits \ {w}}
  BY DEF Progress
<1> QED
  BY <1>1, <1>2, <1>4, <1>5, <1>6, <1>7, WorkerMoves DEF TypeOK, Answers

(* The old groups are there, with their stores, and a record a worker can  *)
(* change in place is no pointer.                                          *)
LEMMA OldsStay ==
    ASSUME NEW L \in SUBSET Groups, NEW O \in SUBSET Groups, NEW P \in SUBSET Groups,
           Shape(L, O, P)
    PROVE  /\ Olds \subseteq L \cup O /\ Olds \subseteq Groups
           /\ Sources \subseteq Stores /\ \A s \in Sources : mem[s] # NONE
<1> USE DEF Shape
<1>1. bg \in BgLocals
  BY DEF TypeOK
<1>2. bg.pc \in {"visit", "list", "trim", "settle", "aborted"} => Olds = {}
  BY <1>1, BgFields, Ranges DEF WorkInv, Olds
<1>3. bg.pc \in BgLabels
  BY <1>1, BgFields
<1>4. bg.pc \in {"delete", "publish_next", "unlink_next", "replace", "free"} => Olds \subseteq O
  BY DEF PlaceInv, Retired
<1>5. bg.pc \in {"prepare", "merge"} => Olds \subseteq L \cup O
  BY DEF PlaceInv, Retired
<1>6. Olds \subseteq L \cup O
  BY <1>2, <1>3, <1>4, <1>5 DEF BgLabels
<1>7. ASSUME NEW g \in Olds
      PROVE  /\ Array(g) \in Stores /\ mem[Array(g)] # NONE
             /\ Buffer(g) \in Stores /\ mem[Buffer(g)] # NONE
  <2>1. group[g] # NONE /\ mem[Array(g)] # NONE /\ mem[Buffer(g)] # NONE
    BY <1>6 DEF GroupInv
  <2>2. group[g] \in GroupRecords
    BY <1>6, <2>1 DEF TypeOK
  <2> QED  BY <2>1, <2>2, GroupFields DEF Array, Buffer
<1>8. ASSUME NEW s \in Sources
      PROVE  s \in Stores /\ mem[s] # NONE
  <2>1. PICK g \in Olds : s \in {Array(g), Buffer(g)}
    BY DEF Sources, Olds
  <2> QED  BY <1>7, <2>1
<1> QED
  BY <1>6, <1>8

(* No buffer has pointers, and no array that is being merged has any.      *)
LEMMA InPlace ==
    ASSUME NEW L \in SUBSET Groups, NEW O \in SUBSET Groups, NEW P \in SUBSET Groups,
           Shape(L, O, P), NEW g \in L \cup O, NEW k \in Keys
    PROVE  /\ mem[Buffer(g)][k].kind # "ptr"
           /\ group[g].buffer_temp # NONE => mem[group[g].buffer_temp][k].kind # "ptr"
           /\ mem[Array(g)][k].kind = "ptr" => bg.pc # "merge"
<1> USE DEF Shape
<1>1. /\ group[g] # NONE /\ mem[Array(g)] # NONE /\ mem[Buffer(g)] # NONE
      /\ group[g].buffer_temp # NONE => mem[group[g].buffer_temp] # NONE
      /\ g \notin Olds \cup Inters => group[g].buffer_temp = NONE
  BY DEF GroupInv
<1>2. group[g] \in GroupRecords
  BY <1>1 DEF TypeOK
<1>3. Array(g) \in Stores /\ Buffer(g) \in Stores /\ group[g].buffer_temp \in Stores \cup {NONE}
  BY <1>2, GroupFields DEF Array, Buffer
<1>4. ASSUME NEW s \in Stores, mem[s] # NONE, mem[s][k].kind = "ptr"
      PROVE  \E n \in News : s = Array(n) /\ n \in Own(L) /\ n \notin Olds \cup Inters /\ bg.pc # "delete"
  <2>1. /\ bg.pc \in {"merge", "publish_next", "unlink_next", "replace"}
        /\ \E n \in News : s = Array(n)
    BY <1>4 DEF PointerInv
  <2>2. PICK n \in News : s = Array(n)
    BY <2>1
  <2>3. n \notin Olds \cup Inters
    <3>1. CASE bg.pc = "merge"
      <4>1. Olds \subseteq L \cup O
        BY OldsStay
      <4>2. Inters \subseteq L
        <5>1. CASE bg.kind = "split"
          BY <3>1, <5>1 DEF PlaceInv
        <5>2. CASE bg.kind # "split"
          <6>1. Inters = {}
            BY <3>1, <5>2, BgFields, Ranges DEF TypeOK, WorkInv, Adjusting, Inters
          <6> QED  BY <6>1
        <5> QED  BY <5>1, <5>2
      <4> QED  BY <3>1, <4>1, <4>2 DEF PlaceInv
    <3>2. CASE bg.pc # "merge"
      <4>1. News \subseteq L /\ L \cap O = {} /\ O = Retired
        BY <2>1, <3>2 DEF PlaceInv
      <4>2. CASE bg.pc # "publish_next"
        BY <2>1, <3>2, <4>1, <4>2 DEF Retired
      <4>3. CASE bg.pc = "publish_next"
        <5>1. Inters = {}
          BY <4>3, BgFields, Ranges DEF TypeOK, WorkInv, Adjusting, Inters
        <5> QED  BY <4>1, <4>3, <5>1 DEF Retired
      <4> QED  BY <4>2, <4>3
    <3> QED  BY <3>1, <3>2
  <2> QED
    BY <2>1, <2>2, <2>3 DEF Own
<1>5. ASSUME mem[Buffer(g)][k].kind = "ptr" PROVE FALSE
  <2>1. PICK n \in News : Buffer(g) = Array(n) /\ n \in Own(L) /\ bg.pc # "delete"
    BY <1>1, <1>3, <1>4, <1>5
  <2>2. CASE g \in Own(L)
    BY <2>1, <2>2 DEF ApartInv, Stored
  <2>3. CASE g \in Olds
    BY <2>1, <2>3 DEF ApartInv, Stored, Sources, Olds
  <2>4. CASE g \in Inters
    BY <2>1, <2>4 DEF ApartInv, Stored
  <2>5. CASE g \in O \ (Olds \cup Inters)
    <3>1. bg.pc = "trim"
      BY <2>5 DEF PlaceInv, Retired
    <3> QED  BY <1>1, <1>3, <1>5, <3>1 DEF PointerInv
  <2> QED  BY <2>2, <2>3, <2>4, <2>5 DEF Own
<1>6. ASSUME group[g].buffer_temp # NONE, mem[group[g].buffer_temp][k].kind = "ptr" PROVE FALSE
  <2>1. PICK n \in News : group[g].buffer_temp = Array(n)
    BY <1>1, <1>3, <1>4, <1>6
  <2>2. g \in Olds \cup Inters
    BY <1>1, <1>6
  <2> QED  BY <2>1, <2>2 DEF ApartInv
<1>7. ASSUME mem[Array(g)][k].kind = "ptr", bg.pc = "merge" PROVE FALSE
  <2>1. PICK n \in News : Array(g) = Array(n) /\ n \in Own(L) /\ bg.pc # "delete"
    BY <1>1, <1>3, <1>4, <1>7
  <2>2. CASE g \in Own(L)
    <3>1. g # n
      BY <1>7 DEF PlaceInv
    <3> QED  BY <2>1, <2>2, <3>1 DEF ApartInv, Stored
  <2>3. CASE g \in Olds
    BY <2>1, <2>3 DEF ApartInv, Stored, Sources, Olds
  <2>4. CASE g \in Inters
    BY <2>1, <2>4 DEF ApartInv, Stored
  <2>5. g \notin O \ (Olds \cup Inters)
    BY <1>7 DEF PlaceInv, Retired
  <2> QED  BY <2>2, <2>3, <2>4, <2>5 DEF Own
<1> QED
  BY <1>5, <1>6, <1>7

(* A put or a remove sets a record of an allocated store that is no        *)
(* pointer, or does without.                                               *)
LEMMA WorkerWrites ==
    ASSUME NEW L \in SUBSET Groups, NEW O \in SUBSET Groups, NEW P \in SUBSET Groups,
           Shape(L, O, P), NEW w \in Workers, pc[w] \notin {"idle", "locate", "pointer"},
           UNCHANGED <<bg, waits, call, loc, result>>,
           NEW s \in Stores, mem[s] # NONE, mem[s][Key(w)].kind # "ptr", Write(w, s)
    PROVE  Shape(L, O, P)'
<1>1. TypeOK /\ PointerInv
  BY DEF Shape
<1>2. call[w] \in AllCalls /\ Key(w) \in Keys
  BY Held
<1>3. NewRecord(w) \in Records /\ NewRecord(w).kind \in {"val", "removed"}
  BY <1>2, RecordMakers DEF NewRecord, AllCalls
<1>4. UNCHANGED <<group, roots, root>> /\ Overwrite(s, Key(w), NewRecord(w)) /\ Goto(w, "return")
  BY DEF Write
<1>5. /\ mem' \in [Stores -> [Keys -> Records] \cup {NONE}]
      /\ \A t \in Stores : mem'[t] = NONE <=> mem[t] = NONE
      /\ PointerInv'
  BY <1>1, <1>2, <1>3, <1>4, WriteKeeps
<1>6. "return" \in Labels \ {"idle", "locate", "pointer"}
  BY DEF Labels
<1> QED
  BY <1>4, <1>5, <1>6, WorkerGoesOn

(* A worker that reads and goes on in the group it holds.                  *)
LEMMA WorkerReads ==
    ASSUME NEW L \in SUBSET Groups, NEW O \in SUBSET Groups, NEW P \in SUBSET Groups,
           Shape(L, O, P), NEW w \in Workers, pc[w] \notin {"idle", "locate", "pointer"},
           UNCHANGED <<mem, group, roots, root, bg, waits, call, loc, result>>,
           NEW l \in Labels \ {"idle", "locate", "pointer"}, Goto(w, l),
           l \in {"has_temp", "is_frozen", "insert"} => Is(w, {"put"})
    PROVE  Shape(L, O, P)'
<1>1. TypeOK /\ PointerInv
  BY DEF Shape
<1>2. PointerInv'
  BY <1>1, PointersStay
<1> QED
  BY <1>1, <1>2, WorkerGoesOn DEF TypeOK

(* A worker that begins a call.                                            *)
LEMMA BeginKeeps ==
    ASSUME NEW L \in SUBSET Groups, NEW O \in SUBSET Groups, NEW P \in SUBSET Groups,
           Shape(L, O, P), NEW w \in Workers, Begin(w)
    PROVE  Shape(L, O, P)'
<1>1. TypeOK
  BY DEF Shape
<1>2. PICK c \in Calls(w) : call' = [call EXCEPT ![w] = c]
  BY DEF Begin
<1>3. c \in AllCalls
  BY XIndexAssumption
<1>4. /\ call' \in [Workers -> AllCalls \cup {NoCall}] /\ call'[w] \in AllCalls
      /\ \A v \in Workers : v # w => call'[v] = call[v]
  BY <1>1, <1>2, <1>3 DEF TypeOK
<1>5. result' \in [Workers -> Answers]
  BY <1>1, AnswerIs DEF Begin, TypeOK, Answers
<1>6. UNCHANGED <<mem, group, roots, root, bg>> /\ Progress(w)
  BY DEF Begin, memVars
<1> QED
  BY <1>4, <1>5, <1>6, WorkerProgress

(* A worker that finds its group in the root it loaded.                    *)
LEMMA LocateKeeps ==
    ASSUME NEW L \in SUBSET Groups, NEW O \in SUBSET Groups, NEW P \in SUBSET Groups,
           Shape(L, O, P), NEW w \in Workers, Locate(w)
    PROVE  Shape(L, O, P)'
<1>1. TypeOK /\ PointerInv /\ WorkerFits(L, O, w) /\ SlotInv(L, O) /\ PlaceInv(L, O)
  BY DEF Shape, WorkerInv
<1>2. UNCHANGED <<mem, group, roots, root, bg, waits, call, result>> /\ Goto(w, "walk")
  BY DEF Locate, memVars
<1>3. PICK j \in SlotsOf(roots[loc[w].root], Key(w)) :
         loc' = [loc EXCEPT ![w] = [NoLoc EXCEPT !.group = roots[loc[w].root][j].group]]
  BY DEF Locate
<1> DEFINE g == roots[loc[w].root][j].group
<1>4. j \in DOMAIN roots[loc[w].root] /\ g # NONE
  BY <1>3 DEF SlotsOf
<1>5. /\ \/ loc[w].root = root
         \/ bg.pc = "trim" /\ w \in waits /\ loc[w].root = 1 - root
      /\ call[w] \in AllCalls
  BY <1>1 DEF WorkerFits, Locate
<1>6. g \in L \cup O /\ (w \in waits \/ bg.pc = "publish_next" \/ g \in L)
  <2>1. CASE loc[w].root = root
    <3>1. \/ g \in L \cup {NONE}
          \/ bg.pc = "publish_next" /\ g = bg.old[2]
      BY <1>1, <1>4, <2>1 DEF SlotInv
    <3>2. CASE g \in L
      BY <3>2
    <3>3. CASE bg.pc = "publish_next" /\ g = bg.old[2]
      <4>1. bg \in BgLocals
        BY <1>1 DEF TypeOK
      <4>2. bg.old \in Seq(Groups) /\ Len(bg.old) = 2
        BY <3>3, <4>1, BgFields DEF Shape, WorkInv, Adjusting
      <4>3. g \in Olds
        BY <3>3, <4>2, Ranges DEF Olds
      <4>4. Olds \subseteq O
        BY <1>1, <3>3 DEF PlaceInv, Retired
      <4> QED  BY <3>3, <4>3, <4>4
    <3> QED  BY <1>4, <3>1, <3>2, <3>3
  <2>2. CASE bg.pc = "trim" /\ w \in waits /\ loc[w].root = 1 - root
    <3>1. g \in L \cup O \cup {NONE}
      BY <1>1, <1>4, <2>2 DEF SlotInv
    <3> QED  BY <1>4, <2>2, <3>1
  <2> QED  BY <1>5, <2>1, <2>2
<1>7. g \in Groups
  BY <1>6
<1> HIDE DEF g
<1>8. /\ loc' \in [Workers -> Locals] /\ \A v \in Workers : v # w => loc'[v] = loc[v]
      /\ loc'[w].root = NONE /\ loc'[w].group = g /\ loc'[w].store = NONE
  <2>1. loc' = [loc EXCEPT ![w] = [NoLoc EXCEPT !.group = g]]
    BY <1>3 DEF g
  <2>2. [NoLoc EXCEPT !.group = g] \in Locals
    BY <1>7, LocalFields, Zenon
  <2>3. loc' \in [Workers -> Locals] /\ loc'[w] = [NoLoc EXCEPT !.group = g]
        /\ \A v \in Workers : v # w => loc'[v] = loc[v]
    BY <1>1, <2>1, <2>2 DEF TypeOK
  <2> QED  BY <1>7, <2>3, LocalFields
<1>9. pc' \in [Workers -> Labels] /\ pc'[w] = "walk" /\ \A v \in Workers : v # w => pc'[v] = pc[v]
  BY <1>1, <1>2 DEF Goto, TypeOK, Labels
<1>10. g # NONE
  BY <1>4 DEF g
<1>11. WorkerFits(L, O, w)'
  BY <1>2, <1>5, <1>6, <1>8, <1>9, <1>10 DEF WorkerFits
<1>12. PointerInv'
  BY <1>1, <1>2, PointersStay
<1> QED
  BY <1>1, <1>2, <1>8, <1>9, <1>11, <1>12, WorkerMoves DEF TypeOK

(* A worker that follows next to a later group.                            *)
LEMMA WalkKeeps ==
    ASSUME NEW L \in SUBSET Groups, NEW O \in SUBSET Groups, NEW P \in SUBSET Groups,
           Shape(L, O, P), NEW w \in Workers, Walk(w)
    PROVE  Shape(L, O, P)'
<1>1. TypeOK /\ PointerInv /\ WorkerFits(L, O, w) /\ GroupInv(L, O)
  BY DEF Shape, WorkerInv
<1>2. UNCHANGED <<mem, group, roots, root, bg, waits, call, result>> /\ pc[w] = "walk"
  BY DEF Walk, memVars
<1>3. Mine(w).next \in Groups \cup {NONE} /\ loc[w].group \in Groups
  BY <1>2, Held
<1>4. CASE Goto(w, "array") /\ UNCHANGED loc
  <2>2. "array" \in Labels \ {"idle", "locate", "pointer"}
    BY DEF Labels
  <2> QED  BY <1>2, <1>4, <2>2, WorkerReads
<1>5. CASE /\ Mine(w).next # NONE
           /\ loc' = [loc EXCEPT ![w].group = Mine(w).next]
           /\ UNCHANGED pc
  <2> DEFINE g == Mine(w).next
  <2>1. g \in Groups
    BY <1>3, <1>5
  <2>2. /\ loc' \in [Workers -> Locals] /\ \A v \in Workers : v # w => loc'[v] = loc[v]
        /\ loc'[w].root = loc[w].root /\ loc'[w].group = g /\ loc'[w].store = loc[w].store
    <3> HIDE DEF g
    <3>1. loc' = [loc EXCEPT ![w] = [loc[w] EXCEPT !.group = g]]
      BY <1>5 DEF g
    <3>2. loc[w] \in Locals
      BY <1>1 DEF TypeOK
    <3>3. [loc[w] EXCEPT !.group = g] \in Locals
      BY <2>1, <3>2, LocalFields, Zenon
    <3>4. loc' \in [Workers -> Locals] /\ loc'[w] = [loc[w] EXCEPT !.group = g]
          /\ \A v \in Workers : v # w => loc'[v] = loc[v]
      BY <1>1, <3>1, <3>3 DEF TypeOK
    <3> QED  BY <2>1, <3>2, <3>4, LocalFields
  <2>3. g \in L \cup O /\ (loc[w].group \in L => g \in L)
    BY <1>1, <1>2, <1>5 DEF GroupInv, WorkerFits, Mine
  <2>4. WorkerFits(L, O, w)'
    <3>1. Sources' = Sources
      BY <1>2 DEF Sources, Array, Buffer
    <3> HIDE DEF g
    <3> QED  BY <1>1, <1>2, <1>5, <2>1, <2>2, <2>3, <3>1, XIndexAssumption DEF WorkerFits, Is
  <2>5. PointerInv'
    BY <1>1, <1>2, PointersStay
  <2> QED
    BY <1>1, <1>2, <1>5, <2>2, <2>4, <2>5, WorkerMoves DEF TypeOK
<1> QED
  BY <1>4, <1>5 DEF Walk

(* The four places where get looks for a record.                           *)
LEMMA GetKeeps ==
    ASSUME NEW L \in SUBSET Groups, NEW O \in SUBSET Groups, NEW P \in SUBSET Groups,
           Shape(L, O, P), NEW w \in Workers,
           GetArray(w) \/ GetPointer(w) \/ GetBuffer(w) \/ GetTemp(w)
    PROVE  Shape(L, O, P)'
<1>1. TypeOK /\ PointerInv /\ WorkerFits(L, O, w)
  BY DEF Shape, WorkerInv
<1>2. UNCHANGED <<mem, group, roots, root, bg, waits>> /\ pc[w] \notin {"idle", "locate"}
  BY DEF GetArray, GetPointer, GetBuffer, GetTemp, memVars
<1>3. ASSUME NEW r \in Records, Found(w, r)
      PROVE  Shape(L, O, P)'
  <2>1. [ok |-> TRUE, value |-> r.val] \in Answers
    BY <1>3, RecordKinds, AnswerIs DEF Found
  <2>2. Answer(w, [ok |-> TRUE, value |-> r.val])
    BY <1>3 DEF Found
  <2> QED  BY <1>2, <2>1, <2>2, WorkerAnswers
<1>4. /\ Key(w) \in Keys /\ loc[w].group \in Groups /\ loc[w].group \in L \cup O
      /\ mem[Mine(w).array] \in [Keys -> Records] /\ mem[Mine(w).buffer] \in [Keys -> Records]
      /\ Mine(w).buffer_temp # NONE => mem[Mine(w).buffer_temp] \in [Keys -> Records]
      /\ Mine(w).array \in Stores /\ mem[Mine(w).array] # NONE
  BY <1>2, Held
<1>5. CASE GetArray(w)
  <2> DEFINE r == mem[Mine(w).array][Key(w)]
  <2>1. r \in Records
    BY <1>4
  <2> HIDE DEF r
  <2>2. CASE r.kind \in {"none", "removed"} /\ Goto(w, "buffer") /\ UNCHANGED <<call, loc, result>>
    <3>1. "buffer" \in Labels \ {"idle", "locate", "pointer"} /\ pc[w] = "array"
      BY <1>5 DEF Labels, GetArray
    <3> QED  BY <1>2, <2>2, <3>1, WorkerReads
  <2>3. CASE /\ r.kind = "ptr" /\ loc' = [loc EXCEPT ![w].store = r.val] /\ Goto(w, "pointer")
             /\ UNCHANGED <<call, result>>
    <3>1. /\ bg.pc \in {"merge", "publish_next", "unlink_next", "replace"} /\ r.val \in Sources
          /\ r.val \in Stores /\ r.val # NONE
      BY <1>1, <1>4, <2>1, <2>3, RecordKinds, XIndexAssumption DEF r, PointerInv
    <3>2. bg.pc # "merge"
      BY <1>4, <2>3, InPlace DEF r, Array, Mine
    <3>3. /\ loc' \in [Workers -> Locals] /\ \A v \in Workers : v # w => loc'[v] = loc[v]
          /\ loc'[w].root = loc[w].root /\ loc'[w].group = loc[w].group /\ loc'[w].store = r.val
      <4>1. loc' = [loc EXCEPT ![w] = [loc[w] EXCEPT !.store = r.val]]
        BY <2>3
      <4>2. loc[w] \in Locals
        BY <1>1 DEF TypeOK
      <4>3. [loc[w] EXCEPT !.store = r.val] \in Locals
        BY <3>1, <4>2, LocalFields, Zenon
      <4>4. loc' \in [Workers -> Locals] /\ loc'[w] = [loc[w] EXCEPT !.store = r.val]
            /\ \A v \in Workers : v # w => loc'[v] = loc[v]
        BY <1>1, <4>1, <4>3 DEF TypeOK
      <4> QED  BY <3>1, <4>2, <4>4, LocalFields
    <3>4. pc' \in [Workers -> Labels] /\ pc'[w] = "pointer" /\ \A v \in Workers : v # w => pc'[v] = pc[v]
      BY <1>1, <2>3 DEF Goto, TypeOK, Labels
    <3>5. WorkerFits(L, O, w)'
      <4>1. Sources' = Sources
        BY <1>2 DEF Sources, Array, Buffer
      <4>2. pc[w] = "array"
        BY <1>5 DEF GetArray
      <4> QED  BY <1>1, <1>2, <2>3, <3>1, <3>2, <3>3, <3>4, <4>1, <4>2 DEF WorkerFits
    <3>6. PointerInv'
      BY <1>1, <1>2, PointersStay
    <3> QED
      BY <1>1, <1>2, <2>3, <3>3, <3>4, <3>5, <3>6, WorkerMoves DEF TypeOK
  <2> QED
    BY <1>3, <1>5, <2>1, <2>2, <2>3 DEF GetArray, r
<1>6. CASE GetPointer(w)
  <2>1. loc[w].store \in Sources /\ loc[w].store \in Stores /\ mem[loc[w].store] # NONE
    BY <1>1, <1>6, OldsStay DEF GetPointer, WorkerFits
  <2> DEFINE r == mem[loc[w].store][Key(w)]
  <2>2. r \in Records
    BY <1>1, <1>4, <2>1 DEF TypeOK
  <2> HIDE DEF r
  <2>3. CASE /\ loc' = [loc EXCEPT ![w].store = NONE] /\ Goto(w, "buffer")
             /\ UNCHANGED <<call, result>>
    <3>1. /\ loc' \in [Workers -> Locals] /\ \A v \in Workers : v # w => loc'[v] = loc[v]
          /\ loc'[w].root = loc[w].root /\ loc'[w].group = loc[w].group /\ loc'[w].store = NONE
      <4>1. loc' = [loc EXCEPT ![w] = [loc[w] EXCEPT !.store = NONE]]
        BY <2>3
      <4>2. loc[w] \in Locals
        BY <1>1 DEF TypeOK
      <4>3. [loc[w] EXCEPT !.store = NONE] \in Locals
        BY <4>2, LocalFields, Zenon
      <4>4. loc' \in [Workers -> Locals] /\ loc'[w] = [loc[w] EXCEPT !.store = NONE]
            /\ \A v \in Workers : v # w => loc'[v] = loc[v]
        BY <1>1, <4>1, <4>3 DEF TypeOK
      <4> QED  BY <4>2, <4>4, LocalFields
    <3>2. pc' \in [Workers -> Labels] /\ pc'[w] = "buffer" /\ \A v \in Workers : v # w => pc'[v] = pc[v]
      BY <1>1, <2>3 DEF Goto, TypeOK, Labels
    <3>3. WorkerFits(L, O, w)'
      <4>1. pc[w] = "pointer"
        BY <1>6 DEF GetPointer
      <4> QED  BY <1>1, <1>2, <2>3, <3>1, <3>2, <4>1 DEF WorkerFits
    <3>4. PointerInv'
      BY <1>1, <1>2, PointersStay
    <3> QED
      BY <1>1, <1>2, <2>3, <3>1, <3>2, <3>3, <3>4, WorkerMoves DEF TypeOK
  <2> QED
    BY <1>3, <1>6, <2>2, <2>3 DEF GetPointer, r
<1>7. CASE GetBuffer(w)
  <2>1. mem[Mine(w).buffer][Key(w)] \in Records
    BY <1>4
  <2>2. CASE Goto(w, "temp") /\ UNCHANGED <<call, loc, result>>
    <3>1. "temp" \in Labels \ {"idle", "locate", "pointer"} /\ pc[w] = "buffer"
      BY <1>7 DEF Labels, GetBuffer
    <3> QED  BY <1>2, <2>2, <3>1, WorkerReads
  <2> QED
    BY <1>3, <1>7, <2>1, <2>2 DEF GetBuffer
<1>8. CASE GetTemp(w)
  <2>1. CASE InTemp(w)
    <3>1. mem[Mine(w).buffer_temp][Key(w)] \in Records
      BY <1>4, <2>1 DEF InTemp
    <3> QED  BY <1>3, <1>8, <2>1, <3>1 DEF GetTemp
  <2>2. CASE ~InTemp(w)
    BY <1>2, <1>8, <2>2, AnswerIs, WorkerAnswers DEF GetTemp
  <2> QED  BY <2>1, <2>2
<1> QED
  BY <1>5, <1>6, <1>7, <1>8

(* A put or remove that finds its record in the array.                     *)
LEMMA WriteArrayKeeps ==
    ASSUME NEW L \in SUBSET Groups, NEW O \in SUBSET Groups, NEW P \in SUBSET Groups,
           Shape(L, O, P), NEW w \in Workers, WriteArray(w)
    PROVE  Shape(L, O, P)'
<1>1. TypeOK /\ PointerInv
  BY DEF Shape
<1>2. UNCHANGED <<bg, waits, call, loc, result>> /\ pc[w] = "array"
  BY DEF WriteArray
<1>3. /\ Key(w) \in Keys /\ mem[Mine(w).array] \in [Keys -> Records]
      /\ Mine(w).array \in Stores /\ mem[Mine(w).array] # NONE
  BY <1>2, Held
<1>4. CASE InArray(w)
  <2> DEFINE s == Target(Mine(w).array, Key(w))
             r == mem[Mine(w).array][Key(w)]
  <2>1. Write(w, s)
    BY <1>4 DEF WriteArray
  <2>2. mem[s][Key(w)].kind = "val"
    BY <1>4 DEF InArray, IsLive, Reads
  <2>3. s \in Stores /\ mem[s] # NONE
    <3>1. CASE r.kind = "ptr"
      <4>1. s = r.val
        BY <3>1 DEF Target
      <4>2. r.val \in Sources
        BY <1>1, <1>3, <3>1 DEF PointerInv
      <4> QED  BY <4>1, <4>2, OldsStay
    <3>2. CASE r.kind # "ptr"
      <4>1. s = Mine(w).array
        BY <3>2 DEF Target
      <4> QED  BY <1>3, <4>1
    <3> QED  BY <3>1, <3>2
  <2> HIDE DEF s
  <2> QED  BY <1>2, <2>1, <2>2, <2>3, WorkerWrites
<1>5. CASE ~InArray(w)
  <2> DEFINE l == IF Is(w, {"put"}) THEN "has_temp" ELSE "buffer"
  <2>1. Goto(w, l) /\ UNCHANGED memVars
    BY <1>5 DEF WriteArray
  <2>2. l \in Labels \ {"idle", "locate", "pointer"}
        /\ (l \in {"has_temp", "is_frozen", "insert"} => Is(w, {"put"}))
    BY DEF Labels
  <2> HIDE DEF l
  <2> QED  BY <1>2, <2>1, <2>2, WorkerReads DEF memVars
<1> QED
  BY <1>4, <1>5

(* A put or remove in the buffer or in buffer_temp.                        *)
LEMMA PutKeeps ==
    ASSUME NEW L \in SUBSET Groups, NEW O \in SUBSET Groups, NEW P \in SUBSET Groups,
           Shape(L, O, P), NEW w \in Workers,
           \/ WriteBuffer(w) \/ PutHasTemp(w) \/ PutIsFrozen(w) \/ PutRetry(w) \/ PutInsert(w)
           \/ PutTemp(w) \/ RemoveTemp(w)
    PROVE  Shape(L, O, P)'
<1>1. TypeOK /\ PointerInv /\ WorkerFits(L, O, w)
  BY DEF Shape, WorkerInv
<1>2. bg' = bg /\ pc[w] \notin {"idle", "locate", "pointer"}
  BY DEF WriteBuffer, PutHasTemp, PutIsFrozen, PutRetry, PutInsert, PutTemp, RemoveTemp
<1>3. /\ Key(w) \in Keys /\ call[w] \in AllCalls /\ loc[w].group \in L \cup O
      /\ Mine(w).buffer \in Stores /\ mem[Mine(w).buffer] # NONE
      /\ Mine(w).buffer_temp # NONE =>
            Mine(w).buffer_temp \in Stores /\ mem[Mine(w).buffer_temp] \in [Keys -> Records]
      /\ Mine(w).buffer_temp \in Stores \cup {NONE}
  BY <1>2, Held, GroupFields
<1>4. /\ mem[Mine(w).buffer][Key(w)].kind # "ptr"
      /\ Mine(w).buffer_temp # NONE => mem[Mine(w).buffer_temp][Key(w)].kind # "ptr"
  BY <1>3, InPlace, ZenonT(30) DEF Buffer, Mine
<1>5. ASSUME Write(w, Mine(w).buffer), UNCHANGED <<waits, call, loc, result>>
      PROVE  Shape(L, O, P)'
  BY <1>2, <1>3, <1>4, <1>5, WorkerWrites
<1>6. ASSUME Write(w, Mine(w).buffer_temp), UNCHANGED <<waits, call, loc, result>>
      PROVE  Shape(L, O, P)'
  <2>1. CASE Mine(w).buffer_temp # NONE
    <3>1. mem[Mine(w).buffer_temp] # NONE
      BY <1>3, <2>1, NullAssumption
    <3> QED  BY <1>2, <1>3, <1>4, <1>6, <2>1, <3>1, WorkerWrites
  <2>2. CASE Mine(w).buffer_temp = NONE
    <3>1. NONE \notin Stores
      BY XIndexAssumption
    <3>2. mem' = mem
      BY <1>1, <1>6, <2>2, <3>1 DEF Write, Overwrite, TypeOK
    <3>3. "return" \in Labels \ {"idle", "locate", "pointer"}
      BY DEF Labels
    <3> QED  BY <1>2, <1>6, <3>2, <3>3, WorkerReads DEF Write
  <2> QED  BY <2>1, <2>2
<1>7. ASSUME NEW l \in Labels \ {"idle", "locate", "pointer"}, Goto(w, l),
             l \in {"has_temp", "is_frozen", "insert"} => Is(w, {"put"}),
             UNCHANGED <<memVars, waits, call, loc, result>>
      PROVE  Shape(L, O, P)'
  BY <1>2, <1>7, WorkerReads DEF memVars
<1>8. {"temp", "buffer", "is_frozen", "insert"} \subseteq Labels \ {"idle", "locate", "pointer"}
  BY DEF Labels
<1>9. CASE WriteBuffer(w)
  BY <1>5, <1>7, <1>8, <1>9 DEF WriteBuffer
<1>10. CASE PutHasTemp(w)
  <2>1. Is(w, {"put"})
    BY <1>1, <1>10 DEF WorkerFits, PutHasTemp
  <2> QED  BY <1>7, <1>8, <1>10, <2>1 DEF PutHasTemp
<1>11. CASE PutIsFrozen(w)
  <2>1. Is(w, {"put"})
    BY <1>1, <1>11 DEF WorkerFits, PutIsFrozen
  <2> QED  BY <1>7, <1>8, <1>11, <2>1 DEF PutIsFrozen
<1>12. CASE PutRetry(w)
  BY <1>1, <1>2, <1>3, <1>12, WorkerProgress DEF PutRetry, memVars, TypeOK, Answers
<1>13. CASE PutInsert(w)
  BY <1>5, <1>13 DEF PutInsert
<1>14. CASE PutTemp(w)
  BY <1>6, <1>14 DEF PutTemp
<1>15. CASE RemoveTemp(w)
  <2>1. CASE InTemp(w)
    BY <1>6, <1>15, <2>1 DEF RemoveTemp
  <2>2. CASE ~InTemp(w)
    BY <1>2, <1>15, <2>2, AnswerIs, WorkerAnswers DEF RemoveTemp, memVars
  <2> QED  BY <2>1, <2>2
<1> QED
  BY <1>9, <1>10, <1>11, <1>12, <1>13, <1>14, <1>15

(* A worker that returns from a call.                                      *)
LEMMA ReturnKeeps ==
    ASSUME NEW L \in SUBSET Groups, NEW O \in SUBSET Groups, NEW P \in SUBSET Groups,
           Shape(L, O, P), NEW w \in Workers, Return(w)
    PROVE  Shape(L, O, P)'
<1>1. [ok |-> TRUE, value |-> NONE] \in Answers
  BY AnswerIs
<1> QED
  BY <1>1, WorkerAnswers DEF Return, memVars

(* No step of a worker breaks the shape.                                   *)
LEMMA WorkerKeeps ==
    ASSUME NEW L \in SUBSET Groups, NEW O \in SUBSET Groups, NEW P \in SUBSET Groups,
           Shape(L, O, P), NEW w \in Workers, Worker(w)
    PROVE  Shape(L, O, P)'
  BY BeginKeeps, LocateKeeps, WalkKeeps, ReturnKeeps, GetKeeps, WriteArrayKeeps, PutKeeps
     DEF Worker, Proceed

-----------------------------------------------------------------------------
(* Steps of the background thread from group to group.                     *)

(* Between adjustments there are no old groups and none is retired.        *)
LEMMA AtRest ==
    ASSUME NEW L \in SUBSET Groups, NEW O \in SUBSET Groups, NEW P \in SUBSET Groups,
           Shape(L, O, P), bg.pc \in {"visit", "list", "settle"}
    PROVE  /\ Olds = {} /\ Inters = {} /\ News = {} /\ O = {} /\ Sources = {}
           /\ Own(L) = L
<1>1. bg \in BgLocals /\ bg.old = <<>> /\ bg.inter = <<>> /\ bg.new = <<>>
  BY DEF Shape, TypeOK, WorkInv
<1>2. Olds = {} /\ Inters = {} /\ News = {}
  BY <1>1, Singles DEF Olds, Inters, News
<1>3. O = {}
  BY DEF Shape, PlaceInv, Retired
<1>4. Sources = {}
  BY <1>2 DEF Sources, Olds
<1> QED
  BY <1>2, <1>3, <1>4 DEF Own

(* A step of the background thread that only moves on among the groups.    *)
LEMMA BgWalks ==
    ASSUME NEW L \in SUBSET Groups, NEW O \in SUBSET Groups, NEW P \in SUBSET Groups,
           Shape(L, O, P), bg.pc \in {"visit", "list", "settle"},
           UNCHANGED <<mem, group, roots, root, pc, call, loc, result>>, waits' \subseteq Workers,
           bg' \in BgLocals, bg'.pc \in {"visit", "list", "settle"},
           bg'.old = <<>>, bg'.inter = <<>>, bg'.new = <<>>, bg'.pc # "list" => bg'.listed = <<>>,
           NEW P2 \in SUBSET Groups, PtrInv(L, P2)', ListInv(P2)'
    PROVE  Shape(L, O, P2)'
<1> USE DEF Shape
<1>1. Olds = {} /\ Inters = {} /\ News = {} /\ O = {} /\ Sources = {} /\ Own(L) = L
  BY AtRest
<1>2. Olds' = {} /\ Inters' = {} /\ News' = {}
  BY Singles DEF Olds, Inters, News
<1>3. Sources' = {} /\ Own(L)' = L
  BY <1>2 DEF Sources, Olds, Own
<1>4. TypeOK'
  BY DEF TypeOK
<1>5. WorkInv'
  BY DEF WorkInv, Adjusting
<1>6. PlaceInv(L, O)'
  BY <1>1 DEF PlaceInv, Retired
<1>7. GroupInv(L, O)'
  BY <1>1, <1>2 DEF GroupInv, Array, Buffer
<1>8. ChainInv'
  BY DEF ChainInv, Adjusting
<1>9. SlotInv(L, O)'
  BY DEF SlotInv
<1>10. LinkInv(L)'
  <2>1. Links(L)' = Links(L)
    BY DEF Links
  <2> QED  BY <2>1 DEF LinkInv, Deref
<1>11. NextInv'
  BY DEF NextInv
<1>12. ApartInv(L)'
  BY <1>1, <1>2, <1>3 DEF ApartInv, Stored, Array, Buffer
<1>13. PointerInv'
  BY DEF PointerInv
<1>14. WorkerInv(L, O)'
  <2> SUFFICES ASSUME NEW w \in Workers PROVE WorkerFits(L, O, w)'
    BY DEF WorkerInv
  <2>1. WorkerFits(L, O, w)
    BY DEF WorkerInv
  <2> QED  BY <1>1, <2>1 DEF WorkerFits, Is
<1> QED
  BY <1>4, <1>5, <1>6, <1>7, <1>8, <1>9, <1>10, <1>11, <1>12, <1>13, <1>14

(* The pointer it looks through is a link, to a group that can be found    *)
(* and that it has not passed, or to none.                                 *)
LEMMA PtrIs ==
    ASSUME NEW L \in SUBSET Groups, NEW O \in SUBSET Groups, NEW P \in SUBSET Groups,
           Shape(L, O, P), bg.pc \notin {"trim", "settle", "publish_next", "unlink_next"}
    PROVE  /\ bg.ptr \in Links(L) /\ Deref(bg.ptr) \in L \cup {NONE} /\ Deref(bg.ptr) \notin P
           /\ P \subseteq L /\ bg.slot \in DOMAIN roots[root] /\ roots[root] \in Slots
<1>1. PtrInv(L, P) /\ SlotInv(L, O) /\ GroupInv(L, O) /\ TypeOK
  BY DEF Shape
<1>2. P \subseteq L /\ bg.slot \in DOMAIN roots[root]
  BY <1>1 DEF PtrInv
<1>3. roots[root] \in Slots
  BY <1>1 DEF SlotInv, TypeOK
<1>4. bg.ptr \in Links(L) /\ Deref(bg.ptr) \in L \cup {NONE}
  <2>1. CASE bg.ptr = Slot(bg.slot)
    <3>1. Deref(bg.ptr) = roots[root][bg.slot].group
      BY <2>1 DEF Deref, Slot
    <3> QED  BY <1>1, <1>2, <2>1, <3>1 DEF SlotInv, Links
  <2>2. ASSUME NEW v \in P, bg.ptr = NextOf(v)
        PROVE  bg.ptr \in Links(L) /\ Deref(bg.ptr) \in L \cup {NONE}
    <3>1. Deref(bg.ptr) = group[v].next
      BY <2>2 DEF Deref, NextOf
    <3> QED  BY <1>1, <1>2, <2>2, <3>1 DEF GroupInv, Links
  <2> QED  BY <1>1, <2>1, <2>2 DEF PtrInv
<1>5. Deref(bg.ptr) \notin P
  BY <1>1, <1>4 DEF PtrInv
<1> QED
  BY <1>2, <1>3, <1>4, <1>5

(* It goes on to the next of the group it looks at.                        *)
LEMMA PassGroup ==
    ASSUME NEW L \in SUBSET Groups, NEW O \in SUBSET Groups, NEW P \in SUBSET Groups,
           Shape(L, O, P), bg.pc \in {"visit", "list"},
           UNCHANGED <<group, roots, root>>, bg'.pc = bg.pc, bg'.slot = bg.slot,
           NEW g \in L, g = Deref(bg.ptr), bg'.ptr = NextOf(g)
    PROVE  PtrInv(L, P \cup {g})' /\ g \notin P
<1>1. PtrInv(L, P) /\ LinkInv(L)
  BY DEF Shape
<1>2. bg.ptr \in Links(L) /\ g \notin P /\ P \subseteq L /\ g # NONE
  BY PtrIs, XIndexAssumption
<1>3. bg.ptr # NextOf(g)
  BY <1>1, <1>2, PointerMakers DEF PtrInv
<1>4. Links(L)' = Links(L) /\ \A p : Deref(p)' = Deref(p)
  BY DEF Links, Deref
<1>5. ASSUME NEW p \in Links(L), Deref(p) \in P \cup {g}
      PROVE  p # NextOf(g) /\ Passed(P \cup {g}, p)
  <2>1. CASE Deref(p) = g
    <3>1. p = bg.ptr
      BY <1>1, <1>2, <2>1 DEF LinkInv
    <3>2. Passed(P, p)
      <4>1. bg.slot \in 1 .. bg.slot
        <5>1. roots[root] \in Slots /\ bg.slot \in DOMAIN roots[root]
          BY PtrIs
        <5> QED  BY <5>1 DEF Slots
      <4> QED  BY <1>1, <3>1, <4>1 DEF PtrInv, Passed
    <3> QED  BY <1>3, <3>1, <3>2 DEF Passed
  <2>2. CASE Deref(p) \in P
    <3>1. Passed(P, p)
      BY <1>1, <2>2 DEF PtrInv
    <3>2. p # NextOf(g)
      BY <1>2, <3>1, PointerMakers DEF Passed
    <3> QED  BY <3>1, <3>2 DEF Passed
  <2> QED  BY <1>5, <2>1, <2>2
<1>6. \A p : Passed(P \cup {g}, p)' <=> Passed(P \cup {g}, p)
  BY DEF Passed
<1>7. bg.slot \in DOMAIN roots[root]
  BY PtrIs
<1>8. PtrInv(L, P \cup {g})'
  <2>1. P \cup {g} \subseteq L
    BY <1>2
  <2>2. \A p \in Links(L)' : Deref(p)' \in P \cup {g} => p # bg'.ptr /\ Passed(P \cup {g}, p)'
    BY <1>4, <1>5, <1>6
  <2>3. g \in P \cup {g}
    OBVIOUS
  <2> QED  BY <1>7, <2>1, <2>2, <2>3 DEF PtrInv
<1> QED
  BY <1>2, <1>8

(* It goes on to the next slot.                                            *)
LEMMA PassSlot ==
    ASSUME NEW L \in SUBSET Groups, NEW O \in SUBSET Groups, NEW P \in SUBSET Groups,
           Shape(L, O, P), bg.pc \in {"visit", "list"}, bg.slot < Len(roots[root]),
           UNCHANGED <<group, roots, root>>, bg'.pc = bg.pc, bg'.slot = bg.slot + 1,
           bg'.ptr = Slot(bg.slot + 1)
    PROVE  PtrInv(L, P)'
<1>1. PtrInv(L, P) /\ TypeOK
  BY DEF Shape
<1>2. Links(L)' = Links(L) /\ \A p : Deref(p)' = Deref(p)
  BY DEF Links, Deref
<1>3. /\ roots[root] \in Slots /\ bg.slot \in DOMAIN roots[root] /\ P \subseteq L
  BY PtrIs
<1>4. DOMAIN roots[root] = 1 .. Len(roots[root]) /\ Len(roots[root]) \in Nat
  BY <1>3 DEF Slots
<1>5. bg.slot \in Nat /\ bg.slot + 1 \in DOMAIN roots[root]
  BY <1>3, <1>4
<1>6. ASSUME NEW p \in Links(L), Deref(p) \in P
      PROVE  p # Slot(bg.slot + 1) /\ Passed(P, p)'
  <2>1. Passed(P, p)
    BY <1>1, <1>6 DEF PtrInv
  <2>2. CASE \E v \in P : p = NextOf(v)
    BY <2>2, PointerMakers DEF Passed
  <2>3. ASSUME NEW j \in 1 .. bg.slot, p = Slot(j)
        PROVE  p # Slot(bg.slot + 1) /\ Passed(P, p)'
    <3>1. j \in 1 .. bg.slot + 1 /\ j # bg.slot + 1
      BY <1>5
    <3>2. p # Slot(bg.slot + 1)
      BY <2>3, <3>1, PointerMakers
    <3> QED  BY <2>3, <3>1, <3>2 DEF Passed
  <2> QED  BY <2>1, <2>2, <2>3 DEF Passed
<1> QED
  BY <1>2, <1>3, <1>5, <1>6 DEF PtrInv

(* do_adjustment leaves a group as it is, or create_new_root lists it.     *)
LEMMA SkipKeeps ==
    ASSUME NEW L \in SUBSET Groups, NEW O \in SUBSET Groups, NEW P \in SUBSET Groups,
           Shape(L, O, P), Skip \/ ListGroup
    PROVE  \E P2 \in SUBSET Groups : Shape(L, O, P2)'
<1> PICK g : g = Deref(bg.ptr)
  OBVIOUS
<1>1. bg.pc \in {"visit", "list"} /\ g # NONE
  BY DEF Skip, ListGroup, At
<1>2. g \in L /\ bg.ptr \in Links(L)
  BY <1>1, PtrIs
<1>3. TypeOK /\ WorkInv /\ GroupInv(L, O)
  BY DEF Shape
<1>4. /\ bg' \in BgLocals /\ bg'.pc = bg.pc /\ bg'.slot = bg.slot /\ bg'.ptr = NextOf(g)
      /\ bg'.old = <<>> /\ bg'.inter = <<>> /\ bg'.new = <<>>
      /\ UNCHANGED <<mem, group, roots, root, pc, call, loc, result, waits>>
      /\ bg'.pc # "list" => bg'.listed = <<>>
  <2>1. bg \in BgLocals /\ bg.old = <<>> /\ bg.inter = <<>> /\ bg.new = <<>>
    BY <1>1, <1>3 DEF TypeOK, WorkInv
  <2>2. NextOf(g) \in Pointer
    BY <1>2, PointerMakers
  <2>3. CASE Skip
    <3>1. bg' = [bg EXCEPT !.ptr = NextOf(g)] /\ bg.pc = "visit"
      BY <2>3 DEF Skip, At
    <3>2. bg.listed = <<>>
      BY <1>3, <3>1 DEF WorkInv
    <3> QED  BY <2>1, <2>2, <2>3, <3>1, <3>2 DEF BgLocals, Skip, memVars, workerVars
  <2>4. CASE ListGroup
    <3> DEFINE e == [pivot |-> group[g].pivot, group |-> g]
    <3>1. e \in [pivot : Keys, group : Groups]
      <4>1. group[g] \in GroupRecords
        BY <1>2, <1>3, NullAssumption DEF TypeOK, GroupInv
      <4> QED  BY <1>2, <4>1, GroupFields
    <3>2. Append(bg.listed, e) \in Seq([pivot : Keys, group : Groups])
      <4>1. bg.listed \in Seq([pivot : Keys, group : Groups])
        BY <2>1, BgFields
      <4> HIDE DEF e
      <4> QED  BY <3>1, <4>1
    <3>3. bg' = [bg EXCEPT !.listed = Append(@, e), !.ptr = NextOf(g)] /\ bg.pc = "list"
      BY <2>4 DEF ListGroup, At
    <3> HIDE DEF e
    <3> QED  BY <2>1, <2>2, <2>4, <3>2, <3>3 DEF BgLocals, ListGroup, memVars, workerVars
  <2> QED  BY <2>3, <2>4
<1>5. PtrInv(L, P \cup {g})' /\ g \notin P
  BY <1>1, <1>2, <1>4, PassGroup
<1>6. ListInv(P \cup {g})'
  <2> SUFFICES ASSUME bg.pc = "list" PROVE ListInv(P \cup {g})'
    BY <1>4 DEF ListInv
  <2> DEFINE e == [pivot |-> group[g].pivot, group |-> g]
             s == bg.listed
             t == bg'.listed
             n == Len(bg.listed)
  <2>1. s \in Seq([pivot : Keys, group : Groups]) /\ t = Append(s, e)
    <3>1. s \in Seq([pivot : Keys, group : Groups]) /\ bg \in BgLocals
      BY <1>3, BgFields DEF TypeOK
    <3>2. ListGroup
      BY DEF Skip, At
    <3>3. bg' = [bg EXCEPT !.listed = Append(@, e), !.ptr = NextOf(g)]
      BY <3>2 DEF ListGroup
    <3> HIDE DEF e
    <3> QED  BY <3>1, <3>3 DEF BgLocals
  <2>2. /\ DOMAIN s = 1 .. n /\ n \in Nat /\ DOMAIN t = 1 .. n + 1 /\ t[n + 1] = e
        /\ \A i \in 1 .. n : t[i] = s[i]
    <3> HIDE DEF e, s, t
    <3>1. n \in Nat /\ DOMAIN s = 1 .. n
      BY <2>1 DEF s
    <3> QED  BY <2>1, <3>1 DEF s
  <2>3. e.group = g
    OBVIOUS
  <2>4. ListInv(P)
    BY DEF Shape
  <2> HIDE DEF e, s, t, n
  <2>5. P = {s[i].group : i \in 1 .. n}
    BY <2>2, <2>4 DEF ListInv, s
  <2>6. \A i \in 1 .. n : s[i].group \in P /\ s[i].group # g
    BY <1>5, <2>5
  <2>7. P \cup {g} = {t[i].group : i \in 1 .. n + 1}
    <3>1. \A i \in 1 .. n + 1 : i \in 1 .. n \/ i = n + 1
      BY <2>2
    <3>2. \A i \in 1 .. n : i \in 1 .. n + 1
      BY <2>2
    <3>3. n + 1 \in 1 .. n + 1
      BY <2>2
    <3> QED  BY <2>2, <2>3, <2>5, <3>1, <3>2, <3>3
  <2>8. \A i, j \in 1 .. n + 1 : t[i].group = t[j].group => i = j
    <3> SUFFICES ASSUME NEW i \in 1 .. n + 1, NEW j \in 1 .. n + 1, t[i].group = t[j].group
                 PROVE  i = j
      OBVIOUS
    <3>1. (i \in 1 .. n \/ i = n + 1) /\ (j \in 1 .. n \/ j = n + 1)
      BY <2>2
    <3>2. CASE i \in 1 .. n /\ j \in 1 .. n
      BY <2>2, <2>4, <3>2 DEF ListInv, s
    <3>3. CASE i = n + 1 /\ j \in 1 .. n
      BY <2>2, <2>3, <2>6, <3>3
    <3>4. CASE j = n + 1 /\ i \in 1 .. n
      BY <2>2, <2>3, <2>6, <3>4
    <3> QED  BY <3>1, <3>2, <3>3, <3>4
  <2>9. ASSUME NEW v \in P \cup {g}
        PROVE  group[v].next \in P \cup {g} \cup {NONE} \/ NextOf(v) = bg'.ptr
    <3>1. CASE v = g
      BY <1>4, <3>1
    <3>2. CASE v \in P /\ NextOf(v) = bg.ptr
      <4>1. g = group[v].next
        BY <3>2 DEF Deref, NextOf
      <4> QED  BY <4>1
    <3> QED  BY <2>4, <2>9, <3>1, <3>2 DEF ListInv
  <2>10. ASSUME NEW j \in 1 .. bg.slot
         PROVE  roots[root][j].group \in P \cup {g} \cup {NONE}
    <3>1. CASE Slot(j) = bg.ptr
      <4>1. g = roots[root][j].group
        BY <3>1 DEF Deref, Slot
      <4> QED  BY <4>1
    <3> QED  BY <2>4, <3>1 DEF ListInv
  <2>11. bg'.listed = t /\ DOMAIN bg'.listed = 1 .. n + 1
    BY <2>2 DEF t
  <2> QED  BY <1>4, <2>7, <2>8, <2>9, <2>10, <2>11 DEF ListInv
<1>7. P \cup {g} \in SUBSET Groups
  BY <1>2
<1>8. Shape(L, O, P \cup {g})'
  <2>1. waits' \subseteq Workers
    BY <1>3, <1>4 DEF TypeOK
  <2> QED  BY <1>1, <1>4, <1>5, <1>6, <1>7, <2>1, BgWalks
<1> QED
  BY <1>7, <1>8

(* At the end of a chain the background thread takes the next slot.        *)
LEMMA NextSlotKeeps ==
    ASSUME NEW L \in SUBSET Groups, NEW O \in SUBSET Groups, NEW P \in SUBSET Groups,
           Shape(L, O, P), NextSlot \/ ListSlot
    PROVE  Shape(L, O, P)'
<1>1. bg.pc \in {"visit", "list"} /\ Deref(bg.ptr) = NONE /\ bg.slot < Len(roots[root])
  BY DEF NextSlot, ListSlot, At
<1>2. TypeOK /\ WorkInv
  BY DEF Shape
<1>3. /\ bg' = [bg EXCEPT !.slot = bg.slot + 1, !.ptr = Slot(bg.slot + 1)]
      /\ UNCHANGED <<mem, group, roots, root, pc, call, loc, result, waits>>
  BY DEF NextSlot, ListSlot, memVars, workerVars
<1>4. /\ bg' \in BgLocals /\ bg'.pc = bg.pc /\ bg'.slot = bg.slot + 1 /\ bg'.ptr = Slot(bg.slot + 1)
      /\ bg'.old = <<>> /\ bg'.inter = <<>> /\ bg'.new = <<>> /\ bg'.listed = bg.listed
  <2>1. bg \in BgLocals /\ bg.old = <<>> /\ bg.inter = <<>> /\ bg.new = <<>>
    BY <1>1, <1>2 DEF TypeOK, WorkInv
  <2>2. bg.slot + 1 \in Nat /\ Slot(bg.slot + 1) \in Pointer
    <3>1. bg.slot \in Nat
      BY <2>1, BgFields
    <3> QED  BY <3>1, PointerMakers
  <2> QED  BY <1>3, <2>1, <2>2 DEF BgLocals
<1>5. PtrInv(L, P)'
  BY <1>1, <1>3, <1>4, PassSlot
<1>6. ListInv(P)'
  <2> SUFFICES ASSUME bg.pc = "list" PROVE ListInv(P)'
    BY <1>4 DEF ListInv
  <2>1. ListInv(P)
    BY DEF Shape
  <2>2. bg.slot \in Nat
    BY <1>2, BgFields DEF TypeOK
  <2>3. ASSUME NEW j \in 1 .. bg.slot + 1
        PROVE  roots[root][j].group \in P \cup {NONE} \/ Slot(j) = bg'.ptr
    <3>1. j = bg.slot + 1 \/ j \in 1 .. bg.slot
      BY <2>2
    <3>2. CASE Slot(j) = bg.ptr
      <4>1. roots[root][j].group = NONE
        BY <1>1, <3>2 DEF Deref, Slot
      <4> QED  BY <4>1
    <3> QED  BY <1>4, <2>1, <3>1, <3>2 DEF ListInv
  <2>4. ASSUME NEW v \in P
        PROVE  group[v].next \in P \cup {NONE}
    <3>1. CASE NextOf(v) = bg.ptr
      <4>1. group[v].next = NONE
        BY <1>1, <3>1 DEF Deref, NextOf
      <4> QED  BY <4>1
    <3> QED  BY <2>1, <3>1 DEF ListInv
  <2> QED  BY <1>3, <1>4, <2>1, <2>3, <2>4 DEF ListInv
<1> QED
  <2>1. waits' \subseteq Workers /\ (bg'.pc # "list" => bg'.listed = <<>>)
    BY <1>2, <1>3, <1>4 DEF TypeOK, WorkInv
  <2> QED  BY <1>1, <1>3, <1>4, <1>5, <1>6, <2>1, BgWalks

(* A round begins at the first slot, before every group.                   *)
LEMMA AtFirst ==
    ASSUME NEW L \in SUBSET Groups, NEW O \in SUBSET Groups, NEW P \in SUBSET Groups,
           Shape(L, O, P), bg.pc \in {"visit", "settle"},
           UNCHANGED <<mem, group, roots, root, pc, call, loc, result>>, waits' \subseteq Workers,
           bg' \in BgLocals, bg'.pc \in {"visit", "list"}, bg'.slot = 1, bg'.ptr = Slot(1),
           bg'.old = <<>>, bg'.inter = <<>>, bg'.new = <<>>, bg'.listed = <<>>
    PROVE  Shape(L, O, {})'
<1>1. 1 \in DOMAIN roots[root]
  BY DEF Shape, SlotInv
<1>2. PtrInv(L, {})'
  BY <1>1 DEF PtrInv
<1>3. ListInv({})'
  <2>1. DOMAIN <<>> = {}
    OBVIOUS
  <2>2. 1 .. 1 = {1}
    OBVIOUS
  <2> QED  BY <2>1, <2>2 DEF ListInv
<1> QED
  BY <1>2, <1>3, BgWalks

(* create_new_root begins at the first slot, do_adjustment at the next round. *)
LEMMA BeginRootKeeps ==
    ASSUME NEW L \in SUBSET Groups, NEW O \in SUBSET Groups, NEW P \in SUBSET Groups,
           Shape(L, O, P), BeginRoot \/ NextRound
    PROVE  Shape(L, O, {})'
<1>1. bg.pc \in {"visit", "settle"}
  BY DEF BeginRoot, NextRound, RoundEnds, At
<1>2. TypeOK /\ WorkInv /\ bg \in BgLocals
  BY DEF Shape, TypeOK
<1>3. bg.old = <<>> /\ bg.inter = <<>> /\ bg.new = <<>> /\ bg.listed = <<>>
  BY <1>1, <1>2 DEF WorkInv
<1>4. UNCHANGED <<mem, group, roots, root, pc, call, loc, result, waits>>
  BY DEF BeginRoot, NextRound, memVars, workerVars
<1>5. Slot(1) \in Pointer
  BY PointerMakers
<1>6. /\ bg' \in BgLocals /\ bg'.pc \in {"visit", "list"} /\ bg'.slot = 1 /\ bg'.ptr = Slot(1)
      /\ bg'.old = <<>> /\ bg'.inter = <<>> /\ bg'.new = <<>> /\ bg'.listed = <<>>
  <2>1. CASE BeginRoot
    <3>1. bg' = [bg EXCEPT !.pc = "list", !.slot = 1, !.ptr = Slot(1)] /\ "list" \in BgLabels
      BY <2>1 DEF BeginRoot, BgLabels
    <3> QED  BY <1>2, <1>3, <1>5, <3>1 DEF BgLocals
  <2>2. CASE NextRound
    <3>1. bg' = [NoWork EXCEPT !.adjusted = bg.adjusted]
      BY <2>2 DEF NextRound
    <3>2. bg.adjusted \in 0 .. MaxAdjustments /\ "visit" \in BgLabels
      BY <1>2, BgFields DEF BgLabels
    <3>3. /\ {} \in SUBSET Keys /\ <<>> \in Seq(Groups) /\ FALSE \in BOOLEAN /\ 1 \in Nat
          /\ <<>> \in Seq([pivot : Keys, group : Groups])
      BY Singles
    <3> QED  BY <1>5, <3>1, <3>2, <3>3 DEF BgLocals, NoWork
  <2> QED  BY <2>1, <2>2
<1>7. waits' \subseteq Workers
  BY <1>2, <1>4 DEF TypeOK
<1> QED
  BY <1>1, <1>4, <1>6, <1>7, AtFirst

(* No adjustment asked for a new root.                                     *)
LEMMA KeepRootKeeps ==
    ASSUME NEW L \in SUBSET Groups, NEW O \in SUBSET Groups, NEW P \in SUBSET Groups,
           Shape(L, O, P), KeepRoot
    PROVE  Shape(L, O, P)'
<1>1. bg.pc = "visit" /\ bg' = [bg EXCEPT !.pc = "settle"] /\ waits' = Workers
      /\ UNCHANGED <<mem, group, roots, root, pc, call, loc, result>>
  BY DEF KeepRoot, RoundEnds, At, memVars, workerVars
<1>2. WorkInv /\ bg \in BgLocals /\ "settle" \in BgLabels
  BY DEF Shape, TypeOK, BgLabels
<1>3. bg.old = <<>> /\ bg.inter = <<>> /\ bg.new = <<>> /\ bg.listed = <<>>
  BY <1>1, <1>2 DEF WorkInv
<1>4. /\ bg' \in BgLocals /\ bg'.pc = "settle"
      /\ bg'.old = <<>> /\ bg'.inter = <<>> /\ bg'.new = <<>> /\ bg'.listed = <<>>
  BY <1>1, <1>2, <1>3 DEF BgLocals
<1>5. PtrInv(L, P)' /\ ListInv(P)'
  BY <1>4 DEF PtrInv, ListInv
<1> QED
  BY <1>1, <1>4, <1>5, BgWalks

-----------------------------------------------------------------------------
(* A new root.                                                             *)

(* The new root holds the groups that were listed; no other can be found.  *)
LEMMA CreateKeeps ==
    ASSUME NEW L \in SUBSET Groups, NEW O \in SUBSET Groups, NEW P \in SUBSET Groups,
           Shape(L, O, P), CreateNewRoot
    PROVE  Shape(P, L \ P, {})'
<1> DEFINE n == bg.listed
<1>1. /\ bg.pc = "list" /\ Deref(bg.ptr) = NONE /\ bg.slot = Len(roots[root])
      /\ roots' = [roots EXCEPT ![1 - root] = n] /\ root' = 1 - root
      /\ bg' = [bg EXCEPT !.pc = "trim", !.listed = <<>>] /\ waits' = Workers
      /\ UNCHANGED <<mem, group, pc, call, loc, result>>
  BY DEF CreateNewRoot, At, workerVars
<1>2. /\ TypeOK /\ WorkInv /\ GroupInv(L, O) /\ SlotInv(L, O) /\ ListInv(P) /\ ApartInv(L)
      /\ PointerInv /\ WorkerInv(L, O) /\ bg \in BgLocals
  BY DEF Shape, TypeOK
<1>3. /\ Olds = {} /\ Inters = {} /\ News = {} /\ O = {} /\ Sources = {} /\ Own(L) = L
  BY <1>1, AtRest
<1>4. P \subseteq L /\ bg.slot \in DOMAIN roots[root] /\ roots[root] \in Slots
  BY <1>1, PtrIs
<1>5. n \in Seq([pivot : Keys, group : Groups])
  BY <1>2, BgFields
<1>6. n \in Slots /\ n # NONE /\ DOMAIN n = 1 .. Len(n) /\ Len(n) \in Nat
  <2>1. [pivot : Keys, group : Groups] \subseteq [pivot : Keys, group : Groups \cup {NONE}]
    OBVIOUS
  <2>2. n \in Slots
    <3>1. ASSUME NEW S, NEW T, S \subseteq T, NEW s \in Seq(S) PROVE s \in Seq(T)
      <4>1. s \in [1 .. Len(s) -> S] /\ Len(s) \in Nat
        OBVIOUS
      <4>2. s \in [1 .. Len(s) -> T]
        BY <3>1, <4>1
      <4> QED  BY <4>1, <4>2
    <3> HIDE DEF n
    <3> QED  BY <1>5, <2>1, <3>1 DEF Slots
  <2> QED  BY <1>5, <2>2, NullAssumption
<1>7. bg' \in BgLocals /\ bg'.pc = "trim" /\ bg'.listed = <<>>
      /\ bg'.old = <<>> /\ bg'.inter = <<>> /\ bg'.new = <<>>
  <2>1. bg.old = <<>> /\ bg.inter = <<>> /\ bg.new = <<>>
    BY <1>1, <1>2 DEF WorkInv
  <2>2. "trim" \in BgLabels /\ <<>> \in Seq([pivot : Keys, group : Groups])
    BY Singles DEF BgLabels
  <2> QED  BY <1>1, <1>2, <2>1, <2>2 DEF BgLocals
<1>8. Olds' = {} /\ Inters' = {} /\ News' = {} /\ Sources' = {} /\ Own(P)' = P
  <2>1. Olds' = {} /\ Inters' = {} /\ News' = {}
    BY <1>7, Singles DEF Olds, Inters, News
  <2> QED  BY <2>1 DEF Sources, Olds, Own
<1>9. root \in Roots /\ 1 - root \in Roots /\ 1 - root # root /\ 1 - (1 - root) = root
  BY <1>2 DEF TypeOK, Roots
<1>10. roots'[root'] = n /\ roots'[1 - root'] = roots[root]
  <2>1. roots \in [Roots -> Slots \cup {NONE}]
    BY <1>2 DEF TypeOK
  <2> HIDE DEF n
  <2> QED  BY <1>1, <1>9, <2>1
<1>11. TypeOK'
  <2>1. roots' \in [Roots -> Slots \cup {NONE}] /\ root' \in Roots
    <3> HIDE DEF n
    <3> QED  BY <1>1, <1>2, <1>6, <1>9 DEF TypeOK
  <2> QED  BY <1>1, <1>2, <1>7, <2>1 DEF TypeOK
<1>12. WorkInv' /\ PlaceInv(P, L \ P)' /\ ChainInv' /\ NextInv' /\ ListInv({})' /\ PtrInv(P, {})'
  BY <1>7, <1>8 DEF WorkInv, PlaceInv, ChainInv, NextInv, ListInv, PtrInv, Adjusting
<1>13. GroupInv(P, L \ P)'
  <2>1. ASSUME NEW v \in P PROVE group[v].next \in P \cup {NONE}
    <3>1. CASE NextOf(v) = bg.ptr
      <4>1. group[v].next = NONE
        BY <1>1, <3>1 DEF Deref, NextOf
      <4> QED  BY <4>1
    <3> QED  BY <1>1, <1>2, <2>1, <3>1 DEF ListInv
  <2> QED  BY <1>1, <1>2, <1>3, <1>4, <1>8, <2>1 DEF GroupInv, Array, Buffer
<1>14. SlotInv(P, L \ P)'
  <2>1. \A i \in DOMAIN n : n[i].group \in P
    BY <1>1, <1>2 DEF ListInv
  <2>2. roots[root][1].group \in P
    <3>1. 1 \in 1 .. bg.slot /\ roots[root][1].group # NONE
      BY <1>2, <1>4 DEF SlotInv, Slots
    <3>2. Slot(1) # bg.ptr
      <4>1. CASE Slot(1) = bg.ptr
        <5>1. roots[root][1].group = NONE
          BY <1>1, <4>1 DEF Deref, Slot
        <5> QED  BY <3>1, <5>1
      <4> QED  BY <4>1
    <3> QED  BY <1>1, <1>2, <3>1, <3>2 DEF ListInv
  <2>3. 1 \in DOMAIN n
    <3>1. DOMAIN n # {}
      BY <1>1, <1>2, <2>2 DEF ListInv
    <3> QED  BY <1>6, <3>1
  <2>4. n[1].group # NONE
    BY <1>4, <2>1, <2>3, XIndexAssumption
  <2>5. \A i \in DOMAIN roots[root] : roots[root][i].group \in L \cup {NONE}
    BY <1>1, <1>2 DEF SlotInv
  <2>6. \A g \in P : \E i \in DOMAIN n : n[i].group = g
    BY <1>1, <1>2 DEF ListInv
  <2>7. /\ roots[root] # NONE /\ 1 \in DOMAIN roots[root] /\ roots[root][1].group # NONE
    BY <1>2 DEF SlotInv
  <2> HIDE DEF n
  <2> QED  BY <1>6, <1>7, <1>10, <2>1, <2>3, <2>4, <2>5, <2>6, <2>7 DEF SlotInv
<1>15. LinkInv(P)'
  <2>1. Links(P)' = {Slot(i) : i \in DOMAIN n}
    BY <1>7, <1>10 DEF Links
  <2>2. \A i : Deref(Slot(i))' = n[i].group
    BY <1>10 DEF Deref, Slot
  <2>3. \A i, j \in DOMAIN n : n[i].group = n[j].group => i = j
    BY <1>1, <1>2 DEF ListInv
  <2> HIDE DEF n
  <2> QED  BY <2>1, <2>2, <2>3 DEF LinkInv
<1>16. ApartInv(P)'
  BY <1>1, <1>2, <1>3, <1>4, <1>7, <1>8 DEF ApartInv, Stored, Array, Buffer
<1>17. PointerInv'
  BY <1>1, <1>2 DEF PointerInv
<1>18. WorkerInv(P, L \ P)'
  <2> SUFFICES ASSUME NEW w \in Workers PROVE WorkerFits(P, L \ P, w)'
    BY DEF WorkerInv
  <2>1. WorkerFits(L, O, w)
    BY <1>2 DEF WorkerInv
  <2> QED  BY <1>1, <1>3, <1>4, <1>7, <1>8, <1>9, <2>1 DEF WorkerFits, Is
<1> QED
  BY <1>11, <1>12, <1>13, <1>14, <1>15, <1>16, <1>17, <1>18 DEF Shape

(* The old root is deleted once no worker of before waits.                 *)
LEMMA TrimKeeps ==
    ASSUME NEW L \in SUBSET Groups, NEW O \in SUBSET Groups, NEW P \in SUBSET Groups,
           Shape(L, O, P), TrimRoot
    PROVE  Shape(L, {}, {})'
<1>1. /\ bg.pc = "trim" /\ waits = {}
      /\ group' = [g \in Groups |-> IF \E i \in DOMAIN roots[root] : roots[root][i].group = g
                                    THEN [group[g] EXCEPT !.next = NONE] ELSE group[g]]
      /\ roots' = [roots EXCEPT ![1 - root] = NONE]
      /\ bg' = [bg EXCEPT !.pc = "settle"] /\ waits' = Workers
      /\ UNCHANGED <<mem, root, pc, call, loc, result>>
  BY DEF TrimRoot, At, BarrierEnds, workerVars
<1>2. /\ TypeOK /\ WorkInv /\ GroupInv(L, O) /\ SlotInv(L, O) /\ LinkInv(L) /\ ApartInv(L)
      /\ PointerInv /\ WorkerInv(L, O) /\ bg \in BgLocals
  BY DEF Shape, TypeOK
<1>3. /\ bg' \in BgLocals /\ bg'.pc = "settle" /\ bg'.listed = <<>>
      /\ bg'.old = <<>> /\ bg'.inter = <<>> /\ bg'.new = <<>>
      /\ bg.old = <<>> /\ bg.inter = <<>> /\ bg.new = <<>>
  <2>1. bg.old = <<>> /\ bg.inter = <<>> /\ bg.new = <<>> /\ bg.listed = <<>>
    BY <1>1, <1>2 DEF WorkInv
  <2>2. "settle" \in BgLabels
    BY DEF BgLabels
  <2> QED  BY <1>1, <1>2, <2>1, <2>2 DEF BgLocals
<1>4. /\ Olds' = {} /\ Inters' = {} /\ News' = {} /\ Sources' = {} /\ Own(L)' = L
      /\ Olds = {} /\ Inters = {} /\ News = {} /\ Sources = {} /\ Own(L) = L
  <2>1. Olds' = {} /\ Inters' = {} /\ News' = {} /\ Olds = {} /\ Inters = {} /\ News = {}
    BY <1>3, Singles DEF Olds, Inters, News
  <2> QED  BY <2>1 DEF Sources, Olds, Own
<1>5. root \in Roots /\ 1 - root \in Roots /\ 1 - root # root
  BY <1>2 DEF TypeOK, Roots
<1>6. roots'[root] = roots[root] /\ roots' \in [Roots -> Slots \cup {NONE}]
  BY <1>1, <1>2, <1>5 DEF TypeOK
<1>7. \A g \in L : group[g] \in GroupRecords /\ group'[g] = [group[g] EXCEPT !.next = NONE]
  <2>1. \A g \in L : group[g] \in GroupRecords
    BY <1>2, NullAssumption DEF GroupInv, TypeOK
  <2>2. \A g \in L : \E i \in DOMAIN roots[root] : roots[root][i].group = g
    BY <1>1, <1>2 DEF SlotInv
  <2> QED  BY <1>1, <2>1, <2>2
<1>8. \A g \in L : /\ group'[g] \in GroupRecords /\ group'[g] # NONE /\ group'[g].next = NONE
                   /\ group'[g].array = group[g].array /\ group'[g].buffer = group[g].buffer
                   /\ group'[g].buffer_temp = group[g].buffer_temp
  <2> TAKE g \in L
  <2>1. group[g] \in GroupRecords /\ NONE \in Groups \cup {NONE}
    BY <1>7
  <2>2. /\ [group[g] EXCEPT !.next = NONE] \in GroupRecords
        /\ [group[g] EXCEPT !.next = NONE].next = NONE
        /\ [group[g] EXCEPT !.next = NONE].array = group[g].array
        /\ [group[g] EXCEPT !.next = NONE].buffer = group[g].buffer
        /\ [group[g] EXCEPT !.next = NONE].buffer_temp = group[g].buffer_temp
    BY <2>1, NextFields
  <2>3. group'[g] = [group[g] EXCEPT !.next = NONE]
    BY <1>7
  <2>4. group'[g] # NONE
    BY <2>2, <2>3, NullAssumption
  <2> QED  BY <2>2, <2>3, <2>4, Zenon
<1>9. group' \in [Groups -> GroupRecords \cup {NONE}]
  <2>1. \A i \in DOMAIN roots[root] : roots[root][i].group \in L \cup {NONE}
    BY <1>1, <1>2 DEF SlotInv
  <2>2. \A g \in Groups : g \notin L => group'[g] = group[g]
    BY <1>1, <2>1, XIndexAssumption
  <2>3. \A g \in Groups : group'[g] \in GroupRecords \cup {NONE}
    BY <1>2, <1>8, <2>2 DEF TypeOK
  <2>4. group' = [g \in Groups |-> group'[g]]
    BY <1>1
  <2> QED  BY <2>3, <2>4
<1>10. TypeOK'
  BY <1>1, <1>2, <1>3, <1>6, <1>9 DEF TypeOK
<1>11. WorkInv' /\ PlaceInv(L, {})' /\ ChainInv' /\ NextInv' /\ ListInv({})' /\ PtrInv(L, {})'
  BY <1>3, <1>4 DEF WorkInv, PlaceInv, ChainInv, NextInv, ListInv, PtrInv, Adjusting, Retired
<1>12. GroupInv(L, {})'
  <2>1. \A g \in L : /\ mem[group[g].array] # NONE /\ mem[group[g].buffer] # NONE
                     /\ group[g].buffer_temp = NONE
    BY <1>2, <1>4 DEF GroupInv, Array, Buffer
  <2> QED  BY <1>1, <1>4, <1>8, <2>1, ZenonT(30) DEF GroupInv, Array, Buffer
<1>13. SlotInv(L, {})'
  BY <1>1, <1>2, <1>3, <1>6 DEF SlotInv
<1>14. LinkInv(L)'
  <2>1. Links(L)' = {Slot(i) : i \in DOMAIN roots[root]} \cup {NextOf(g) : g \in L}
    BY <1>1, <1>3, <1>6 DEF Links
  <2>2. Links(L) = {Slot(i) : i \in DOMAIN roots[root]}
    BY <1>1 DEF Links
  <2>3. \A i : Deref(Slot(i))' = Deref(Slot(i))
    BY <1>1, <1>6 DEF Deref, Slot
  <2>4. \A g \in L : Deref(NextOf(g))' = NONE
    BY <1>8 DEF Deref, NextOf
  <2> SUFFICES ASSUME NEW p \in Links(L)', NEW q \in Links(L)', Deref(p)' = Deref(q)', Deref(p)' # NONE
               PROVE  p = q
    BY DEF LinkInv
  <2>5. p \in Links(L) /\ q \in Links(L)
    BY <2>1, <2>2, <2>4
  <2>6. Deref(p)' = Deref(p) /\ Deref(q)' = Deref(q)
    BY <2>2, <2>3, <2>5
  <2> QED  BY <1>2, <2>5, <2>6 DEF LinkInv
<1>15. ApartInv(L)'
  <2>1. \A g \in L : Stored(g)' = Stored(g) /\ Array(g)' = Array(g) /\ Buffer(g)' = Buffer(g)
    BY <1>8 DEF Stored, Array, Buffer
  <2> QED  BY <1>1, <1>2, <1>3, <1>4, <2>1 DEF ApartInv
<1>16. PointerInv'
  BY <1>1, <1>2 DEF PointerInv
<1>17. WorkerInv(L, {})'
  <2> SUFFICES ASSUME NEW w \in Workers PROVE WorkerFits(L, {}, w)'
    BY DEF WorkerInv
  <2>1. WorkerFits(L, O, w)
    BY <1>2 DEF WorkerInv
  <2> QED  BY <1>1, <1>3, <1>4, <1>5, <2>1 DEF WorkerFits, Is
<1> QED
  BY <1>10, <1>11, <1>12, <1>13, <1>14, <1>15, <1>16, <1>17 DEF Shape

-----------------------------------------------------------------------------
(* Storing a pointer to a group.                                           *)

Places(L) == {Slot(i) : i \in DOMAIN roots[root]} \cup {NextOf(h) : h \in L}

Store(L, p, n, grp) ==
    /\ p \in Places(L) /\ n \in Groups \cup {NONE}
    /\ grp \in [Groups -> GroupRecords \cup {NONE}] /\ \A h \in L : grp[h] \in GroupRecords
    /\ roots' = RootsWith(p, n) /\ group' = GroupsWith(grp, p, n) /\ root' = root

AfterStore(p, n, grp) ==
    /\ roots' \in [Roots -> Slots \cup {NONE}] /\ group' \in [Groups -> GroupRecords \cup {NONE}]
    /\ roots'[root] # NONE /\ DOMAIN roots'[root] = DOMAIN roots[root]
    /\ \A i \in DOMAIN roots[root] :
          roots'[root][i].group = IF p = Slot(i) THEN n ELSE roots[root][i].group
    /\ \A h \in Groups : grp[h] = NONE => group'[h] = NONE
    /\ \A h \in Groups : grp[h] \in GroupRecords =>
          /\ group'[h] \in GroupRecords /\ group'[h] # NONE
          /\ group'[h].array = grp[h].array /\ group'[h].buffer = grp[h].buffer
          /\ group'[h].buffer_temp = grp[h].buffer_temp /\ group'[h].pivot = grp[h].pivot
          /\ group'[h].next = IF p = NextOf(h) THEN n ELSE grp[h].next

(* What a store through a slot or a next field changes.                    *)
LEMMA PointerStored ==
    ASSUME NEW L \in SUBSET Groups, NEW O \in SUBSET Groups, NEW P \in SUBSET Groups,
           Shape(L, O, P), NEW M, NEW p, NEW n, NEW grp, Store(M, p, n, grp)
    PROVE  AfterStore(p, n, grp)
<1> USE DEF Store, AfterStore
<1>1. TypeOK /\ SlotInv(L, O)
  BY DEF Shape
<1>2. roots \in [Roots -> Slots \cup {NONE}] /\ root \in Roots /\ roots[root] \in Slots
  BY <1>1 DEF TypeOK, SlotInv
<1>3. ASSUME NEW i \in DOMAIN roots[root], p = Slot(i)
      PROVE  /\ roots' \in [Roots -> Slots \cup {NONE}] /\ DOMAIN roots'[root] = DOMAIN roots[root]
             /\ \A j \in DOMAIN roots[root] :
                   roots'[root][j].group = IF p = Slot(j) THEN n ELSE roots[root][j].group
             /\ group' = grp /\ roots'[root] \in Slots /\ \A h \in Groups : p # NextOf(h)
  <2>1. p.at = "slot" /\ p.of = i
    BY <1>3 DEF Slot
  <2> DEFINE s == roots[root]
             t == [s EXCEPT ![i] = [s[i] EXCEPT !.group = n]]
  <2>2. roots' = [roots EXCEPT ![root] = t] /\ group' = grp
    BY <2>1 DEF RootsWith, GroupsWith
  <2>3. DOMAIN s = 1 .. Len(s) /\ Len(s) \in Nat
        /\ s \in [1 .. Len(s) -> [pivot : Keys, group : Groups \cup {NONE}]]
    <3>1. s \in Seq([pivot : Keys, group : Groups \cup {NONE}])
      BY <1>2 DEF Slots
    <3> QED  BY <3>1, SeqForm, Zenon
  <2>4. [s[i] EXCEPT !.group = n] \in [pivot : Keys, group : Groups \cup {NONE}]
        /\ [s[i] EXCEPT !.group = n].group = n
    <3>1. s[i] \in [pivot : Keys, group : Groups \cup {NONE}]
      BY <1>3, <2>3
    <3> HIDE DEF s
    <3> QED  BY <3>1
  <2>5. t \in [1 .. Len(s) -> [pivot : Keys, group : Groups \cup {NONE}]]
    <3> DEFINE e == [s[i] EXCEPT !.group = n]
               R == [pivot : Keys, group : Groups \cup {NONE}]
    <3>1. e \in R /\ s \in [1 .. Len(s) -> R]
      BY <2>3, <2>4
    <3> HIDE DEF s, e, R
    <3>2. [s EXCEPT ![i] = e] \in [1 .. Len(s) -> R]
      BY <3>1
    <3> QED  BY <3>2 DEF e, R
  <2>6. t \in Slots
    <3>1. t \in Seq([pivot : Keys, group : Groups \cup {NONE}])
      BY <2>3, <2>5, SeqForm, Zenon
    <3> QED  BY <3>1 DEF Slots
  <2>7. DOMAIN t = DOMAIN s /\ \A j \in DOMAIN s : t[j].group = IF j = i THEN n ELSE s[j].group
    <3> HIDE DEF s
    <3> QED  BY <1>3, <2>3, <2>4 DEF s
  <2>8. \A j : p = Slot(j) <=> j = i
    BY <1>3, PointerMakers
  <2> HIDE DEF t
  <2>9. roots'[root] = t /\ roots' \in [Roots -> Slots \cup {NONE}]
    BY <1>2, <2>2, <2>6
  <2> QED  BY <1>3, <2>2, <2>6, <2>7, <2>8, <2>9, PointerMakers
<1>4. ASSUME NEW v \in M, p = NextOf(v)
      PROVE  /\ roots' = roots /\ \A i : p # Slot(i)
             /\ group' = [grp EXCEPT ![v] = [grp[v] EXCEPT !.next = n]]
             /\ \A h : p = NextOf(h) <=> h = v
  <2>1. p.at = "next" /\ p.of = v
    BY <1>4 DEF NextOf
  <2>2. roots' = roots /\ group' = [grp EXCEPT ![v] = [grp[v] EXCEPT !.next = n]]
    BY <2>1 DEF RootsWith, GroupsWith
  <2> QED  BY <1>4, <2>2, PointerMakers
<1>5. CASE \E i \in DOMAIN roots[root] : p = Slot(i)
  <2>1. PICK i \in DOMAIN roots[root] : p = Slot(i)
    BY <1>5
  <2>2. \A h \in Groups : grp[h] \in GroupRecords => grp[h] # NONE
    BY NullAssumption
  <2>3. \A s \in Slots : s # NONE
    BY NullAssumption
  <2> QED  BY <1>3, <2>1, <2>2, <2>3
<1>6. CASE \E h \in M : p = NextOf(h)
  <2>1. PICK v \in M : p = NextOf(v)
    BY <1>6
  <2> DEFINE r == [grp[v] EXCEPT !.next = n]
  <2>2. grp[v] \in GroupRecords
    OBVIOUS
  <2>3. /\ r \in GroupRecords /\ r.array = grp[v].array /\ r.buffer = grp[v].buffer
        /\ r.buffer_temp = grp[v].buffer_temp /\ r.pivot = grp[v].pivot /\ r.next = n
    BY <2>2, NextFields
  <2>4. group' = [grp EXCEPT ![v] = r] /\ roots' = roots /\ (\A h : p = NextOf(h) <=> h = v)
        /\ \A i : p # Slot(i)
    BY <1>4, <2>1
  <2> HIDE DEF r
  <2>5. group' \in [Groups -> GroupRecords \cup {NONE}]
    BY <2>3, <2>4
  <2>6. \A h \in Groups : group'[h] = IF h = v THEN r ELSE grp[h]
    BY <2>4
  <2>7. \A s \in Slots : s # NONE
    BY NullAssumption
  <2>8. \A x \in GroupRecords : x # NONE
    BY NullAssumption
  <2>9. ASSUME NEW h \in Groups, grp[h] \in GroupRecords
        PROVE  /\ group'[h] \in GroupRecords /\ group'[h] # NONE
               /\ group'[h].array = grp[h].array /\ group'[h].buffer = grp[h].buffer
               /\ group'[h].buffer_temp = grp[h].buffer_temp /\ group'[h].pivot = grp[h].pivot
               /\ group'[h].next = IF p = NextOf(h) THEN n ELSE grp[h].next
    BY <2>3, <2>4, <2>6, <2>8, <2>9
  <2>10. \A h \in Groups : grp[h] = NONE => group'[h] = NONE
    BY <2>2, <2>6, <2>8
  <2> QED  BY <1>2, <2>4, <2>5, <2>7, <2>9, <2>10
<1> QED
  BY <1>5, <1>6 DEF Places

(* The groups from c1 to c2 give way to those from n1 to n2.  The links    *)
(* in Cut, of which one may have led to c2, are out of use.                *)
Swap(L, L2, Cut, c1, c2, n1, n2) ==
    /\ c1 \in L /\ c2 \in L /\ n1 \in Groups \ L /\ n2 \in Groups \ L
    /\ L2 = (L \ {c1, c2}) \cup {n1, n2}
    /\ Deref(bg.ptr) = c1
    /\ c1 # c2 => \E m \in Links(L) : /\ Deref(m) = c2
                                      /\ m = NextOf(c1) \/ m \in Cut
                                      /\ m = NextOf(c1) \/ m = Slot(bg.slot + 1)
    /\ root' = root /\ DOMAIN roots'[root] = DOMAIN roots[root]
    /\ \A i \in DOMAIN roots[root] :
          roots'[root][i].group = IF bg.ptr = Slot(i) THEN n1 ELSE roots[root][i].group
    /\ \A h \in L : group'[h].next = IF bg.ptr = NextOf(h) THEN n1 ELSE group[h].next
    /\ n1 # n2 => group'[n1].next = n2
    /\ group'[n2].next = group[c2].next
    /\ bg'.slot = bg.slot /\ bg'.ptr = bg.ptr
    /\ Links(L2)' = ({Slot(i) : i \in DOMAIN roots[root]} \cup {NextOf(h) : h \in L2}) \ Cut

AfterSwap(P, L2, Cut, c1, c2, n1) ==
    /\ P \subseteq L2 /\ c1 \notin P /\ c2 \notin P
    /\ \A p \in Links(L2)' : Deref(p)' \in P => p # bg'.ptr /\ Passed(P, p)'
    /\ Deref(bg.ptr)' = n1
    /\ \A h \in L2 : NextOf(h) \notin Cut => group'[h].next \in L2 \cup {NONE}
    /\ \A i \in DOMAIN roots[root] : Slot(i) \notin Cut => roots'[root][i].group \in L2 \cup {NONE}
    /\ group[c2].next \notin {c1, c2}

(* Groups that take the place of others leave the links an injection.      *)
LEMMA SwapLinks ==
    ASSUME NEW L \in SUBSET Groups, NEW O \in SUBSET Groups, NEW P \in SUBSET Groups,
           Shape(L, O, P), bg.pc \in {"visit", "merge"},
           NEW L2, NEW Cut, NEW c1, NEW c2, NEW n1, NEW n2, Swap(L, L2, Cut, c1, c2, n1, n2)
    PROVE  LinkInv(L2)' /\ AfterSwap(P, L2, Cut, c1, c2, n1)
<1> USE DEF Swap, AfterSwap
<1>1. TypeOK /\ GroupInv(L, O) /\ SlotInv(L, O) /\ LinkInv(L) /\ PtrInv(L, P)
  BY DEF Shape
<1>2. /\ bg.ptr \in Links(L) /\ P \subseteq L /\ c1 \notin P
      /\ bg.slot \in DOMAIN roots[root] /\ roots[root] \in Slots
  BY PtrIs
<1>3. Links(L) = {Slot(i) : i \in DOMAIN roots[root]} \cup {NextOf(g) : g \in L}
  BY DEF Links
<1>4. /\ \A i : Deref(Slot(i)) = roots[root][i].group /\ Deref(Slot(i))' = roots'[root][i].group
      /\ \A g : Deref(NextOf(g)) = group[g].next /\ Deref(NextOf(g))' = group'[g].next
  BY DEF Deref, Slot, NextOf
<1>5. \A p \in Links(L) : Deref(p) \in L \cup {NONE}
  <2>1. \A i \in DOMAIN roots[root] : roots[root][i].group \in L \cup {NONE}
    BY <1>1 DEF SlotInv
  <2>2. \A g \in L : group[g].next \in L \cup {NONE}
    BY <1>1 DEF GroupInv
  <2> QED  BY <1>3, <1>4, <2>1, <2>2
<1>6. \A g \in L : Passed(P, NextOf(g)) => g \in P
  BY PointerMakers DEF Passed
<1>7. ~ Passed(P, Slot(bg.slot + 1))
  <2>1. \A j \in 1 .. bg.slot : j # bg.slot + 1
    <3>1. bg.slot \in Nat
      BY <1>2 DEF Slots
    <3> QED  BY <3>1
  <2> QED  BY <2>1, PointerMakers DEF Passed
<1>8. NONE \notin Groups
  BY XIndexAssumption
<1>9. c2 \notin P
  <2> SUFFICES ASSUME c1 # c2, c2 \in P PROVE FALSE
    BY <1>2
  <2>1. PICK m \in Links(L) : Deref(m) = c2 /\ (m = NextOf(c1) \/ m = Slot(bg.slot + 1))
    OBVIOUS
  <2>2. Passed(P, m)
    BY <1>1, <2>1 DEF PtrInv
  <2> QED  BY <1>2, <1>6, <1>7, <2>1, <2>2
<1>10. \A g \in L : NextOf(g) = bg.ptr => g \in P
  <2>1. bg.ptr = Slot(bg.slot) \/ \E v \in P : bg.ptr = NextOf(v)
    BY <1>1 DEF PtrInv
  <2> QED  BY <2>1, PointerMakers
<1>11. \A p \in Links(L) : Deref(p) = c1 => p = bg.ptr
  BY <1>1, <1>2, <1>8 DEF LinkInv
<1>12. c1 # c2 => \A p \in Links(L) : Deref(p) = c2 => p = NextOf(c1) \/ (p \in Cut /\ p = Slot(bg.slot + 1))
  <2> SUFFICES ASSUME c1 # c2, NEW p \in Links(L), Deref(p) = c2
               PROVE  p = NextOf(c1) \/ (p \in Cut /\ p = Slot(bg.slot + 1))
    OBVIOUS
  <2>1. PICK m \in Links(L) : /\ Deref(m) = c2 /\ (m = NextOf(c1) \/ m = Slot(bg.slot + 1))
                              /\ (m = NextOf(c1) \/ m \in Cut)
    OBVIOUS
  <2>2. p = m
    BY <1>1, <1>8, <2>1 DEF LinkInv
  <2> QED  BY <2>1, <2>2
<1>13. group[c2].next \notin {c1, c2} /\ group[c2].next \in L \cup {NONE}
  <2>1. NextOf(c2) \in Links(L) /\ Deref(NextOf(c2)) = group[c2].next
    BY <1>3, <1>4
  <2>2. group[c2].next # c1
    BY <1>9, <1>10, <1>11, <2>1
  <2>3. c1 # c2 => group[c2].next # c2
    BY <1>12, <2>1, PointerMakers
  <2> QED  BY <1>5, <2>1, <2>2, <2>3
<1>14. \A h \in L2 : NextOf(h) \notin Cut => group'[h].next \in L2 \cup {NONE}
  <2> SUFFICES ASSUME NEW h \in L2, NextOf(h) \notin Cut PROVE group'[h].next \in L2 \cup {NONE}
    OBVIOUS
  <2>1. CASE h \in L /\ bg.ptr = NextOf(h)
    BY <2>1
  <2>2. CASE h \in L /\ bg.ptr # NextOf(h)
    <3>1. h # c1 /\ h # c2 /\ NextOf(h) \in Links(L) /\ Deref(NextOf(h)) = group[h].next
      BY <1>3, <1>4, <2>2
    <3>2. group[h].next # c1
      BY <1>11, <2>2, <3>1
    <3>3. group[h].next # c2
      BY <1>12, <3>1, <3>2, PointerMakers
    <3> QED  BY <1>5, <2>2, <3>1, <3>2, <3>3
  <2>3. CASE h = n2
    BY <1>13, <2>3
  <2>4. CASE h = n1 /\ n1 # n2
    BY <2>4
  <2> QED  BY <2>1, <2>2, <2>3, <2>4
<1>15. \A i \in DOMAIN roots[root] : Slot(i) \notin Cut => roots'[root][i].group \in L2 \cup {NONE}
  <2> SUFFICES ASSUME NEW i \in DOMAIN roots[root], Slot(i) \notin Cut, bg.ptr # Slot(i)
               PROVE  roots[root][i].group \in L2 \cup {NONE}
    OBVIOUS
  <2>1. Slot(i) \in Links(L) /\ Deref(Slot(i)) = roots[root][i].group
    BY <1>3, <1>4
  <2>2. roots[root][i].group # c1
    BY <1>11, <2>1
  <2>3. roots[root][i].group # c2
    BY <1>12, <2>1, <2>2, PointerMakers
  <2> QED  BY <1>5, <2>1, <2>2, <2>3
(* Every link leads where one led before, or is one of the new links.      *)
<1>16. ASSUME NEW p \in Links(L2)'
       PROVE  \/ p = bg.ptr /\ Deref(p)' = n1
              \/ n1 # n2 /\ p = NextOf(n1) /\ Deref(p)' = n2
              \/ p = NextOf(n2) /\ Deref(p)' = Deref(NextOf(c2))
              \/ p \in Links(L) /\ p # NextOf(c2) /\ p # bg.ptr /\ Deref(p)' = Deref(p)
  <2>1. p \in {Slot(i) : i \in DOMAIN roots[root]} \cup {NextOf(h) : h \in L2}
    OBVIOUS
  <2>2. ASSUME NEW i \in DOMAIN roots[root], p = Slot(i)
        PROVE  \/ p = bg.ptr /\ Deref(p)' = n1
               \/ p \in Links(L) /\ p # NextOf(c2) /\ p # bg.ptr /\ Deref(p)' = Deref(p)
    <3>1. p \in Links(L) /\ p # NextOf(c2) /\ Deref(p) = roots[root][i].group
      BY <1>3, <1>4, <2>2, PointerMakers
    <3>2. Deref(p)' = roots'[root][i].group
      BY <1>4, <2>2
    <3> QED  BY <2>2, <3>1, <3>2
  <2>3. ASSUME NEW h \in L2, p = NextOf(h)
        PROVE  \/ p = bg.ptr /\ Deref(p)' = n1
               \/ n1 # n2 /\ p = NextOf(n1) /\ Deref(p)' = n2
               \/ p = NextOf(n2) /\ Deref(p)' = Deref(NextOf(c2))
               \/ p \in Links(L) /\ p # NextOf(c2) /\ p # bg.ptr /\ Deref(p)' = Deref(p)
    <3>1. Deref(p)' = group'[h].next /\ Deref(p) = group[h].next /\ Deref(NextOf(c2)) = group[c2].next
      BY <1>4, <2>3
    <3>2. CASE h \in L /\ h # c2
      <4>1. p \in Links(L) /\ p # NextOf(c2)
        BY <1>3, <2>3, <3>2, PointerMakers
      <4> QED  BY <2>3, <3>1, <3>2, <4>1
    <3>3. CASE h = n2
      BY <2>3, <3>1, <3>3
    <3>4. CASE h = n1 /\ n1 # n2
      BY <2>3, <3>1, <3>4
    <3> QED  BY <3>2, <3>3, <3>4
  <2> QED  BY <2>1, <2>2, <2>3
<1>17. NextOf(c2) \in Links(L) /\ NextOf(c2) # bg.ptr
  BY <1>3, <1>9, <1>10
<1>18. LinkInv(L2)'
  <2> SUFFICES ASSUME NEW p \in Links(L2)', NEW q \in Links(L2)', Deref(p)' = Deref(q)', Deref(p)' # NONE
               PROVE  p = q
    BY DEF LinkInv
  <2>1. n1 \notin L \cup {NONE} /\ n2 \notin L \cup {NONE}
    BY <1>8
  <2>2. \A a, b \in Links(L) : Deref(a) = Deref(b) /\ Deref(a) # NONE => a = b
    BY <1>1 DEF LinkInv
  <2>3. PICK dp, dq : dp = Deref(p)' /\ dq = Deref(q)' /\ dp = dq /\ dp # NONE
    OBVIOUS
  <2> DEFINE D == Deref(NextOf(c2))
  <2>6. D \in L \cup {NONE}
    BY <1>5, <1>17
  <2> HIDE DEF D
  <2>4. \/ p = bg.ptr /\ dp = n1
        \/ n1 # n2 /\ p = NextOf(n1) /\ dp = n2
        \/ p = NextOf(n2) /\ dp = D /\ dp \in L
        \/ p \in Links(L) /\ p # NextOf(c2) /\ p # bg.ptr /\ dp = Deref(p) /\ dp \in L
    <3>1. CASE p = bg.ptr /\ Deref(p)' = n1
      BY <2>3, <3>1
    <3>2. CASE n1 # n2 /\ p = NextOf(n1) /\ Deref(p)' = n2
      BY <2>3, <3>2
    <3>3. CASE p = NextOf(n2) /\ Deref(p)' = Deref(NextOf(c2))
      BY <2>3, <2>6, <3>3 DEF D
    <3>4. CASE p \in Links(L) /\ p # NextOf(c2) /\ p # bg.ptr /\ Deref(p)' = Deref(p)
      BY <1>5, <2>3, <3>4
    <3> QED  BY <1>16, <3>1, <3>2, <3>3, <3>4
  <2>5. \/ q = bg.ptr /\ dq = n1
        \/ n1 # n2 /\ q = NextOf(n1) /\ dq = n2
        \/ q = NextOf(n2) /\ dq = D /\ dq \in L
        \/ q \in Links(L) /\ q # NextOf(c2) /\ q # bg.ptr /\ dq = Deref(q) /\ dq \in L
    <3>1. CASE q = bg.ptr /\ Deref(q)' = n1
      BY <2>3, <3>1
    <3>2. CASE n1 # n2 /\ q = NextOf(n1) /\ Deref(q)' = n2
      BY <2>3, <3>2
    <3>3. CASE q = NextOf(n2) /\ Deref(q)' = Deref(NextOf(c2))
      BY <2>3, <2>6, <3>3 DEF D
    <3>4. CASE q \in Links(L) /\ q # NextOf(c2) /\ q # bg.ptr /\ Deref(q)' = Deref(q)
      BY <1>5, <2>3, <3>4
    <3> QED  BY <1>16, <3>1, <3>2, <3>3, <3>4
  <2> QED  BY <1>17, <2>1, <2>2, <2>3, <2>4, <2>5 DEF D
<1>19. \A p \in Links(L2)' : Deref(p)' \in P => p # bg'.ptr /\ Passed(P, p)'
  <2> SUFFICES ASSUME NEW p \in Links(L2)', Deref(p)' \in P PROVE p # bg.ptr /\ Passed(P, p)
    BY DEF Passed
  <2>1. n1 \notin P /\ n2 \notin P
    BY <1>2
  <2>2. \A q \in Links(L) : Deref(q) \in P => Passed(P, q)
    BY <1>1 DEF PtrInv
  <2>3. ~ Passed(P, NextOf(c2))
    BY <1>6, <1>9
  <2>4. CASE p = bg.ptr /\ Deref(p)' = n1
    BY <2>1, <2>4
  <2>5. CASE n1 # n2 /\ p = NextOf(n1) /\ Deref(p)' = n2
    BY <2>1, <2>5
  <2>6. CASE p = NextOf(n2) /\ Deref(p)' = Deref(NextOf(c2))
    BY <1>17, <2>2, <2>3, <2>6
  <2>7. CASE p \in Links(L) /\ p # NextOf(c2) /\ p # bg.ptr /\ Deref(p)' = Deref(p)
    BY <2>2, <2>7
  <2> QED  BY <1>16, <2>4, <2>5, <2>6, <2>7
<1>20. Deref(bg.ptr)' = n1
  <2>1. CASE bg.ptr = Slot(bg.slot)
    BY <1>2, <1>4, <2>1
  <2>2. ASSUME NEW v \in P, bg.ptr = NextOf(v) PROVE Deref(bg.ptr)' = n1
    <3>1. Deref(NextOf(v))' = group'[v].next
      BY <1>4
    <3>2. group'[v].next = n1
      BY <1>2, <2>2
    <3>3. Deref(bg.ptr)' = Deref(NextOf(v))'
      BY <2>2 DEF Deref
    <3> QED  BY <3>1, <3>2, <3>3
  <2> QED  BY <1>1, <2>1, <2>2 DEF PtrInv
<1> QED
  BY <1>2, <1>9, <1>13, <1>14, <1>15, <1>18, <1>19, <1>20

-----------------------------------------------------------------------------
(* A group with other models.                                              *)

(* What a group that is being visited is.                                  *)
LEMMA Visited ==
    ASSUME NEW L \in SUBSET Groups, NEW O \in SUBSET Groups, NEW P \in SUBSET Groups,
           Shape(L, O, P), NEW g \in Groups, Visits(g)
    PROVE  /\ bg.pc = "visit" /\ g = Deref(bg.ptr) /\ g \in L /\ group[g] \in GroupRecords
           /\ Array(g) \in Stores /\ Buffer(g) \in Stores /\ group[g].pivot \in Keys
           /\ group[g].next \in L \cup {NONE} /\ group[g].buffer_temp = NONE
           /\ bg.adjusted < MaxAdjustments
           /\ bg.ptr \in Places(L)
           /\ \A h \in L : group[h] \in GroupRecords /\ group[h] # NONE
           /\ bg.old = <<>> /\ bg.inter = <<>> /\ bg.new = <<>> /\ bg.listed = <<>>
<1>1. bg.pc = "visit" /\ g = Deref(bg.ptr) /\ g # NONE /\ bg.adjusted < MaxAdjustments
  BY DEF Visits, At
<1>2. g \in L /\ bg.ptr \in Links(L)
  BY <1>1, PtrIs
<1>3. TypeOK /\ WorkInv /\ GroupInv(L, O)
  BY DEF Shape
<1>4. \A h \in L : group[h] \in GroupRecords /\ group[h] # NONE
  BY <1>3 DEF TypeOK, GroupInv
<1>5. Olds = {} /\ Inters = {}
  BY <1>1, AtRest
<1> QED
  BY <1>1, <1>2, <1>3, <1>4, <1>5, GroupFields DEF GroupInv, Array, Buffer, Links, Places, WorkInv

(* What can be allocated is in no use.                                     *)
LEMMA FreshGroup ==
    ASSUME NEW L \in SUBSET Groups, NEW O \in SUBSET Groups, NEW P \in SUBSET Groups,
           Shape(L, O, P), NEW n \in FreshGroups
    PROVE  n \in Groups /\ group[n] = NONE /\ n \notin L \cup O \cup News
  BY DEF Shape, GroupInv, FreshGroups

(* A group gets other models: a copy of it takes its place.                *)
LEMMA RemodelKeeps ==
    ASSUME NEW L \in SUBSET Groups, NEW O \in SUBSET Groups, NEW P \in SUBSET Groups,
           Shape(L, O, P), NEW g \in Groups, Remodel(g)
    PROVE  \E L2 \in SUBSET Groups : Shape(L2, {g}, P)'
<1> DEFINE m == First(FreshGroups)
           r == [group[g] EXCEPT !.buf_frozen = FALSE]
<1>1. m \in FreshGroups
  BY SmallestIs, XIndexAssumption DEF Remodel, First, FreshGroups
<1> PICK n : n = m
  OBVIOUS
<1>2. /\ n \in Groups /\ group[n] = NONE /\ n \notin L
  BY <1>1, FreshGroup
<1>3. /\ bg.pc = "visit" /\ g = Deref(bg.ptr) /\ g \in L /\ group[g] \in GroupRecords
      /\ group[g].next \in L \cup {NONE} /\ bg.adjusted < MaxAdjustments
      /\ bg.ptr \in Places(L)
      /\ \A h \in L : group[h] \in GroupRecords /\ group[h] # NONE
      /\ bg.old = <<>> /\ bg.inter = <<>> /\ bg.new = <<>> /\ bg.listed = <<>>
  BY Visited DEF Remodel
<1>4. /\ TypeOK /\ WorkInv /\ GroupInv(L, O) /\ SlotInv(L, O) /\ PtrInv(L, P) /\ ApartInv(L)
      /\ PointerInv /\ WorkerInv(L, O) /\ bg \in BgLocals
  BY DEF Shape, TypeOK
<1>5. /\ Olds = {} /\ Inters = {} /\ News = {} /\ O = {} /\ Own(L) = L
  BY <1>3, AtRest
<1> DEFINE copy == [group EXCEPT ![n] = r]
<1> PICK L2 : L2 = (L \ {g}) \cup {n}
  OBVIOUS
<1>6. /\ group' = GroupsWith(copy, bg.ptr, n) /\ roots' = RootsWith(bg.ptr, n)
      /\ bg' = [bg EXCEPT !.pc = "delete", !.old = <<g>>] /\ waits' = Workers
      /\ UNCHANGED <<mem, root, pc, call, loc, result>>
  BY DEF Remodel, workerVars
<1>7. /\ r \in GroupRecords /\ r.array = group[g].array /\ r.buffer = group[g].buffer
      /\ r.buffer_temp = group[g].buffer_temp /\ r.next = group[g].next
  BY <1>3, FrozenFields
<1> HIDE DEF r, m
<1>8. /\ copy \in [Groups -> GroupRecords \cup {NONE}] /\ copy[n] = r
      /\ \A h \in Groups : h # n => copy[h] = group[h]
  BY <1>2, <1>4, <1>7 DEF TypeOK
<1>9. \A h \in L : copy[h] \in GroupRecords /\ copy[h] = group[h]
  BY <1>2, <1>3, <1>8
<1> HIDE DEF copy
<1>10. /\ roots' \in [Roots -> Slots \cup {NONE}] /\ group' \in [Groups -> GroupRecords \cup {NONE}]
       /\ roots'[root] # NONE /\ DOMAIN roots'[root] = DOMAIN roots[root]
       /\ \A i \in DOMAIN roots[root] :
             roots'[root][i].group = IF bg.ptr = Slot(i) THEN n ELSE roots[root][i].group
       /\ \A h \in Groups : copy[h] \in GroupRecords =>
             /\ group'[h] \in GroupRecords /\ group'[h] # NONE
             /\ group'[h].array = copy[h].array /\ group'[h].buffer = copy[h].buffer
             /\ group'[h].buffer_temp = copy[h].buffer_temp
             /\ group'[h].next = IF bg.ptr = NextOf(h) THEN n ELSE copy[h].next
  <2>1. Store(L, bg.ptr, n, copy)
    BY <1>2, <1>3, <1>6, <1>8, <1>9 DEF Store
  <2>2. AfterStore(bg.ptr, n, copy)
    BY <2>1, PointerStored
  <2> QED  BY <2>2 DEF AfterStore
<1>11. bg' \in BgLocals /\ bg'.pc = "delete" /\ bg'.old = <<g>> /\ bg'.slot = bg.slot /\ bg'.ptr = bg.ptr
       /\ bg'.inter = <<>> /\ bg'.new = <<>> /\ bg'.listed = <<>> /\ bg'.adjusted = bg.adjusted
  <2>1. "delete" \in BgLabels /\ <<g>> \in Seq(Groups)
    BY Singles DEF BgLabels
  <2> QED  BY <1>3, <1>4, <1>6, <2>1 DEF BgLocals
<1>12. Olds' = {g} /\ Inters' = {} /\ News' = {} /\ Own(L2)' = L2
  <2>1. Olds' = {g} /\ Inters' = {} /\ News' = {}
    BY <1>3, <1>11, Singles DEF Olds, Inters, News
  <2> QED  BY <1>2, <1>3, <2>1 DEF Own
<1>13. \A h \in L : bg.ptr = NextOf(h) => h # g
  <2>1. bg.ptr = Slot(bg.slot) \/ \E v \in P : bg.ptr = NextOf(v)
    BY <1>3, <1>4 DEF PtrInv
  <2>2. g \notin P
    BY <1>3, PtrIs
  <2> QED  BY <2>1, <2>2, PointerMakers
<1>14. bg.ptr # NextOf(n)
  BY <1>2, <1>3, PointerMakers DEF Places
<1>15. \A h \in L : /\ group'[h] # NONE /\ group'[h].array = group[h].array
                    /\ group'[h].buffer = group[h].buffer /\ group'[h].buffer_temp = group[h].buffer_temp
                    /\ group'[h].next = IF bg.ptr = NextOf(h) THEN n ELSE group[h].next
  BY <1>9, <1>10
<1>16. /\ group'[n] # NONE /\ group'[n].array = group[g].array /\ group'[n].buffer = group[g].buffer
       /\ group'[n].buffer_temp = group[g].buffer_temp /\ group'[n].next = group[g].next
  BY <1>2, <1>7, <1>8, <1>10, <1>14
<1>17. Links(L2)' = ({Slot(i) : i \in DOMAIN roots[root]} \cup {NextOf(h) : h \in L2}) \ {}
  BY <1>6, <1>10, <1>11 DEF Links
<1>18. /\ LinkInv(L2)' /\ P \subseteq L2 /\ g \notin P
       /\ \A p \in Links(L2)' : Deref(p)' \in P => p # bg'.ptr /\ Passed(P, p)'
       /\ \A h \in L2 : group'[h].next \in L2 \cup {NONE}
       /\ \A i \in DOMAIN roots[root] : roots'[root][i].group \in L2 \cup {NONE}
       /\ group[g].next # g
  <2>1. Swap(L, L2, {}, g, g, n, n)
    <3>1. L2 = (L \ {g, g}) \cup {n, n} /\ n \in Groups \ L
      BY <1>2
    <3> QED  BY <1>3, <1>6, <1>10, <1>11, <1>15, <1>16, <1>17, <3>1 DEF Swap
  <2>2. LinkInv(L2)' /\ AfterSwap(P, L2, {}, g, g, n)
    BY <1>3, <2>1, SwapLinks
  <2> QED  BY <2>2 DEF AfterSwap
<1>19. TypeOK'
  BY <1>4, <1>6, <1>10, <1>11 DEF TypeOK
<1>20. WorkInv' /\ ChainInv' /\ NextInv' /\ ListInv(P)'
  <2>1. Len(<<g>>) = 1
    OBVIOUS
  <2> QED  BY <1>3, <1>11, <2>1 DEF WorkInv, ChainInv, NextInv, ListInv, Adjusting
<1>21. PlaceInv(L2, {g})'
  <2>1. Retired' = {g}
    BY <1>11, <1>12 DEF Retired
  <2>2. L2 \cap {g} = {}
    BY <1>2, <1>3
  <2> QED  BY <1>11, <2>1, <2>2 DEF PlaceInv
<1>22. GroupInv(L2, {g})'
  <2>1. \A h \in L : /\ mem[group[h].array] # NONE /\ mem[group[h].buffer] # NONE
                     /\ group[h].buffer_temp = NONE
    BY <1>4, <1>5 DEF GroupInv, Array, Buffer
  <2>2. \A h \in L2 \cup {g} : /\ group'[h] # NONE /\ mem'[group'[h].array] # NONE
                               /\ mem'[group'[h].buffer] # NONE /\ group'[h].buffer_temp = NONE
    BY <1>3, <1>6, <1>15, <1>16, <2>1
  <2>3. group'[g].next \in L2 \cup {NONE}
    BY <1>3, <1>13, <1>15, <1>18
  <2> QED  BY <1>12, <1>18, <2>2, <2>3 DEF GroupInv, Array, Buffer
<1>23. SlotInv(L2, {g})'
  <2>1. 1 \in DOMAIN roots[root] /\ roots[root][1].group # NONE
    BY <1>4 DEF SlotInv
  <2>2. n # NONE
    BY <1>2, XIndexAssumption
  <2> QED  BY <1>6, <1>10, <1>11, <1>18, <2>1, <2>2 DEF SlotInv
<1>24. PtrInv(L2, P)'
  <2>1. bg.slot \in DOMAIN roots[root] /\ (bg.ptr = Slot(bg.slot) \/ \E v \in P : bg.ptr = NextOf(v))
    BY <1>3, <1>4 DEF PtrInv
  <2> QED  BY <1>6, <1>10, <1>11, <1>18, <2>1 DEF PtrInv
<1>25. ApartInv(L2)'
  <2>1. \A h \in L : Stored(h)' = Stored(h) /\ Array(h)' = Array(h) /\ Buffer(h)' = Buffer(h)
    BY <1>15 DEF Stored, Array, Buffer
  <2>2. Stored(n)' = Stored(g) /\ Array(n)' = Array(g) /\ Buffer(n)' = Buffer(g)
    BY <1>16 DEF Stored, Array, Buffer
  <2>3. /\ \A h, k \in L : h # k => Stored(h) \cap Stored(k) = {}
        /\ \A h \in L : Array(h) # Buffer(h)
    BY <1>4, <1>5 DEF ApartInv
  <2>4. \A h, k \in L2 : h # k => Stored(h)' \cap Stored(k)' = {}
    BY <1>3, <2>1, <2>2, <2>3
  <2>5. \A h \in L2 : Array(h)' # Buffer(h)'
    BY <1>3, <2>1, <2>2, <2>3
  <2> QED  BY <1>11, <1>12, <2>4, <2>5 DEF ApartInv
<1>26. PointerInv'
  BY <1>3, <1>4, <1>6 DEF PointerInv
<1>27. WorkerInv(L2, {g})'
  <2> SUFFICES ASSUME NEW w \in Workers PROVE WorkerFits(L2, {g}, w)'
    BY DEF WorkerInv
  <2>1. WorkerFits(L, O, w)
    BY <1>4 DEF WorkerInv
  <2>2. L \subseteq L2 \cup {g}
    OBVIOUS
  <2> QED  BY <1>3, <1>5, <1>6, <1>11, <2>1, <2>2 DEF WorkerFits, Is
<1>28. L2 \in SUBSET Groups
  BY <1>2
<1> QED
  BY <1>18, <1>19, <1>20, <1>21, <1>22, <1>23, <1>24, <1>25, <1>26, <1>27, <1>28 DEF Shape

(* The group that was copied is deleted once no worker of before waits.    *)
LEMMA DeleteKeeps ==
    ASSUME NEW L \in SUBSET Groups, NEW O \in SUBSET Groups, NEW P \in SUBSET Groups,
           Shape(L, O, P), DeleteModel
    PROVE  Shape(L, {}, P)'
<1>1. /\ bg.pc = "delete" /\ waits = {}
      /\ group' = [group EXCEPT ![bg.old[1]] = NONE]
      /\ bg' = [bg EXCEPT !.pc = "visit", !.old = <<>>, !.adjusted = bg.adjusted + 1]
      /\ UNCHANGED <<mem, roots, root, waits, pc, call, loc, result>>
  BY DEF DeleteModel, At, BarrierEnds, workerVars
<1>2. /\ TypeOK /\ WorkInv /\ PlaceInv(L, O) /\ GroupInv(L, O) /\ SlotInv(L, O) /\ LinkInv(L)
      /\ PtrInv(L, P) /\ ApartInv(L) /\ PointerInv /\ WorkerInv(L, O) /\ bg \in BgLocals
  BY DEF Shape, TypeOK
<1>3. /\ Len(bg.old) = 1 /\ bg.inter = <<>> /\ bg.new = <<>> /\ bg.listed = <<>>
      /\ bg.adjusted < MaxAdjustments
  BY <1>1, <1>2 DEF WorkInv
<1> PICK g : g = bg.old[1]
  OBVIOUS
<1>4. Olds = {g} /\ g \in Groups /\ Inters = {} /\ News = {} /\ O = {g} /\ g \notin L /\ Own(L) = L
  <2>1. bg.old \in Seq(Groups)
    BY <1>2, BgFields
  <2>2. Olds = {g} /\ g \in Groups /\ Inters = {} /\ News = {}
    BY <1>3, <2>1, Ranges, Singles DEF Olds, Inters, News
  <2>3. O = {g} /\ g \notin L
    BY <1>1, <1>2, <2>2 DEF PlaceInv, Retired
  <2> QED  BY <2>2, <2>3 DEF Own
<1>5. /\ bg' \in BgLocals /\ bg'.pc = "visit" /\ bg'.listed = <<>> /\ bg'.slot = bg.slot
      /\ bg'.ptr = bg.ptr /\ bg'.old = <<>> /\ bg'.inter = <<>> /\ bg'.new = <<>>
  <2>1. "visit" \in BgLabels /\ <<>> \in Seq(Groups) /\ bg.adjusted + 1 \in 0 .. MaxAdjustments
    <3>1. bg.adjusted \in 0 .. MaxAdjustments /\ MaxAdjustments \in Nat
      BY <1>2, BgFields, XIndexAssumption
    <3> QED  BY <1>3, <3>1 DEF BgLabels
  <2> QED  BY <1>1, <1>2, <1>3, <2>1 DEF BgLocals
<1>6. Olds' = {} /\ Inters' = {} /\ News' = {} /\ Sources' = {} /\ Own(L)' = L
  <2>1. Olds' = {} /\ Inters' = {} /\ News' = {}
    BY <1>5, Singles DEF Olds, Inters, News
  <2> QED  BY <2>1 DEF Sources, Olds, Own
<1>7. \A h \in L : group'[h] = group[h]
  BY <1>1, <1>2, <1>4 DEF TypeOK
<1>8. TypeOK'
  <2>1. group' \in [Groups -> GroupRecords \cup {NONE}]
    BY <1>1, <1>2 DEF TypeOK
  <2> QED  BY <1>1, <1>2, <1>5, <2>1 DEF TypeOK
<1>9. WorkInv' /\ PlaceInv(L, {})' /\ ChainInv' /\ NextInv' /\ ListInv(P)'
  BY <1>5, <1>6 DEF WorkInv, PlaceInv, ChainInv, NextInv, ListInv, Adjusting, Retired
<1>10. GroupInv(L, {})'
  BY <1>1, <1>2, <1>4, <1>6, <1>7 DEF GroupInv, Array, Buffer
<1>11. SlotInv(L, {})'
  BY <1>1, <1>2, <1>5 DEF SlotInv
<1>12. Links(L)' = Links(L) /\ \A p \in Links(L) : Deref(p)' = Deref(p)
  <2>1. Links(L)' = Links(L)
    BY <1>1, <1>5 DEF Links
  <2>2. Links(L) = {Slot(i) : i \in DOMAIN roots[root]} \cup {NextOf(h) : h \in L}
    BY <1>1 DEF Links
  <2>3. \A i : Deref(Slot(i))' = Deref(Slot(i))
    BY <1>1 DEF Deref, Slot
  <2>4. \A h \in L : Deref(NextOf(h))' = Deref(NextOf(h))
    BY <1>7 DEF Deref, NextOf
  <2> QED  BY <2>1, <2>2, <2>3, <2>4
<1>13. LinkInv(L)'
  BY <1>2, <1>12 DEF LinkInv
<1>14. PtrInv(L, P)'
  <2>1. \A p \in Links(L)' : Deref(p)' \in P => p # bg'.ptr /\ Passed(P, p)'
    BY <1>1, <1>2, <1>5, <1>12 DEF PtrInv, Passed
  <2> QED  BY <1>1, <1>2, <1>5, <2>1 DEF PtrInv
<1>15. ApartInv(L)'
  <2>1. \A h \in L : Stored(h)' = Stored(h) /\ Array(h)' = Array(h) /\ Buffer(h)' = Buffer(h)
    BY <1>7 DEF Stored, Array, Buffer
  <2> QED  BY <1>2, <1>4, <1>5, <1>6, <2>1 DEF ApartInv
<1>16. PointerInv'
  BY <1>1, <1>2 DEF PointerInv
<1>17. WorkerInv(L, {})'
  <2> SUFFICES ASSUME NEW w \in Workers PROVE WorkerFits(L, {}, w)'
    BY DEF WorkerInv
  <2>1. WorkerFits(L, O, w)
    BY <1>2 DEF WorkerInv
  <2> QED  BY <1>1, <1>5, <2>1 DEF WorkerFits, Is
<1> QED
  BY <1>8, <1>9, <1>10, <1>11, <1>13, <1>14, <1>15, <1>16, <1>17 DEF Shape

-----------------------------------------------------------------------------
(* The first steps of the adjustments that replace the records, too.       *)

(* What an allocation of two stores changes.                               *)
LEMMA Allocated ==
    ASSUME TypeOK, NEW s1 \in FreshStores, NEW s2 \in FreshStores, s1 # s2,
           mem' = [mem EXCEPT ![s1] = Empty, ![s2] = Empty]
    PROVE  /\ mem' \in [Stores -> [Keys -> Records] \cup {NONE}]
           /\ s1 \in Stores /\ s2 \in Stores /\ mem[s1] = NONE /\ mem[s2] = NONE
           /\ mem'[s1] = Empty /\ mem'[s2] = Empty /\ Empty # NONE
           /\ \A s \in Stores : mem[s] # NONE => mem'[s] = mem[s]
           /\ \A s \in Stores : s \notin {s1, s2} => mem'[s] = mem[s]
<1>1. Empty \in [Keys -> Records] /\ Empty # NONE
  BY RecordMakers, NullAssumption
<1>2. s1 \in Stores /\ s2 \in Stores /\ mem[s1] = NONE /\ mem[s2] = NONE
  BY DEF FreshStores
<1>3. mem \in [Stores -> [Keys -> Records] \cup {NONE}]
  BY DEF TypeOK
<1>4. mem' \in [Stores -> [Keys -> Records] \cup {NONE}]
  BY <1>1, <1>2, <1>3
<1>5. \A s \in Stores : mem'[s] = IF s \in {s1, s2} THEN Empty ELSE mem[s]
  BY <1>2, <1>3
<1> QED
  BY <1>1, <1>2, <1>4, <1>5

(* Outside the two phases of compaction no store has a pointer.            *)
LEMMA NoPointers ==
    ASSUME PointerInv, bg.pc \in {"visit", "prepare", "free", "delete"}
    PROVE  \A s \in Stores : mem[s] # NONE => \A k \in Keys : mem[s][k].kind # "ptr"
  BY DEF PointerInv

(* The group that is visited is not its own successor.                     *)
LEMMA NotItself ==
    ASSUME NEW L \in SUBSET Groups, NEW O \in SUBSET Groups, NEW P \in SUBSET Groups,
           Shape(L, O, P), NEW g \in Groups, Visits(g)
    PROVE  /\ g \notin P /\ bg.ptr # NextOf(g) /\ group[g].next # g
           /\ \A i \in DOMAIN roots[root] : roots[root][i].group = g => bg.ptr = Slot(i)
           /\ bg.slot \in Nat /\ bg.ptr # Slot(bg.slot + 1)
<1>1. bg.pc = "visit" /\ g = Deref(bg.ptr) /\ g \in L
  BY Visited
<1>2. PtrInv(L, P) /\ LinkInv(L) /\ TypeOK
  BY DEF Shape
<1>3. bg.ptr \in Links(L) /\ g \notin P
  BY <1>1, PtrIs
<1>4. bg.ptr = Slot(bg.slot) \/ \E v \in P : bg.ptr = NextOf(v)
  BY <1>1, <1>2 DEF PtrInv
<1>5. bg.ptr # NextOf(g)
  BY <1>3, <1>4, PointerMakers
<1>6. bg.slot \in Nat /\ bg.slot # bg.slot + 1
  <2>1. bg.slot \in Nat
    BY <1>2, BgFields DEF TypeOK
  <2> QED  BY <2>1
<1>7. \A p \in Links(L) : Deref(p) = g => p = bg.ptr
  BY <1>1, <1>2, <1>3, XIndexAssumption DEF LinkInv
<1>8. group[g].next # g
  <2>1. NextOf(g) \in Links(L) /\ Deref(NextOf(g)) = group[g].next
    BY <1>1 DEF Links, Deref, NextOf
  <2> QED  BY <1>5, <1>7, <2>1
<1>9. \A i \in DOMAIN roots[root] : roots[root][i].group = g => bg.ptr = Slot(i)
  <2> TAKE i \in DOMAIN roots[root]
  <2>1. Slot(i) \in Links(L) /\ Deref(Slot(i)) = roots[root][i].group
    BY <1>1 DEF Links, Deref, Slot
  <2> QED  BY <1>7, <2>1
<1>10. bg.ptr # Slot(bg.slot + 1)
  BY <1>4, <1>6, PointerMakers
<1> QED
  BY <1>3, <1>5, <1>6, <1>8, <1>9, <1>10

(* split_group_pt1: two groups on the stores of one take its place.        *)
LEMMA SplitKeeps ==
    ASSUME NEW L \in SUBSET Groups, NEW O \in SUBSET Groups, NEW P \in SUBSET Groups,
           Shape(L, O, P), NEW g \in Groups, Split(g)
    PROVE  \E L2 \in SUBSET Groups : Shape(L2, {g}, P)'
<1>1. Visits(g) /\ AtLeastTwo(FreshGroups) /\ AtLeastTwo(FreshStores)
  BY DEF Split
<1>2. FreshGroups \subseteq Groups /\ FreshStores \subseteq Stores /\ Groups \subseteq Nat /\ Stores \subseteq Nat
  BY XIndexAssumption DEF FreshGroups, FreshStores
<1> PICK i1, i2, t1, t2 : /\ i1 = First(FreshGroups) /\ i2 = Second(FreshGroups)
                          /\ t1 = First(FreshStores) /\ t2 = Second(FreshStores)
  OBVIOUS
<1>3. i1 \in FreshGroups /\ i2 \in FreshGroups /\ i1 # i2 /\ t1 \in FreshStores /\ t2 \in FreshStores
      /\ t1 # t2
  <2>1. FreshGroups \subseteq Nat /\ FreshStores \subseteq Nat
    BY <1>2
  <2> QED  BY <1>1, <2>1, TwoOf
<1>4. PICK middle \in Middle(g) :
        /\ mem' = [mem EXCEPT ![t1] = Empty, ![t2] = Empty]
        /\ group' = GroupsWith([group EXCEPT
                      ![i1] = NewGroup(group[g].pivot, group[g].array, group[g].buffer, t1, TRUE, i2),
                      ![i2] = NewGroup(middle, group[g].array, group[g].buffer, t2, TRUE, group[g].next)],
                      bg.ptr, i1)
        /\ roots' = RootsWith(bg.ptr, i1)
        /\ bg' = [bg EXCEPT !.pc = "prepare", !.kind = "split", !.old = <<g>>, !.inter = <<i1, i2>>]
        /\ waits' = Workers
        /\ UNCHANGED <<root, pc, call, loc, result>>
  BY DEF Split, workerVars
<1> DEFINE r1 == NewGroup(group[g].pivot, group[g].array, group[g].buffer, t1, TRUE, i2)
           r2 == NewGroup(middle, group[g].array, group[g].buffer, t2, TRUE, group[g].next)
           both == [group EXCEPT ![i1] = r1, ![i2] = r2]
<1>5. /\ i1 \in Groups \ L /\ i2 \in Groups \ L /\ group[i1] = NONE /\ group[i2] = NONE
  BY <1>3, FreshGroup
<1>6. /\ bg.pc = "visit" /\ g = Deref(bg.ptr) /\ g \in L /\ group[g] \in GroupRecords
      /\ Array(g) \in Stores /\ Buffer(g) \in Stores /\ group[g].pivot \in Keys
      /\ group[g].next \in L \cup {NONE} /\ bg.adjusted < MaxAdjustments
      /\ bg.ptr \in Places(L)
      /\ \A h \in L : group[h] \in GroupRecords /\ group[h] # NONE
      /\ bg.old = <<>> /\ bg.inter = <<>> /\ bg.new = <<>> /\ bg.listed = <<>>
  BY <1>1, Visited
<1>7. /\ TypeOK /\ WorkInv /\ GroupInv(L, O) /\ SlotInv(L, O) /\ PtrInv(L, P) /\ ApartInv(L)
      /\ PointerInv /\ WorkerInv(L, O) /\ bg \in BgLocals
  BY DEF Shape, TypeOK
<1>8. /\ Olds = {} /\ Inters = {} /\ News = {} /\ O = {} /\ Own(L) = L
  BY <1>6, AtRest
<1>9. /\ mem' \in [Stores -> [Keys -> Records] \cup {NONE}]
      /\ t1 \in Stores /\ t2 \in Stores /\ mem[t1] = NONE /\ mem[t2] = NONE
      /\ mem'[t1] = Empty /\ mem'[t2] = Empty /\ Empty # NONE
      /\ \A s \in Stores : mem[s] # NONE => mem'[s] = mem[s]
      /\ \A s \in Stores : s \notin {t1, t2} => mem'[s] = mem[s]
  BY <1>3, <1>4, <1>7, Allocated, ZenonT(30)
<1>10. /\ r1 \in GroupRecords /\ r1.array = Array(g) /\ r1.buffer = Buffer(g) /\ r1.buffer_temp = t1
       /\ r1.next = i2
       /\ r2 \in GroupRecords /\ r2.array = Array(g) /\ r2.buffer = Buffer(g) /\ r2.buffer_temp = t2
       /\ r2.next = group[g].next
  <2>1. middle \in Keys
    BY DEF Middle
  <2>2. group[g].array \in Stores /\ group[g].buffer \in Stores /\ TRUE \in BOOLEAN
        /\ i2 \in Groups \cup {NONE} /\ group[g].next \in Groups \cup {NONE}
        /\ t1 \in Stores \cup {NONE} /\ t2 \in Stores \cup {NONE}
    BY <1>5, <1>6, <1>9 DEF Array, Buffer
  <2>3. /\ r1 \in GroupRecords /\ r1.array = group[g].array /\ r1.buffer = group[g].buffer
        /\ r1.buffer_temp = t1 /\ r1.next = i2
    <3>1. i2 \in Groups \cup {NONE} /\ t1 \in Stores \cup {NONE}
      BY <2>2
    <3> QED  BY <1>6, <2>2, <3>1 DEF NewGroup, GroupRecords
  <2>4. /\ r2 \in GroupRecords /\ r2.array = group[g].array /\ r2.buffer = group[g].buffer
        /\ r2.buffer_temp = t2 /\ r2.next = group[g].next
    BY <1>6, <2>1, <2>2 DEF NewGroup, GroupRecords
  <2> HIDE DEF r1, r2
  <2> QED  BY <2>3, <2>4 DEF Array, Buffer
<1> HIDE DEF r1, r2
<1>11. /\ both \in [Groups -> GroupRecords \cup {NONE}] /\ both[i1] = r1 /\ both[i2] = r2
       /\ \A h \in Groups : h # i1 /\ h # i2 => both[h] = group[h]
  BY <1>3, <1>5, <1>7, <1>10 DEF TypeOK
<1>12. \A h \in L : both[h] \in GroupRecords /\ both[h] = group[h]
  BY <1>5, <1>6, <1>11
<1>13. group' = GroupsWith(both, bg.ptr, i1)
  BY <1>4 DEF r1, r2
<1> HIDE DEF both
<1>14. /\ roots' \in [Roots -> Slots \cup {NONE}] /\ group' \in [Groups -> GroupRecords \cup {NONE}]
       /\ roots'[root] # NONE /\ DOMAIN roots'[root] = DOMAIN roots[root]
       /\ \A i \in DOMAIN roots[root] :
             roots'[root][i].group = IF bg.ptr = Slot(i) THEN i1 ELSE roots[root][i].group
       /\ \A h \in Groups : both[h] \in GroupRecords =>
             /\ group'[h] \in GroupRecords /\ group'[h] # NONE
             /\ group'[h].array = both[h].array /\ group'[h].buffer = both[h].buffer
             /\ group'[h].buffer_temp = both[h].buffer_temp
             /\ group'[h].next = IF bg.ptr = NextOf(h) THEN i1 ELSE both[h].next
  <2>1. Store(L, bg.ptr, i1, both)
    BY <1>4, <1>5, <1>6, <1>11, <1>12, <1>13 DEF Store
  <2>2. AfterStore(bg.ptr, i1, both)
    BY <2>1, PointerStored
  <2> QED  BY <2>2 DEF AfterStore
<1> PICK L2 : L2 = (L \ {g}) \cup {i1, i2}
  OBVIOUS
<1>15. /\ bg' \in BgLocals /\ bg'.pc = "prepare" /\ bg'.kind = "split" /\ bg'.old = <<g>>
       /\ bg'.inter = <<i1, i2>> /\ bg'.slot = bg.slot /\ bg'.ptr = bg.ptr
       /\ bg'.new = <<>> /\ bg'.listed = <<>> /\ bg'.adjusted = bg.adjusted
  <2>1. "prepare" \in BgLabels /\ <<g>> \in Seq(Groups) /\ <<i1, i2>> \in Seq(Groups)
    BY <1>5, Singles DEF BgLabels
  <2> QED  BY <1>4, <1>6, <1>7, <2>1 DEF BgLocals
<1>16. Olds' = {g} /\ Inters' = {i1, i2} /\ News' = {} /\ Own(L2)' = L \ {g} /\ Sources' = Stored(g)'
  <2>1. Olds' = {g} /\ Inters' = {i1, i2} /\ News' = {}
    BY <1>5, <1>6, <1>15, Singles DEF Olds, Inters, News
  <2>2. Sources' = Stored(g)'
    BY <2>1 DEF Sources, Stored, Olds
  <2> QED  BY <1>5, <2>1, <2>2 DEF Own
<1>17. /\ bg.ptr # NextOf(g) /\ g \notin P /\ group[g].next # g
  BY <1>1, NotItself
<1>18. bg.ptr # NextOf(i1) /\ bg.ptr # NextOf(i2)
  BY <1>5, <1>6, PointerMakers DEF Places
<1>19. \A h \in L : /\ group'[h] # NONE /\ group'[h].array = group[h].array
                    /\ group'[h].buffer = group[h].buffer /\ group'[h].buffer_temp = group[h].buffer_temp
                    /\ group'[h].next = IF bg.ptr = NextOf(h) THEN i1 ELSE group[h].next
  BY <1>12, <1>14
<1>20. /\ group'[i1] # NONE /\ group'[i1].array = Array(g) /\ group'[i1].buffer = Buffer(g)
       /\ group'[i1].buffer_temp = t1 /\ group'[i1].next = i2
       /\ group'[i2] # NONE /\ group'[i2].array = Array(g) /\ group'[i2].buffer = Buffer(g)
       /\ group'[i2].buffer_temp = t2 /\ group'[i2].next = group[g].next
  BY <1>5, <1>10, <1>11, <1>14, <1>18
<1>21. Links(L2)' = ({Slot(i) : i \in DOMAIN roots[root]} \cup {NextOf(h) : h \in L2}) \ {}
  BY <1>4, <1>14, <1>15 DEF Links
<1>22. /\ LinkInv(L2)' /\ P \subseteq L2
       /\ \A p \in Links(L2)' : Deref(p)' \in P => p # bg'.ptr /\ Passed(P, p)'
       /\ Deref(bg.ptr)' = i1
       /\ \A h \in L2 : group'[h].next \in L2 \cup {NONE}
       /\ \A i \in DOMAIN roots[root] : roots'[root][i].group \in L2 \cup {NONE}
  <2>1. Swap(L, L2, {}, g, g, i1, i2)
    <3>1. L2 = (L \ {g, g}) \cup {i1, i2}
      OBVIOUS
    <3>2. \A h \in L : group'[h].next = IF bg.ptr = NextOf(h) THEN i1 ELSE group[h].next
      BY <1>19
    <3>3. group'[i1].next = i2 /\ group'[i2].next = group[g].next
      BY <1>20
    <3> QED  BY <1>4, <1>5, <1>6, <1>14, <1>15, <1>21, <3>1, <3>2, <3>3 DEF Swap
  <2>2. LinkInv(L2)' /\ AfterSwap(P, L2, {}, g, g, i1)
    BY <1>6, <2>1, SwapLinks
  <2> QED  BY <2>2 DEF AfterSwap
<1>23. TypeOK'
  BY <1>4, <1>7, <1>9, <1>14, <1>15 DEF TypeOK
<1>24. /\ Len(bg'.old) = 1 /\ Len(bg'.inter) = 2 /\ Len(bg'.new) = 0
       /\ bg'.inter[1] = i1 /\ bg'.inter[2] = i2
  BY <1>5, <1>6, <1>15, Singles
<1>25. WorkInv' /\ ChainInv' /\ NextInv' /\ ListInv(P)'
  BY <1>3, <1>6, <1>15, <1>20, <1>24 DEF WorkInv, ChainInv, NextInv, ListInv, Adjusting
<1>26. PlaceInv(L2, {g})'
  <2>1. Retired' = {g}
    BY <1>15, <1>16 DEF Retired
  <2>2. L2 \cap {g} = {} /\ {i1, i2} \subseteq L2
    BY <1>5, <1>6
  <2> QED  BY <1>15, <1>16, <2>1, <2>2 DEF PlaceInv
<1>27. \A h \in L : /\ group[h].array \in Stores /\ group[h].buffer \in Stores
                    /\ mem[group[h].array] # NONE /\ mem[group[h].buffer] # NONE
                    /\ group[h].buffer_temp = NONE
  <2>1. \A h \in L : /\ mem[group[h].array] # NONE /\ mem[group[h].buffer] # NONE
                     /\ group[h].buffer_temp = NONE
    BY <1>7, <1>8 DEF GroupInv, Array, Buffer
  <2>2. \A h \in L : group[h].array \in Stores /\ group[h].buffer \in Stores
    BY <1>6, GroupFields
  <2> QED  BY <2>1, <2>2
<1>28. GroupInv(L2, {g})'
  <2>1. ASSUME NEW h \in L2 \cup {g}
        PROVE  /\ group'[h] # NONE /\ mem'[group'[h].array] # NONE /\ mem'[group'[h].buffer] # NONE
               /\ group'[h].buffer_temp # NONE => mem'[group'[h].buffer_temp] # NONE
               /\ h \notin {g, i1, i2} => group'[h].buffer_temp = NONE
    <3>1. CASE h \in L
      <4>1. mem'[group[h].array] # NONE /\ mem'[group[h].buffer] # NONE
        BY <1>9, <1>27, <3>1
      <4> QED  BY <1>19, <1>27, <3>1, <4>1
    <3>2. mem'[Array(g)] # NONE /\ mem'[Buffer(g)] # NONE
      BY <1>6, <1>9, <1>27 DEF Array, Buffer
    <3>3. CASE h = i1
      BY <1>9, <1>20, <3>2, <3>3
    <3>4. CASE h = i2
      BY <1>9, <1>20, <3>2, <3>4
    <3> QED  BY <1>6, <3>1, <3>3, <3>4
  <2>2. group'[g].next \in L2 \cup {NONE}
    BY <1>6, <1>17, <1>19, SMTT(30)
  <2> QED  BY <1>16, <1>22, <2>1, <2>2 DEF GroupInv, Array, Buffer
<1>29. SlotInv(L2, {g})'
  <2>1. 1 \in DOMAIN roots[root] /\ roots[root][1].group # NONE
    BY <1>7 DEF SlotInv
  <2>2. i1 # NONE
    BY <1>5, XIndexAssumption
  <2> QED  BY <1>4, <1>14, <1>15, <1>22, <2>1, <2>2 DEF SlotInv
<1>30. PtrInv(L2, P)'
  <2>1. bg.slot \in DOMAIN roots[root] /\ (bg.ptr = Slot(bg.slot) \/ \E v \in P : bg.ptr = NextOf(v))
    BY <1>6, <1>7 DEF PtrInv
  <2>2. Deref(bg.ptr)' = i1 /\ bg'.pc = "prepare" /\ bg'.kind = "split"
    BY <1>15, <1>22
  <2>3. \A p \in Links(L2)' : Deref(p)' \in P => p # bg'.ptr /\ Passed(P, p)'
    BY <1>22
  <2>4. /\ P \subseteq L2 /\ bg'.slot \in DOMAIN roots'[root']
        /\ bg'.ptr = Slot(bg'.slot) \/ \E v \in P : bg'.ptr = NextOf(v)
    BY <1>4, <1>14, <1>15, <1>22, <2>1
  <2>5. Deref(bg.ptr)' = bg'.inter[1]
    BY <1>24, <2>2
  <2> QED  BY <2>2, <2>3, <2>4, <2>5 DEF PtrInv
<1>31. ApartInv(L2)'
  <2>1. \A h \in L : Stored(h)' = Stored(h) /\ Array(h)' = Array(h) /\ Buffer(h)' = Buffer(h)
    BY <1>19 DEF Stored, Array, Buffer
  <2>2. Stored(i1)' = Stored(g) /\ Stored(i2)' = Stored(g)
    BY <1>20 DEF Stored, Array, Buffer
  <2>3. /\ \A h, k \in L : h # k => Stored(h) \cap Stored(k) = {}
        /\ \A h \in L : Array(h) # Buffer(h)
    BY <1>7, <1>8 DEF ApartInv
  <2>4. \A h \in L : t1 \notin Stored(h) /\ t2 \notin Stored(h)
    BY <1>9, <1>27 DEF Stored, Array, Buffer
  <2>5. t1 # NONE /\ t2 # NONE
    BY <1>9, XIndexAssumption
  <2>6. group[bg.inter[1]].buffer_temp' = t1 /\ group[bg.inter[2]].buffer_temp' = t2
    BY <1>20, <1>24
  <2>7. \A h, k \in Own(L2)' : h # k => Stored(h)' \cap Stored(k)' = {}
    BY <1>16, <2>1, <2>3
  <2>8. \A h \in Own(L2)' : Stored(h)' \cap Sources' = {} /\ Array(h)' # Buffer(h)'
    BY <1>6, <1>16, <2>1, <2>3
  <2>9. \A h \in Inters' : Stored(h)' \subseteq Sources'
    BY <1>6, <1>16, <2>1, <2>2
  <2>10. \A h \in Inters' : /\ group'[h].buffer_temp \notin Sources' \cup {NONE}
                            /\ \A k \in Own(L2)' : group'[h].buffer_temp \notin Stored(k)'
    BY <1>6, <1>16, <1>20, <2>1, <2>4, <2>5, ZenonT(30)
  <2> QED  BY <1>3, <1>16, <2>6, <2>7, <2>8, <2>9, <2>10 DEF ApartInv
<1>32. PointerInv'
  <2>1. \A s \in Stores : mem[s] # NONE => \A k \in Keys : mem[s][k].kind # "ptr"
    BY <1>6, <1>7, NoPointers
  <2>2. \A k \in Keys : Empty[k].kind # "ptr"
    BY RecordMakers
  <2>3. \A s \in Stores : mem'[s] # NONE => \A k \in Keys : mem'[s][k].kind # "ptr"
    BY <1>9, <2>1, <2>2
  <2> QED  BY <2>3 DEF PointerInv
<1>33. WorkerInv(L2, {g})'
  <2> SUFFICES ASSUME NEW w \in Workers PROVE WorkerFits(L2, {g}, w)'
    BY DEF WorkerInv
  <2>1. WorkerFits(L, O, w)
    BY <1>7 DEF WorkerInv
  <2>2. L \subseteq L2 \cup {g}
    OBVIOUS
  <2> QED  BY <1>4, <1>6, <1>8, <1>15, <2>1, <2>2 DEF WorkerFits, Is
<1>34. L2 \in SUBSET Groups
  BY <1>5
<1> QED
  BY <1>22, <1>23, <1>25, <1>26, <1>28, <1>29, <1>30, <1>31, <1>32, <1>33, <1>34 DEF Shape

(* Freezing changes no link and no array.                                  *)
LEMMA FreezeKeeps ==
    ASSUME NEW L \in SUBSET Groups, NEW O \in SUBSET Groups, NEW P \in SUBSET Groups,
           Shape(L, O, P), NEW g \in Groups, Visits(g),
           NEW kind \in {"merge", "compact"}, NEW old \in Seq(Groups),
           NEW next_ptr \in Pointer \cup {NONE},
           Len(old) = (IF kind = "merge" THEN 2 ELSE 1), Range(old) \subseteq L, old[1] = g,
           kind = "merge" =>
              /\ old[1] # old[2] /\ Deref(next_ptr) = old[2]
              /\ \/ next_ptr = NextOf(g)
                 \/ next_ptr = Slot(bg.slot + 1) /\ bg.slot + 1 \in DOMAIN roots[root],
           Freeze(kind, old, next_ptr)
    PROVE  Shape(L, {}, P)'
<1>1. /\ group' = [h \in Groups |-> IF h \in Range(old) THEN [group[h] EXCEPT !.buf_frozen = TRUE]
                                    ELSE group[h]]
      /\ bg' = [bg EXCEPT !.pc = "prepare", !.kind = kind, !.old = old, !.next_ptr = next_ptr]
      /\ waits' = Workers
      /\ UNCHANGED <<mem, roots, root, pc, call, loc, result>>
  BY DEF Freeze, workerVars
<1>2. /\ bg.pc = "visit" /\ g = Deref(bg.ptr) /\ g \in L
      /\ bg.adjusted < MaxAdjustments
      /\ \A h \in L : group[h] \in GroupRecords /\ group[h] # NONE
      /\ bg.old = <<>> /\ bg.inter = <<>> /\ bg.new = <<>> /\ bg.listed = <<>>
  BY Visited
<1>3. /\ TypeOK /\ WorkInv /\ GroupInv(L, O) /\ SlotInv(L, O) /\ LinkInv(L) /\ PtrInv(L, P)
      /\ ApartInv(L) /\ PointerInv /\ WorkerInv(L, O) /\ bg \in BgLocals
  BY DEF Shape, TypeOK
<1>4. /\ Olds = {} /\ Inters = {} /\ News = {} /\ O = {} /\ Own(L) = L
  BY <1>2, AtRest
<1>5. /\ bg' \in BgLocals /\ bg'.pc = "prepare" /\ bg'.kind = kind /\ bg'.old = old
      /\ bg'.inter = <<>> /\ bg'.new = <<>> /\ bg'.slot = bg.slot /\ bg'.ptr = bg.ptr
      /\ bg'.listed = <<>> /\ bg'.adjusted = bg.adjusted /\ bg'.next_ptr = next_ptr
  <2>1. "prepare" \in BgLabels /\ kind \in {"none", "split", "merge", "compact"}
    BY DEF BgLabels
  <2> QED  BY <1>1, <1>2, <1>3, <2>1 DEF BgLocals
<1>6. Olds' = Range(old) /\ Inters' = {} /\ News' = {} /\ Own(L)' = L \ Range(old)
  <2>1. Olds' = Range(old) /\ Inters' = {} /\ News' = {}
    BY <1>5, Singles DEF Olds, Inters, News
  <2> QED  BY <2>1 DEF Own
<1>7. \A h \in L : /\ group'[h] \in GroupRecords /\ group'[h] # NONE /\ group'[h].next = group[h].next
                   /\ group'[h].array = group[h].array /\ group'[h].buffer = group[h].buffer
                   /\ group'[h].buffer_temp = group[h].buffer_temp
  <2> TAKE h \in L
  <2>1. CASE h \in Range(old)
    <3>1. group[h] \in GroupRecords /\ TRUE \in BOOLEAN
      BY <1>2
    <3>2. /\ [group[h] EXCEPT !.buf_frozen = TRUE] \in GroupRecords
          /\ [group[h] EXCEPT !.buf_frozen = TRUE].next = group[h].next
          /\ [group[h] EXCEPT !.buf_frozen = TRUE].array = group[h].array
          /\ [group[h] EXCEPT !.buf_frozen = TRUE].buffer = group[h].buffer
          /\ [group[h] EXCEPT !.buf_frozen = TRUE].buffer_temp = group[h].buffer_temp
      BY <3>1, FrozenFields
    <3>3. group'[h] = [group[h] EXCEPT !.buf_frozen = TRUE]
      BY <1>1, <2>1
    <3>4. group'[h] # NONE
      BY <3>2, <3>3, NullAssumption
    <3> QED  BY <3>2, <3>3, <3>4, Zenon
  <2>2. CASE h \notin Range(old)
    BY <1>1, <1>2, <2>2
  <2> QED  BY <2>1, <2>2
<1>8. TypeOK'
  <2>1. \A h \in Groups : group'[h] \in GroupRecords \cup {NONE}
    <3>1. \A h \in Groups : h \notin L => group'[h] = group[h]
      BY <1>1
    <3> QED  BY <1>3, <1>7, <3>1 DEF TypeOK
  <2>2. group' = [h \in Groups |-> group'[h]]
    BY <1>1
  <2>3. group' \in [Groups -> GroupRecords \cup {NONE}]
    BY <2>1, <2>2
  <2> QED  BY <1>1, <1>3, <1>5, <2>3 DEF TypeOK
<1>9. WorkInv' /\ ChainInv' /\ ListInv(P)'
  <2>1. Len(<<>>) = 0
    OBVIOUS
  <2> QED  BY <1>2, <1>5, <2>1 DEF WorkInv, ChainInv, ListInv, Adjusting
<1>10. PlaceInv(L, {})'
  BY <1>5, <1>6 DEF PlaceInv, Retired
<1>11. GroupInv(L, {})'
  <2>1. \A h \in L : /\ mem[group[h].array] # NONE /\ mem[group[h].buffer] # NONE
                     /\ group[h].buffer_temp = NONE /\ group[h].next \in L \cup {NONE}
    BY <1>3, <1>4 DEF GroupInv, Array, Buffer
  <2>2. \A h \in L : /\ group'[h] # NONE /\ mem'[group'[h].array] # NONE
                     /\ mem'[group'[h].buffer] # NONE /\ group'[h].buffer_temp = NONE
                     /\ group'[h].next \in L \cup {NONE}
    BY <1>1, <1>7, <2>1, ZenonT(30)
  <2> QED  BY <1>6, <2>2 DEF GroupInv, Array, Buffer
<1>12. SlotInv(L, {})'
  BY <1>1, <1>2, <1>3, <1>5 DEF SlotInv
<1>13. Links(L)' = Links(L) /\ Links(L) = Places(L) /\ \A p \in Links(L) : Deref(p)' = Deref(p)
  <2>1. Links(L)' = Links(L) /\ Links(L) = Places(L)
    BY <1>1, <1>2, <1>5 DEF Links, Places
  <2>2. \A i : Deref(Slot(i))' = Deref(Slot(i))
    BY <1>1 DEF Deref, Slot
  <2>3. \A h \in L : Deref(NextOf(h))' = Deref(NextOf(h))
    BY <1>7 DEF Deref, NextOf
  <2> QED  BY <2>1, <2>2, <2>3 DEF Places
<1>14. LinkInv(L)'
  BY <1>3, <1>13 DEF LinkInv
<1>15. PtrInv(L, P)'
  <2>1. \A p \in Links(L)' : Deref(p)' \in P => p # bg'.ptr /\ Passed(P, p)'
    BY <1>1, <1>2, <1>3, <1>5, <1>13 DEF PtrInv, Passed
  <2>2. bg.ptr \in Links(L)
    BY <1>2, PtrIs
  <2>3. Deref(bg.ptr)' = g
    <3>1. PICK p \in Links(L) : p = bg.ptr
      BY <2>2
    <3>2. Deref(p)' = Deref(p)
      BY <1>13
    <3>3. Deref(bg.ptr)' = Deref(p)'
      BY <1>5, <3>1 DEF Deref
    <3> QED  BY <1>2, <3>1, <3>2, <3>3
  <2> QED  BY <1>1, <1>2, <1>3, <1>5, <2>1, <2>3 DEF PtrInv
<1>16. NextInv'
  <2> SUFFICES ASSUME kind = "merge" PROVE NextInv'
    BY <1>5 DEF NextInv
  <2>1. next_ptr \in Links(L)
    BY <1>2, <1>13 DEF Places
  <2>2. Deref(next_ptr)' = old[2]
    BY <1>13, <2>1
  <2>3. Deref(bg.next_ptr)' = Deref(next_ptr)'
    BY <1>5 DEF Deref
  <2> QED  BY <1>1, <1>5, <2>2, <2>3 DEF NextInv
<1>17. ApartInv(L)'
  <2>1. \A h \in L : Stored(h)' = Stored(h) /\ Array(h)' = Array(h) /\ Buffer(h)' = Buffer(h)
    BY <1>7 DEF Stored, Array, Buffer
  <2>2. Sources' = UNION {Stored(h) : h \in Range(old)}
    BY <1>6, <2>1 DEF Sources, Stored, Olds
  <2>3. \A h \in L \ Range(old) : Stored(h)' \cap Sources' = {}
    <3> SUFFICES ASSUME NEW h \in L \ Range(old), NEW k \in Range(old) PROVE Stored(h) \cap Stored(k) = {}
      BY <2>1, <2>2
    <3> QED  BY <1>3, <1>4 DEF ApartInv
  <2> QED  BY <1>3, <1>4, <1>5, <1>6, <2>1, <2>3 DEF ApartInv
<1>18. PointerInv'
  BY <1>1, <1>2, <1>3 DEF PointerInv
<1>19. WorkerInv(L, {})'
  <2> SUFFICES ASSUME NEW w \in Workers PROVE WorkerFits(L, {}, w)'
    BY DEF WorkerInv
  <2>1. WorkerFits(L, O, w)
    BY <1>3 DEF WorkerInv
  <2> QED  BY <1>1, <1>2, <1>4, <1>5, <2>1 DEF WorkerFits, Is
<1> QED
  BY <1>8, <1>9, <1>10, <1>11, <1>12, <1>14, <1>15, <1>16, <1>17, <1>18, <1>19 DEF Shape

(* Two groups that are to be merged are frozen.                            *)
LEMMA MergeKeeps ==
    ASSUME NEW L \in SUBSET Groups, NEW O \in SUBSET Groups, NEW P \in SUBSET Groups,
           Shape(L, O, P), NEW g \in Groups, Merge(g)
    PROVE  Shape(L, {}, P)'
<1> PICK next_ptr : next_ptr = NextGroup(g)
  OBVIOUS
<1> PICK h : h = Deref(next_ptr)
  OBVIOUS
<1>1. Visits(g) /\ next_ptr # NONE /\ Freeze("merge", <<g, h>>, next_ptr)
  BY DEF Merge
<1>2. bg.pc = "visit" /\ g \in L /\ group[g].next \in L \cup {NONE}
  BY <1>1, Visited
<1>3. /\ group[g].next # g
      /\ \A i \in DOMAIN roots[root] : roots[root][i].group = g => bg.ptr = Slot(i)
      /\ bg.slot \in Nat /\ bg.ptr # Slot(bg.slot + 1)
  BY <1>1, NotItself
<1>4. TypeOK /\ SlotInv(L, O)
  BY DEF Shape
<1>5. CASE group[g].next # NONE
  <2>1. next_ptr = NextOf(g)
    BY <1>5 DEF NextGroup
  <2>2. h = group[g].next
    BY <2>1 DEF Deref, NextOf
  <2>3. h \in L /\ h # g /\ next_ptr \in Pointer
    BY <1>2, <1>3, <1>5, <2>1, <2>2, PointerMakers
  <2>4. <<g, h>> \in Seq(Groups) /\ Len(<<g, h>>) = 2 /\ <<g, h>>[1] = g /\ <<g, h>>[2] = h
        /\ Range(<<g, h>>) \subseteq L
    BY <1>2, <2>3, Singles
  <2> PICK old : old = <<g, h>>
    OBVIOUS
  <2> QED  BY <1>1, <2>1, <2>3, <2>4, FreezeKeeps
<1>6. CASE group[g].next = NONE
  <2>1. /\ next_ptr = Slot(bg.slot + 1) /\ bg.slot < Len(roots[root])
        /\ roots[root][bg.slot + 1].group # NONE
    BY <1>1, <1>6 DEF NextGroup
  <2>2. bg.slot + 1 \in DOMAIN roots[root]
    <3>1. roots[root] \in Slots
      BY <1>4 DEF TypeOK, SlotInv
    <3>2. DOMAIN roots[root] = 1 .. Len(roots[root]) /\ Len(roots[root]) \in Nat
      BY <3>1 DEF Slots
    <3> QED  BY <1>3, <2>1, <3>2
  <2>3. h = roots[root][bg.slot + 1].group
    BY <2>1 DEF Deref, Slot
  <2>4. h \in L /\ h # g /\ next_ptr \in Pointer
    <3>1. h \in L
      BY <1>2, <1>4, <2>1, <2>2, <2>3 DEF SlotInv
    <3>2. bg.slot + 1 \in Nat
      BY <1>3
    <3> QED  BY <1>3, <2>1, <2>2, <2>3, <3>1, <3>2, PointerMakers
  <2>5. <<g, h>> \in Seq(Groups) /\ Len(<<g, h>>) = 2 /\ <<g, h>>[1] = g /\ <<g, h>>[2] = h
        /\ Range(<<g, h>>) \subseteq L
    BY <1>2, <2>4, Singles
  <2> PICK old : old = <<g, h>>
    OBVIOUS
  <2> QED  BY <1>1, <2>1, <2>2, <2>4, <2>5, FreezeKeeps
<1> QED
  BY <1>5, <1>6

(* A group that is to be compacted is frozen.                              *)
LEMMA CompactKeeps ==
    ASSUME NEW L \in SUBSET Groups, NEW O \in SUBSET Groups, NEW P \in SUBSET Groups,
           Shape(L, O, P), NEW g \in Groups, Compact(g)
    PROVE  Shape(L, {}, P)'
<1>1. Visits(g) /\ Freeze("compact", <<g>>, NONE) /\ g \in L
  <2>1. Visits(g) /\ Freeze("compact", <<g>>, NONE)
    BY DEF Compact
  <2> QED  BY <2>1, Visited
<1>2. <<g>> \in Seq(Groups) /\ Len(<<g>>) = 1 /\ <<g>>[1] = g /\ Range(<<g>>) \subseteq L
  BY <1>1, Singles
<1> PICK old : old = <<g>>
  OBVIOUS
<1>3. "compact" # "merge" /\ "compact" \in {"merge", "compact"} /\ NONE \in Pointer \cup {NONE}
  OBVIOUS
<1> QED
  BY <1>1, <1>2, <1>3, FreezeKeeps

-----------------------------------------------------------------------------
(* The new groups.                                                         *)

(* Between the first step and the publication.                             *)
LEMMA Preparing ==
    ASSUME NEW L \in SUBSET Groups, NEW O \in SUBSET Groups, NEW P \in SUBSET Groups,
           Shape(L, O, P), bg.pc = "prepare"
    PROVE  /\ bg.kind \in {"split", "merge", "compact"} /\ News = {} /\ bg.new = <<>> /\ bg.listed = <<>>
           /\ bg.old \in Seq(Groups) /\ bg.inter \in Seq(Groups) /\ Len(bg.old) >= 1
           /\ bg.adjusted < MaxAdjustments /\ bg \in BgLocals
           /\ Len(bg.old) = (IF bg.kind = "merge" THEN 2 ELSE 1)
           /\ Len(bg.inter) = (IF bg.kind = "split" THEN 2 ELSE 0)
           /\ bg.kind = "split" =>
                 /\ Inters = {bg.inter[1], bg.inter[2]} /\ bg.inter[1] # bg.inter[2]
                 /\ Inters \subseteq L /\ O = Olds
           /\ bg.kind # "split" =>
                 /\ Inters = {} /\ Olds \subseteq L /\ O = {}
                 /\ bg.old[1] \in Olds /\ bg.old[Len(bg.old)] \in Olds
           /\ Own(L) = L \ (Olds \cup Inters)
           /\ \A s \in Stores : mem[s] # NONE => \A k \in Keys : mem[s][k].kind # "ptr"
           /\ \A w \in Workers : loc[w].store = NONE
<1>1. /\ TypeOK /\ WorkInv /\ PlaceInv(L, O) /\ PointerInv /\ WorkerInv(L, O) /\ bg \in BgLocals
  BY DEF Shape, TypeOK
<1>2. /\ bg.kind \in {"split", "merge", "compact"} /\ bg.listed = <<>>
      /\ Len(bg.old) = (IF bg.kind = "merge" THEN 2 ELSE 1)
      /\ Len(bg.inter) = (IF bg.kind = "split" THEN 2 ELSE 0)
      /\ Len(bg.new) = 0 /\ bg.adjusted < MaxAdjustments
      /\ bg.kind = "split" => bg.inter[1] # bg.inter[2]
  BY <1>1 DEF WorkInv, Adjusting
<1>3. bg.old \in Seq(Groups) /\ bg.inter \in Seq(Groups) /\ bg.new \in Seq(Groups)
  BY <1>1, BgFields
<1>4. News = {}
  BY <1>2, <1>3, Ranges DEF News
<1>5. bg.new = <<>>
  BY <1>2, <1>3
<1>6. bg.kind = "split" =>
         /\ Inters = {bg.inter[1], bg.inter[2]} /\ Inters \subseteq L /\ O = Olds
  <2> SUFFICES ASSUME bg.kind = "split"
               PROVE  Inters = {bg.inter[1], bg.inter[2]} /\ Inters \subseteq L /\ O = Olds
    OBVIOUS
  <2>1. Inters = {bg.inter[1], bg.inter[2]}
    BY <1>2, <1>3, Ranges DEF Inters
  <2> QED  BY <1>1, <2>1 DEF PlaceInv, Retired
<1>7. bg.kind # "split" =>
         /\ Inters = {} /\ Olds \subseteq L /\ O = {}
         /\ bg.old[1] \in Olds /\ bg.old[Len(bg.old)] \in Olds
  <2> SUFFICES ASSUME bg.kind # "split"
               PROVE  /\ Inters = {} /\ Olds \subseteq L /\ O = {}
                      /\ bg.old[1] \in Olds /\ bg.old[Len(bg.old)] \in Olds
    OBVIOUS
  <2>1. Inters = {}
    BY <1>2, <1>3, Ranges DEF Inters
  <2>2. bg.old[1] \in Olds /\ bg.old[Len(bg.old)] \in Olds
    <3>1. CASE bg.kind = "merge"
      BY <1>2, <1>3, <3>1, Ranges DEF Olds
    <3>2. CASE bg.kind # "merge"
      BY <1>2, <1>3, <3>2, Ranges DEF Olds
    <3> QED  BY <3>1, <3>2
  <2> QED  BY <1>1, <2>1, <2>2 DEF PlaceInv, Retired
<1>8. \A s \in Stores : mem[s] # NONE => \A k \in Keys : mem[s][k].kind # "ptr"
  BY <1>1, NoPointers
<1>9. \A w \in Workers : loc[w].store = NONE
  BY <1>1 DEF WorkerInv, WorkerFits
<1>10. Len(bg.old) >= 1
  BY <1>2
<1> QED
  BY <1>1, <1>2, <1>3, <1>4, <1>5, <1>6, <1>7, <1>8, <1>9, <1>10 DEF Own

(* split_group_pt2: two groups with arrays of their own are allocated.     *)
LEMMA PrepareSplitKeeps ==
    ASSUME NEW L \in SUBSET Groups, NEW O \in SUBSET Groups, NEW P \in SUBSET Groups,
           Shape(L, O, P), PrepareSplit
    PROVE  Shape(L, O, P)'
<1>1. bg.pc = "prepare" /\ bg.kind = "split" /\ waits = {}
      /\ AtLeastTwo(FreshGroups) /\ AtLeastTwo(FreshStores)
  BY DEF PrepareSplit, At, InsertionsEnd, BarrierEnds
<1> PICK n1, n2, a1, a2 : /\ n1 = First(FreshGroups) /\ n2 = Second(FreshGroups)
                          /\ a1 = First(FreshStores) /\ a2 = Second(FreshStores)
  OBVIOUS
<1>2. n1 \in FreshGroups /\ n2 \in FreshGroups /\ n1 # n2 /\ a1 \in FreshStores /\ a2 \in FreshStores
      /\ a1 # a2
  <2>1. FreshGroups \subseteq Nat /\ FreshStores \subseteq Nat
    BY XIndexAssumption DEF FreshGroups, FreshStores
  <2> QED  BY <1>1, <2>1, TwoOf
<1> PICK x1, x2 : x1 = bg.inter[1] /\ x2 = bg.inter[2]
  OBVIOUS
<1> DEFINE r1 == NewGroup(group[x1].pivot, a1, group[x1].buffer_temp, NONE, FALSE, n2)
           r2 == NewGroup(group[x2].pivot, a2, group[x2].buffer_temp, NONE, FALSE, group[x2].next)
<1>3. /\ mem' = [mem EXCEPT ![a1] = Empty, ![a2] = Empty]
      /\ group' = [group EXCEPT ![n1] = r1, ![n2] = r2]
      /\ bg' = [bg EXCEPT !.pc = "merge", !.new = <<n1, n2>>, !.left = Keys]
      /\ UNCHANGED <<roots, root, waits, pc, call, loc, result>>
  BY DEF PrepareSplit, workerVars
<1>4. /\ TypeOK /\ WorkInv /\ PlaceInv(L, O) /\ GroupInv(L, O) /\ ChainInv /\ SlotInv(L, O)
      /\ LinkInv(L) /\ PtrInv(L, P) /\ ApartInv(L)
      /\ PointerInv /\ WorkerInv(L, O) /\ bg \in BgLocals
  BY DEF Shape, TypeOK
<1>5. /\ News = {} /\ bg.new = <<>> /\ bg.listed = <<>>
      /\ bg.old \in Seq(Groups) /\ bg.inter \in Seq(Groups) /\ bg.adjusted < MaxAdjustments
      /\ Len(bg.old) = 1 /\ Len(bg.inter) = 2
      /\ Inters = {x1, x2} /\ x1 # x2 /\ Inters \subseteq L /\ O = Olds
      /\ Own(L) = L \ (Olds \cup Inters)
      /\ \A s \in Stores : mem[s] # NONE => \A k \in Keys : mem[s][k].kind # "ptr"
  BY <1>1, Preparing
<1>6. /\ n1 \in Groups /\ n2 \in Groups /\ group[n1] = NONE /\ group[n2] = NONE
      /\ n1 \notin L \cup O /\ n2 \notin L \cup O
  BY <1>2, FreshGroup
<1>7. /\ mem' \in [Stores -> [Keys -> Records] \cup {NONE}]
      /\ a1 \in Stores /\ a2 \in Stores /\ mem[a1] = NONE /\ mem[a2] = NONE
      /\ mem'[a1] = Empty /\ mem'[a2] = Empty /\ Empty # NONE
      /\ \A s \in Stores : mem[s] # NONE => mem'[s] = mem[s]
      /\ \A s \in Stores : s \notin {a1, a2} => mem'[s] = mem[s]
  BY <1>2, <1>3, <1>4, Allocated, ZenonT(30)
<1>8. \A h \in L \cup O : /\ group[h] \in GroupRecords /\ group[h] # NONE
                          /\ group[h].array \in Stores /\ group[h].buffer \in Stores
                          /\ mem[group[h].array] # NONE /\ mem[group[h].buffer] # NONE
                          /\ group[h].buffer_temp \in Stores \cup {NONE}
                          /\ group[h].buffer_temp # NONE => mem[group[h].buffer_temp] # NONE
                          /\ h \notin Olds \cup Inters => group[h].buffer_temp = NONE
  <2>1. \A h \in L \cup O : group[h] \in GroupRecords /\ group[h] # NONE
    BY <1>4 DEF TypeOK, GroupInv
  <2> QED  BY <1>4, <2>1, GroupFields DEF GroupInv, Array, Buffer
<1> PICK t1, t2 : t1 = group[x1].buffer_temp /\ t2 = group[x2].buffer_temp
  OBVIOUS
<1>9. /\ t1 # t2 /\ t1 \notin Sources \cup {NONE} /\ t2 \notin Sources \cup {NONE}
      /\ \A h \in Own(L) : t1 \notin Stored(h) /\ t2 \notin Stored(h)
  BY <1>1, <1>4, <1>5 DEF ApartInv
<1>10. t1 \in Stores /\ t2 \in Stores /\ mem[t1] # NONE /\ mem[t2] # NONE
  BY <1>5, <1>8, <1>9
<1>11. /\ r1 \in GroupRecords /\ r1.array = a1 /\ r1.buffer = t1 /\ r1.buffer_temp = NONE
       /\ r1.next = n2
       /\ r2 \in GroupRecords /\ r2.array = a2 /\ r2.buffer = t2 /\ r2.buffer_temp = NONE
       /\ r2.next = group[x2].next
  <2>1. group[x1].pivot \in Keys /\ group[x2].pivot \in Keys /\ group[x2].next \in Groups \cup {NONE}
    BY <1>5, <1>8, GroupFields
  <2>2. n2 \in Groups \cup {NONE}
    BY <1>6
  <2>3. /\ r1 \in GroupRecords /\ r1.array = a1 /\ r1.buffer = t1 /\ r1.buffer_temp = NONE
        /\ r1.next = n2
    BY <1>7, <1>10, <2>1, <2>2 DEF NewGroup, GroupRecords
  <2>4. /\ r2 \in GroupRecords /\ r2.array = a2 /\ r2.buffer = t2 /\ r2.buffer_temp = NONE
        /\ r2.next = group[x2].next
    BY <1>7, <1>10, <2>1 DEF NewGroup, GroupRecords
  <2> QED  BY <2>3, <2>4
<1> HIDE DEF r1, r2
<1>12. /\ group' \in [Groups -> GroupRecords \cup {NONE}] /\ group'[n1] = r1 /\ group'[n2] = r2
       /\ \A h \in Groups : h # n1 /\ h # n2 => group'[h] = group[h]
       /\ group'[n1] # NONE /\ group'[n2] # NONE
  <2>1. group \in [Groups -> GroupRecords \cup {NONE}]
    BY <1>4 DEF TypeOK
  <2>2. group' \in [Groups -> GroupRecords \cup {NONE}] /\ group'[n1] = r1 /\ group'[n2] = r2
        /\ \A h \in Groups : h # n1 /\ h # n2 => group'[h] = group[h]
    BY <1>2, <1>3, <1>6, <1>11, <2>1
  <2> QED  BY <1>11, <2>2, NullAssumption
<1>13. \A h \in L \cup O : group'[h] = group[h]
  BY <1>6, <1>12
<1>14. /\ bg' \in BgLocals /\ bg'.pc = "merge" /\ bg'.new = <<n1, n2>> /\ bg'.kind = bg.kind
       /\ bg'.old = bg.old /\ bg'.inter = bg.inter /\ bg'.slot = bg.slot /\ bg'.ptr = bg.ptr
       /\ bg'.listed = <<>> /\ bg'.adjusted = bg.adjusted
  <2>1. "merge" \in BgLabels /\ <<n1, n2>> \in Seq(Groups) /\ Keys \in SUBSET Keys
    BY <1>6, Singles DEF BgLabels
  <2> QED  BY <1>3, <1>4, <1>5, <2>1 DEF BgLocals
<1>15. /\ Len(bg'.new) = 2 /\ bg'.new[1] = n1 /\ bg'.new[2] = n2 /\ News' = {n1, n2}
       /\ Olds' = Olds /\ Inters' = Inters /\ Own(L)' = Own(L) \cup {n1, n2}
  <2>1. Len(bg'.new) = 2 /\ bg'.new[1] = n1 /\ bg'.new[2] = n2 /\ News' = {n1, n2}
    BY <1>6, <1>14, Singles DEF News
  <2>2. Olds' = Olds /\ Inters' = Inters
    BY <1>14 DEF Olds, Inters
  <2>3. n1 \notin Olds \cup Inters /\ n2 \notin Olds \cup Inters
    BY <1>5, <1>6
  <2> QED  BY <1>5, <2>1, <2>2, <2>3 DEF Own
<1>16. TypeOK'
  BY <1>3, <1>4, <1>7, <1>12, <1>14 DEF TypeOK
<1>17. WorkInv' /\ NextInv' /\ ListInv(P)'
  BY <1>1, <1>2, <1>5, <1>14, <1>15 DEF WorkInv, NextInv, ListInv, Adjusting
<1>18. PlaceInv(L, O)'
  <2>1. Retired' = Olds
    BY <1>1, <1>14, <1>15 DEF Retired
  <2> QED  BY <1>1, <1>4, <1>5, <1>6, <1>14, <1>15, <2>1 DEF PlaceInv
<1>19. GroupInv(L, O)'
  <2>1. \A h \in L \cup O :
           /\ group'[h] # NONE /\ mem'[group'[h].array] # NONE /\ mem'[group'[h].buffer] # NONE
           /\ group'[h].buffer_temp # NONE => mem'[group'[h].buffer_temp] # NONE
           /\ h \notin Olds \cup Inters => group'[h].buffer_temp = NONE
    BY <1>7, <1>8, <1>13
  <2>2. \A h \in {n1, n2} :
           /\ group'[h] # NONE /\ mem'[group'[h].array] # NONE /\ mem'[group'[h].buffer] # NONE
           /\ group'[h].buffer_temp = NONE
    BY <1>7, <1>10, <1>11, <1>12
  <2>3. /\ \A h \in L : group'[h].next \in L \cup {NONE}
        /\ \A h \in O : group'[h].next \in L \cup O \cup {NONE}
    BY <1>4, <1>13 DEF GroupInv
  <2> QED  BY <1>15, <2>1, <2>2, <2>3 DEF GroupInv, Array, Buffer
<1>20. ChainInv'
  <2>1. group'[x1] = group[x1] /\ group'[x2] = group[x2] /\ group[x1].next = x2
    BY <1>1, <1>4, <1>5, <1>13 DEF ChainInv
  <2> QED  BY <1>1, <1>11, <1>12, <1>14, <1>15, <2>1 DEF ChainInv, Adjusting
<1>21. SlotInv(L, O)'
  BY <1>1, <1>3, <1>4, <1>14 DEF SlotInv
<1>22. Links(L)' = Links(L) /\ \A p \in Links(L) : Deref(p)' = Deref(p)
  <2>1. Links(L)' = Links(L) /\ Links(L) = Places(L)
    BY <1>1, <1>3, <1>14 DEF Links, Places
  <2>2. \A i : Deref(Slot(i))' = Deref(Slot(i))
    BY <1>3 DEF Deref, Slot
  <2>3. \A h \in L : Deref(NextOf(h))' = Deref(NextOf(h))
    BY <1>13 DEF Deref, NextOf
  <2> QED  BY <2>1, <2>2, <2>3 DEF Places
<1>23. LinkInv(L)'
  BY <1>4, <1>22 DEF LinkInv
<1>24. PtrInv(L, P)'
  <2>1. \A p \in Links(L)' : Deref(p)' \in P => p # bg'.ptr /\ Passed(P, p)'
    BY <1>1, <1>3, <1>4, <1>14, <1>22 DEF PtrInv, Passed
  <2>2. PICK p \in Links(L) : p = bg.ptr
    BY <1>1, PtrIs
  <2>3. Deref(p)' = Deref(p) /\ Deref(p) = x1
    BY <1>1, <1>4, <1>22, <2>2 DEF PtrInv
  <2>4. Deref(bg.ptr)' = Deref(p)'
    BY <1>14, <2>2 DEF Deref
  <2>5. Deref(bg.ptr)' = bg'.inter[1]
    BY <1>14, <2>3, <2>4
  <2> QED  BY <1>1, <1>3, <1>4, <1>14, <2>1, <2>5 DEF PtrInv
<1>25. ApartInv(L)'
  <2>1. \A h \in L \cup O : Stored(h)' = Stored(h) /\ Array(h)' = Array(h) /\ Buffer(h)' = Buffer(h)
    BY <1>13 DEF Stored, Array, Buffer
  <2>2. Stored(n1)' = {a1, t1} /\ Stored(n2)' = {a2, t2}
    BY <1>11, <1>12 DEF Stored, Array, Buffer
  <2>3. Sources' = Sources
    BY <1>5, <1>15, <2>1 DEF Sources, Stored, Olds
  <2>4. \A h \in L \cup O : a1 \notin Stored(h) /\ a2 \notin Stored(h)
    BY <1>7, <1>8 DEF Stored, Array, Buffer
  <2>5. a1 \notin Sources /\ a2 \notin Sources
    BY <1>5, <2>4 DEF Sources, Stored, Olds
  <2>6. a1 \notin {t1, t2} /\ a2 \notin {t1, t2}
    BY <1>7, <1>10
  <2>7. /\ \A h, k \in Own(L) : h # k => Stored(h) \cap Stored(k) = {}
        /\ \A h \in Own(L) : Stored(h) \cap Sources = {} /\ Array(h) # Buffer(h)
        /\ \A h \in Inters : Stored(h) \subseteq Sources
    BY <1>1, <1>4 DEF ApartInv
  <2>8. \A h, k \in Own(L) \cup {n1, n2} : h # k => Stored(h)' \cap Stored(k)' = {}
    <3> SUFFICES ASSUME NEW h \in Own(L) \cup {n1, n2}, NEW k \in Own(L) \cup {n1, n2}, h # k
                 PROVE  Stored(h)' \cap Stored(k)' = {}
      OBVIOUS
    <3>1. CASE h \in Own(L) /\ k \in Own(L)
      BY <1>5, <2>1, <2>7, <3>1
    <3>2. CASE h \in Own(L) /\ k \in {n1, n2}
      BY <1>5, <1>9, <2>1, <2>2, <2>4, <3>2
    <3>3. CASE k \in Own(L) /\ h \in {n1, n2}
      BY <1>5, <1>9, <2>1, <2>2, <2>4, <3>3
    <3>4. CASE h \in {n1, n2} /\ k \in {n1, n2}
      BY <1>2, <1>9, <2>2, <2>6, <3>4
    <3> QED  BY <3>1, <3>2, <3>3, <3>4
  <2>9. \A h \in Own(L) \cup {n1, n2} : Stored(h)' \cap Sources' = {} /\ Array(h)' # Buffer(h)'
    <3> SUFFICES ASSUME NEW h \in Own(L) \cup {n1, n2}
                 PROVE  Stored(h)' \cap Sources' = {} /\ Array(h)' # Buffer(h)'
      OBVIOUS
    <3>1. CASE h \in Own(L)
      BY <1>5, <2>1, <2>3, <2>7, <3>1
    <3>2. CASE h \in {n1, n2}
      <4>1. Array(h)' # Buffer(h)'
        BY <1>11, <1>12, <2>6, <3>2 DEF Array, Buffer
      <4> QED  BY <1>9, <2>2, <2>3, <2>5, <3>2, <4>1
    <3> QED  BY <3>1, <3>2
  <2>10. \A h \in Inters : Stored(h)' \subseteq Sources'
    BY <1>5, <2>1, <2>3, <2>7
  <2>11. \A h \in Olds \cup Inters, n \in {n1, n2} : group'[h].buffer_temp # Array(n)'
    <3> SUFFICES ASSUME NEW h \in Olds \cup Inters, NEW n \in {n1, n2}
                 PROVE  group'[h].buffer_temp # Array(n)'
      OBVIOUS
    <3>1. h \in L \cup O
      BY <1>5
    <3>4. a1 # NONE /\ a2 # NONE
      BY <1>7, XIndexAssumption
    <3>2. group'[h].buffer_temp \notin {a1, a2}
      BY <1>7, <1>8, <1>13, <3>1, <3>4
    <3>3. Array(n)' \in {a1, a2}
      BY <1>11, <1>12 DEF Array
    <3> QED  BY <3>2, <3>3
  <2> QED  BY <1>14, <1>15, <2>8, <2>9, <2>10, <2>11 DEF ApartInv
<1>26. PointerInv'
  <2>1. \A k \in Keys : Empty[k].kind # "ptr"
    BY RecordMakers
  <2>2. \A s \in Stores : mem'[s] # NONE => \A k \in Keys : mem'[s][k].kind # "ptr"
    BY <1>5, <1>7, <2>1
  <2> QED  BY <2>2 DEF PointerInv
<1>27. WorkerInv(L, O)'
  <2> SUFFICES ASSUME NEW w \in Workers PROVE WorkerFits(L, O, w)'
    BY DEF WorkerInv
  <2>1. WorkerFits(L, O, w)
    BY <1>4 DEF WorkerInv
  <2> QED  BY <1>1, <1>3, <1>14, <2>1 DEF WorkerFits, Is
<1> QED
  BY <1>16, <1>17, <1>18, <1>19, <1>20, <1>21, <1>23, <1>24, <1>25, <1>26, <1>27 DEF Shape

(* compact_phase_1 or merge_group_phase_1: buffer_temp is installed.       *)
LEMMA PrepareMergeKeeps ==
    ASSUME NEW L \in SUBSET Groups, NEW O \in SUBSET Groups, NEW P \in SUBSET Groups,
           Shape(L, O, P), PrepareMerge
    PROVE  Shape(L, O, P)'
<1>1. bg.pc = "prepare" /\ bg.kind # "split" /\ waits = {}
      /\ FreshGroups # {} /\ AtLeastTwo(FreshStores)
  BY DEF PrepareMerge, At, InsertionsEnd, BarrierEnds
<1> PICK n, t, a : n = First(FreshGroups) /\ t = First(FreshStores) /\ a = Second(FreshStores)
  OBVIOUS
<1>2. n \in FreshGroups /\ t \in FreshStores /\ a \in FreshStores /\ t # a
  <2>1. FreshGroups \subseteq Nat /\ FreshStores \subseteq Nat
    BY XIndexAssumption DEF FreshGroups, FreshStores
  <2>2. n \in FreshGroups
    BY <1>1, <2>1, SmallestIs DEF First
  <2>3. t \in FreshStores /\ a \in FreshStores /\ t # a
    BY <1>1, <2>1, TwoOf
  <2> QED  BY <2>2, <2>3
<1> PICK x, y : x = bg.old[1] /\ y = bg.old[Len(bg.old)]
  OBVIOUS
<1> DEFINE r == NewGroup(group[x].pivot, a, t, NONE, FALSE, group[y].next)
<1>3. /\ mem' = [mem EXCEPT ![t] = Empty, ![a] = Empty]
      /\ group' = [h \in Groups |-> IF h = n THEN r
                                    ELSE IF h \in Olds THEN [group[h] EXCEPT !.buffer_temp = t]
                                    ELSE group[h]]
      /\ bg' = [bg EXCEPT !.pc = "merge", !.new = <<n>>, !.left = Keys]
      /\ UNCHANGED <<roots, root, waits, pc, call, loc, result>>
  BY DEF PrepareMerge, workerVars, Merged, Olds
<1>4. /\ TypeOK /\ WorkInv /\ PlaceInv(L, O) /\ GroupInv(L, O) /\ SlotInv(L, O)
      /\ LinkInv(L) /\ PtrInv(L, P) /\ NextInv /\ ApartInv(L)
      /\ PointerInv /\ WorkerInv(L, O) /\ bg \in BgLocals
  BY DEF Shape, TypeOK
<1>5. /\ bg.kind \in {"merge", "compact"} /\ News = {} /\ bg.new = <<>> /\ bg.listed = <<>>
      /\ bg.old \in Seq(Groups) /\ bg.inter \in Seq(Groups) /\ bg.adjusted < MaxAdjustments
      /\ Len(bg.old) = (IF bg.kind = "merge" THEN 2 ELSE 1) /\ Len(bg.inter) = 0
      /\ Inters = {} /\ Olds \subseteq L /\ O = {} /\ x \in Olds /\ y \in Olds
      /\ Own(L) = L \ Olds
      /\ \A s \in Stores : mem[s] # NONE => \A k \in Keys : mem[s][k].kind # "ptr"
  BY <1>1, Preparing
<1>6. n \in Groups /\ group[n] = NONE /\ n \notin L
  BY <1>2, FreshGroup
<1>7. /\ mem' \in [Stores -> [Keys -> Records] \cup {NONE}]
      /\ t \in Stores /\ a \in Stores /\ mem[t] = NONE /\ mem[a] = NONE
      /\ mem'[t] = Empty /\ mem'[a] = Empty /\ Empty # NONE
      /\ \A s \in Stores : mem[s] # NONE => mem'[s] = mem[s]
      /\ \A s \in Stores : s \notin {t, a} => mem'[s] = mem[s]
  BY <1>2, <1>3, <1>4, Allocated, ZenonT(30)
<1>8. \A h \in L : /\ group[h] \in GroupRecords /\ group[h] # NONE
                   /\ group[h].array \in Stores /\ group[h].buffer \in Stores
                   /\ mem[group[h].array] # NONE /\ mem[group[h].buffer] # NONE
                   /\ h \notin Olds => group[h].buffer_temp = NONE
                   /\ group[h].next \in L \cup {NONE}
  <2>1. \A h \in L : group[h] \in GroupRecords /\ group[h] # NONE
    BY <1>4 DEF TypeOK, GroupInv
  <2> QED  BY <1>4, <1>5, <2>1, GroupFields DEF GroupInv, Array, Buffer
<1>9. /\ r \in GroupRecords /\ r.array = a /\ r.buffer = t /\ r.buffer_temp = NONE
      /\ r.next = group[y].next
  <2>1. group[x].pivot \in Keys /\ group[y].next \in Groups \cup {NONE}
    BY <1>5, <1>8, GroupFields
  <2> QED  BY <1>7, <2>1 DEF NewGroup, GroupRecords
<1> HIDE DEF r
<1>10. group'[n] = r /\ r # NONE
  BY <1>3, <1>6, <1>9, NullAssumption
<1>11. \A h \in L : /\ group'[h] \in GroupRecords /\ group'[h] # NONE /\ group'[h].next = group[h].next
                    /\ group'[h].array = group[h].array /\ group'[h].buffer = group[h].buffer
                    /\ group'[h].buffer_temp = IF h \in Olds THEN t ELSE NONE
  <2> TAKE h \in L
  <2>1. CASE h \in Olds
    <3>1. group[h] \in GroupRecords /\ t \in Stores \cup {NONE}
      BY <1>7, <1>8
    <3>2. /\ [group[h] EXCEPT !.buffer_temp = t] \in GroupRecords
          /\ [group[h] EXCEPT !.buffer_temp = t].next = group[h].next
          /\ [group[h] EXCEPT !.buffer_temp = t].array = group[h].array
          /\ [group[h] EXCEPT !.buffer_temp = t].buffer = group[h].buffer
          /\ [group[h] EXCEPT !.buffer_temp = t].buffer_temp = t
      BY <3>1, TempFields
    <3>3. group'[h] = [group[h] EXCEPT !.buffer_temp = t]
      BY <1>3, <1>6, <2>1
    <3>4. group'[h] # NONE
      BY <3>2, <3>3, NullAssumption
    <3> QED  BY <2>1, <3>2, <3>3, <3>4
  <2>2. CASE h \notin Olds
    BY <1>3, <1>6, <1>8, <2>2
  <2> QED  BY <2>1, <2>2
<1>12. group' \in [Groups -> GroupRecords \cup {NONE}]
  <2>1. \A h \in Groups : group'[h] \in GroupRecords \cup {NONE}
    <3>1. \A h \in Groups : h \notin L /\ h # n => group'[h] = group[h]
      BY <1>3, <1>5
    <3> QED  BY <1>4, <1>9, <1>10, <1>11, <3>1 DEF TypeOK
  <2>2. group' = [h \in Groups |-> group'[h]]
    BY <1>3
  <2> QED  BY <2>1, <2>2
<1>13. /\ bg' \in BgLocals /\ bg'.pc = "merge" /\ bg'.new = <<n>> /\ bg'.kind = bg.kind
       /\ bg'.old = bg.old /\ bg'.inter = bg.inter /\ bg'.slot = bg.slot /\ bg'.ptr = bg.ptr
       /\ bg'.listed = <<>> /\ bg'.adjusted = bg.adjusted /\ bg'.next_ptr = bg.next_ptr
  <2>1. "merge" \in BgLabels /\ <<n>> \in Seq(Groups) /\ Keys \in SUBSET Keys
    BY <1>6, Singles DEF BgLabels
  <2> QED  BY <1>3, <1>4, <1>5, <2>1 DEF BgLocals
<1>14. /\ Len(bg'.new) = 1 /\ bg'.new[1] = n /\ News' = {n}
       /\ Olds' = Olds /\ Inters' = {} /\ Own(L)' = Own(L) \cup {n}
  <2>1. Len(bg'.new) = 1 /\ bg'.new[1] = n /\ News' = {n}
    BY <1>6, <1>13, Singles DEF News
  <2>2. Olds' = Olds /\ Inters' = Inters
    BY <1>13 DEF Olds, Inters
  <2> QED  BY <1>5, <1>6, <2>1, <2>2 DEF Own
<1>15. TypeOK'
  BY <1>3, <1>4, <1>7, <1>12, <1>13 DEF TypeOK
<1>16. WorkInv' /\ ListInv(P)'
  <2>1. bg.kind = "merge" => bg.old[1] # bg.old[2]
    BY <1>1, <1>4 DEF WorkInv, Adjusting
  <2> QED  BY <1>1, <1>5, <1>13, <1>14, <2>1 DEF WorkInv, ListInv, Adjusting
<1>17. PlaceInv(L, O)'
  <2>1. Retired' = {}
    BY <1>1, <1>13 DEF Retired
  <2> QED  BY <1>1, <1>5, <1>6, <1>13, <1>14, <2>1 DEF PlaceInv
<1>18. GroupInv(L, O)'
  <2>1. \A h \in L :
           /\ group'[h] # NONE /\ mem'[group'[h].array] # NONE /\ mem'[group'[h].buffer] # NONE
           /\ group'[h].buffer_temp # NONE => mem'[group'[h].buffer_temp] # NONE
           /\ h \notin Olds => group'[h].buffer_temp = NONE
           /\ group'[h].next \in L \cup {NONE}
    BY <1>7, <1>8, <1>11
  <2>2. /\ group'[n] # NONE /\ mem'[group'[n].array] # NONE /\ mem'[group'[n].buffer] # NONE
        /\ group'[n].buffer_temp = NONE
    BY <1>7, <1>9, <1>10
  <2> QED  BY <1>5, <1>14, <2>1, <2>2 DEF GroupInv, Array, Buffer
<1>19. ChainInv'
  <2>1. group'[y].next = group[y].next /\ group'[n].next = group[y].next
    BY <1>5, <1>9, <1>10, <1>11
  <2> QED  BY <1>1, <1>13, <1>14, <2>1 DEF ChainInv, Adjusting
<1>20. SlotInv(L, O)'
  BY <1>1, <1>3, <1>4, <1>13 DEF SlotInv
<1>21. Links(L)' = Links(L) /\ Links(L) = Places(L) /\ \A p \in Links(L) : Deref(p)' = Deref(p)
  <2>1. Links(L)' = Links(L) /\ Links(L) = Places(L)
    BY <1>1, <1>3, <1>13 DEF Links, Places
  <2>2. \A i : Deref(Slot(i))' = Deref(Slot(i))
    BY <1>3 DEF Deref, Slot
  <2>3. \A h \in L : Deref(NextOf(h))' = Deref(NextOf(h))
    BY <1>11 DEF Deref, NextOf
  <2> QED  BY <2>1, <2>2, <2>3 DEF Places
<1>22. LinkInv(L)'
  BY <1>4, <1>21 DEF LinkInv
<1>23. PtrInv(L, P)'
  <2>1. \A p \in Links(L)' : Deref(p)' \in P => p # bg'.ptr /\ Passed(P, p)'
    BY <1>1, <1>3, <1>4, <1>13, <1>21 DEF PtrInv, Passed
  <2>2. PICK p \in Links(L) : p = bg.ptr
    BY <1>1, PtrIs
  <2>3. Deref(p)' = Deref(p) /\ Deref(p) = x
    BY <1>1, <1>4, <1>21, <2>2 DEF PtrInv
  <2>4. Deref(bg.ptr)' = Deref(p)'
    BY <1>13, <2>2 DEF Deref
  <2>5. Deref(bg.ptr)' = bg'.old[1]
    BY <1>13, <2>3, <2>4
  <2> QED  BY <1>1, <1>3, <1>4, <1>13, <2>1, <2>5 DEF PtrInv
<1>24. NextInv'
  <2> SUFFICES ASSUME bg.kind = "merge" PROVE NextInv'
    BY <1>13 DEF NextInv
  <2>1. /\ \/ bg.next_ptr = NextOf(bg.old[1])
           \/ bg.next_ptr = Slot(bg.slot + 1) /\ bg.slot + 1 \in DOMAIN roots[root]
        /\ Deref(bg.next_ptr) = bg.old[2]
    BY <1>1, <1>4 DEF NextInv
  <2>2. PICK p \in Links(L) : p = bg.next_ptr
    BY <1>5, <1>21, <2>1 DEF Places
  <2>3. Deref(bg.next_ptr)' = Deref(p)'
    BY <1>13, <2>2 DEF Deref
  <2> QED  BY <1>3, <1>13, <1>21, <2>1, <2>2, <2>3 DEF NextInv
<1>25. ApartInv(L)'
  <2>1. \A h \in L : Stored(h)' = Stored(h) /\ Array(h)' = Array(h) /\ Buffer(h)' = Buffer(h)
    BY <1>11 DEF Stored, Array, Buffer
  <2>2. Stored(n)' = {a, t} /\ Array(n)' = a /\ Buffer(n)' = t
    BY <1>9, <1>10 DEF Stored, Array, Buffer
  <2>3. Sources' = Sources
    BY <1>5, <1>14, <2>1 DEF Sources, Stored, Olds
  <2>4. \A h \in L : a \notin Stored(h) /\ t \notin Stored(h)
    BY <1>7, <1>8 DEF Stored, Array, Buffer
  <2>5. a \notin Sources /\ t \notin Sources
    BY <1>5, <2>4 DEF Sources, Stored, Olds
  <2>6. /\ \A h, k \in Own(L) : h # k => Stored(h) \cap Stored(k) = {}
        /\ \A h \in Own(L) : Stored(h) \cap Sources = {} /\ Array(h) # Buffer(h)
    BY <1>1, <1>4 DEF ApartInv
  <2>7. \A h, k \in Own(L) \cup {n} : h # k => Stored(h)' \cap Stored(k)' = {}
    BY <1>5, <2>1, <2>2, <2>4, <2>6
  <2>8. \A h \in Own(L) \cup {n} : Stored(h)' \cap Sources' = {} /\ Array(h)' # Buffer(h)'
    BY <1>2, <1>5, <2>1, <2>2, <2>3, <2>5, <2>6
  <2>9. \A h \in Olds, m \in {n} : group'[h].buffer_temp # Array(m)'
    BY <1>2, <1>5, <1>11, <2>2
  <2> QED  BY <1>13, <1>14, <2>7, <2>8, <2>9 DEF ApartInv
<1>26. PointerInv'
  <2>1. \A k \in Keys : Empty[k].kind # "ptr"
    BY RecordMakers
  <2>2. \A s \in Stores : mem'[s] # NONE => \A k \in Keys : mem'[s][k].kind # "ptr"
    BY <1>5, <1>7, <2>1
  <2> QED  BY <2>2 DEF PointerInv
<1>27. WorkerInv(L, O)'
  <2> SUFFICES ASSUME NEW w \in Workers PROVE WorkerFits(L, O, w)'
    BY DEF WorkerInv
  <2>1. WorkerFits(L, O, w)
    BY <1>4 DEF WorkerInv
  <2> QED  BY <1>1, <1>3, <1>13, <2>1 DEF WorkerFits, Is
<1> QED
  BY <1>15, <1>16, <1>17, <1>18, <1>19, <1>20, <1>22, <1>23, <1>24, <1>25, <1>26, <1>27 DEF Shape

-----------------------------------------------------------------------------
(* The references of the new arrays.                                       *)

(* The new groups are others than the old ones, on other stores.           *)
LEMMA NewsApart ==
    ASSUME NEW L \in SUBSET Groups, NEW O \in SUBSET Groups, NEW P \in SUBSET Groups,
           Shape(L, O, P), bg.pc \in {"merge", "publish_next", "unlink_next", "replace", "free"}
    PROVE  /\ News \subseteq Own(L) /\ News \subseteq Groups
           /\ Olds \subseteq L \cup O /\ Inters \subseteq L \cup O
           /\ \A n \in News : /\ n \notin Olds \cup Inters /\ group[n] \in GroupRecords /\ group[n] # NONE
                              /\ Array(n) \in Stores /\ Buffer(n) \in Stores
                              /\ mem[Array(n)] # NONE /\ mem[Buffer(n)] # NONE
                              /\ Stored(n) \cap Sources = {}
                              /\ group[n].buffer_temp = NONE
<1>1. TypeOK /\ WorkInv /\ PlaceInv(L, O) /\ GroupInv(L, O) /\ ApartInv(L) /\ bg \in BgLocals
  BY DEF Shape, TypeOK
<1>2. bg.new \in Seq(Groups) /\ bg.inter \in Seq(Groups)
  BY <1>1, BgFields
<1>3. News \subseteq Groups
  BY <1>2, Ranges DEF News
<1>4. bg.kind # "split" => Inters = {}
  <2> SUFFICES ASSUME bg.kind # "split" PROVE Inters = {}
    OBVIOUS
  <2>1. Len(bg.inter) = 0
    BY <1>1 DEF WorkInv, Adjusting
  <2> QED  BY <1>2, <2>1, Ranges DEF Inters
<1>5. News \cap (Olds \cup Inters) = {} /\ Olds \cup Inters \subseteq L \cup O
  <2>1. CASE bg.pc = "merge"
    BY <1>1, <1>4, <2>1 DEF PlaceInv, Retired
  <2>2. CASE bg.pc = "publish_next"
    <3>1. bg.kind # "split"
      BY <1>1, <2>2 DEF WorkInv
    <3> QED  BY <1>1, <1>4, <2>2, <3>1 DEF PlaceInv, Retired
  <2>3. CASE bg.pc \in {"unlink_next", "replace", "free"}
    <3>1. O = Olds \cup Inters /\ News \subseteq L
      BY <1>1, <2>3 DEF PlaceInv, Retired
    <3> QED  BY <1>1, <3>1 DEF PlaceInv
  <2> QED  BY <2>1, <2>2, <2>3
<1>6. News \subseteq Own(L)
  BY <1>5 DEF Own
<1>7. \A n \in News : /\ group[n] # NONE /\ mem[Array(n)] # NONE /\ mem[Buffer(n)] # NONE
                      /\ n \notin Olds \cup Inters /\ group[n].buffer_temp = NONE
  BY <1>1, <1>5 DEF GroupInv
<1>8. \A n \in News : group[n] \in GroupRecords
  BY <1>1, <1>3, <1>7 DEF TypeOK
<1>9. \A n \in News : Array(n) \in Stores /\ Buffer(n) \in Stores
  BY <1>8, GroupFields DEF Array, Buffer
<1>10. \A n \in News : Stored(n) \cap Sources = {}
  BY <1>1, <1>6 DEF ApartInv
<1> QED
  BY <1>3, <1>5, <1>6, <1>7, <1>8, <1>9, <1>10

(* A step of the background thread that changes records alone.             *)
LEMMA BgWrites ==
    ASSUME NEW L \in SUBSET Groups, NEW O \in SUBSET Groups, NEW P \in SUBSET Groups,
           Shape(L, O, P), bg.pc \in {"merge", "replace"},
           UNCHANGED <<group, roots, root, waits, pc, call, loc, result>>,
           bg' = [bg EXCEPT !.left = bg'.left], bg'.left \subseteq Keys,
           mem' \in [Stores -> [Keys -> Records] \cup {NONE}],
           \A s \in Stores : mem[s] # NONE => mem'[s] # NONE,
           PointerInv'
    PROVE  Shape(L, O, P)'
<1> USE DEF Shape
<1>1. /\ bg' \in BgLocals /\ bg'.pc = bg.pc /\ bg'.slot = bg.slot /\ bg'.ptr = bg.ptr
      /\ bg'.kind = bg.kind /\ bg'.old = bg.old /\ bg'.inter = bg.inter /\ bg'.new = bg.new
      /\ bg'.next_ptr = bg.next_ptr /\ bg'.listed = bg.listed /\ bg'.adjusted = bg.adjusted
  <2>1. bg \in BgLocals
    BY DEF TypeOK
  <2> PICK left : left = bg'.left
    OBVIOUS
  <2>2. bg' = [bg EXCEPT !.left = left] /\ left \in SUBSET Keys
    OBVIOUS
  <2> QED  BY <2>1, <2>2 DEF BgLocals
<1>2. Olds' = Olds /\ Inters' = Inters /\ News' = News
  BY <1>1 DEF Olds, Inters, News
<1>3. Sources' = Sources /\ Own(L)' = Own(L) /\ Retired' = Retired
  BY <1>1, <1>2 DEF Sources, Own, Array, Buffer, Retired, Olds
<1>4. TypeOK'
  BY <1>1 DEF TypeOK
<1>5. WorkInv' /\ ChainInv' /\ PlaceInv(L, O)'
  BY <1>1, <1>2, <1>3 DEF WorkInv, ChainInv, PlaceInv, Adjusting
<1>6. GroupInv(L, O)'
  <2>1. \A h \in L \cup O \cup News :
           /\ group[h].array \in Stores /\ group[h].buffer \in Stores
           /\ group[h].buffer_temp \in Stores \cup {NONE}
    <3>1. \A h \in L \cup O \cup News : group[h] \in GroupRecords
      <4>1. \A h \in L \cup O \cup News : h \in Groups /\ group[h] # NONE
        BY NewsApart DEF GroupInv
      <4> QED  BY <4>1 DEF TypeOK
    <3> QED  BY <3>1, GroupFields
  <2> QED  BY <1>2, <2>1 DEF GroupInv, Array, Buffer
<1>7. SlotInv(L, O)'
  BY <1>1 DEF SlotInv
<1>8. Links(L)' = Links(L) /\ \A p : Deref(p)' = Deref(p)
  BY <1>1 DEF Links, Deref
<1>9. LinkInv(L)'
  BY <1>8 DEF LinkInv
<1>10. PtrInv(L, P)'
  <2>1. Deref(bg.ptr)' = Deref(bg.ptr)
    BY <1>1 DEF Deref
  <2>2. \A p : Passed(P, p)' <=> Passed(P, p)
    BY <1>1 DEF Passed
  <2> QED  BY <1>1, <1>2, <1>8, <2>1, <2>2 DEF PtrInv
<1>11. NextInv' /\ ListInv(P)'
  <2>1. Deref(bg.next_ptr)' = Deref(bg.next_ptr)
    BY <1>1 DEF Deref
  <2> QED  BY <1>1, <2>1 DEF NextInv, ListInv
<1>12. ApartInv(L)'
  BY <1>1, <1>2, <1>3 DEF ApartInv, Stored, Array, Buffer
<1>13. WorkerInv(L, O)'
  <2> SUFFICES ASSUME NEW w \in Workers PROVE WorkerFits(L, O, w)'
    BY DEF WorkerInv
  <2>1. WorkerFits(L, O, w)
    BY DEF WorkerInv
  <2> QED  BY <1>1, <1>3, <2>1 DEF WorkerFits, Is
<1> QED
  BY <1>4, <1>5, <1>6, <1>7, <1>9, <1>10, <1>11, <1>12, <1>13

(* A record of a new array changes: to a pointer to a live record of the   *)
(* old groups, or to a record that is no pointer.                          *)
LEMMA RecordStored ==
    ASSUME NEW L \in SUBSET Groups, NEW O \in SUBSET Groups, NEW P \in SUBSET Groups,
           Shape(L, O, P), bg.pc \in {"merge", "replace"},
           NEW n \in News, NEW k \in Keys, NEW r \in Records, Overwrite(Array(n), k, r),
           r.kind = "ptr" => r.val \in Sources /\ mem[r.val][k].kind \in {"val", "removed"},
           UNCHANGED group, bg'.pc = bg.pc, bg'.old = bg.old, bg'.new = bg.new
    PROVE  /\ mem' \in [Stores -> [Keys -> Records] \cup {NONE}]
           /\ \A s \in Stores : mem[s] # NONE => mem'[s] # NONE
           /\ PointerInv'
<1> PICK a : a = Array(n)
  OBVIOUS
<1>1. TypeOK /\ PointerInv
  BY DEF Shape
<1>2. a \in Stores /\ mem[a] # NONE /\ a \notin Sources /\ mem[a] \in [Keys -> Records]
  <2>1. a \in Stores /\ mem[a] # NONE /\ Stored(n) \cap Sources = {}
    BY NewsApart
  <2> QED  BY <1>1, <2>1 DEF TypeOK, Stored
<1>3. mem' = [mem EXCEPT ![a] = [mem[a] EXCEPT ![k] = r]]
  BY <1>1, <1>2 DEF Overwrite, TypeOK
<1>4. /\ mem' \in [Stores -> [Keys -> Records] \cup {NONE}]
      /\ \A s \in Stores : s # a => mem'[s] = mem[s]
      /\ mem'[a] \in [Keys -> Records] /\ mem'[a][k] = r
      /\ \A j \in Keys : j # k => mem'[a][j] = mem[a][j]
  <2>1. [mem[a] EXCEPT ![k] = r] \in [Keys -> Records]
    BY <1>2
  <2>2. mem \in [Stores -> [Keys -> Records] \cup {NONE}]
    BY <1>1 DEF TypeOK
  <2> QED  BY <1>2, <1>3, <2>1, <2>2
<1>5. mem'[a] # NONE
  BY <1>4, NullAssumption
<1>6. \A s \in Stores : mem'[s] = NONE <=> mem[s] = NONE
  <2> SUFFICES ASSUME NEW s \in Stores PROVE mem'[s] = NONE <=> mem[s] = NONE
    OBVIOUS
  <2>1. CASE s = a
    BY <1>2, <1>5, <2>1
  <2>2. CASE s # a
    <3>1. mem'[s] = mem[s]
      BY <1>4, <2>2
    <3> QED  BY <3>1
  <2> QED  BY <2>1, <2>2
<1>11. \A s \in Stores : mem[s] # NONE => mem'[s] # NONE
  BY <1>6
<1>7. Sources \subseteq Stores
  BY OldsStay
<1>8. \A s \in Sources : mem'[s] = mem[s]
  BY <1>2, <1>4, <1>7
<1>9. Sources' = Sources /\ News' = News /\ \A m \in News : Array(m)' = Array(m)
  BY DEF Sources, News, Array, Buffer
<1>10. PointerInv'
  <2> SUFFICES ASSUME NEW s \in Stores, mem'[s] # NONE, NEW j \in Keys, mem'[s][j].kind = "ptr"
               PROVE  /\ \E m \in News : s = Array(m)
                      /\ mem'[s][j].val \in Sources
                      /\ mem'[mem'[s][j].val][j].kind \in {"val", "removed"}
    BY <1>9 DEF PointerInv
  <2>1. CASE s = a /\ j = k
    BY <1>4, <1>8, <2>1
  <2>2. CASE ~(s = a /\ j = k)
    <3>1. mem'[s][j] = mem[s][j] /\ mem[s] # NONE
      BY <1>4, <1>6, <2>2
    <3>2. /\ \E m \in News : s = Array(m)
          /\ mem[s][j].val \in Sources
          /\ mem[mem[s][j].val][j].kind \in {"val", "removed"}
      BY <1>1, <3>1 DEF PointerInv
    <3> QED  BY <1>8, <3>1, <3>2
  <2> QED  BY <2>1, <2>2
<1>12. mem' \in [Stores -> [Keys -> Records] \cup {NONE}]
  BY <1>4
<1> QED
  BY <1>10, <1>11, <1>12

(* merge_refs puts a pointer to a record that is there into a new array.   *)
LEMMA MergeRefKeeps ==
    ASSUME NEW L \in SUBSET Groups, NEW O \in SUBSET Groups, NEW P \in SUBSET Groups,
           Shape(L, O, P), MergeRef
    PROVE  Shape(L, O, P)'
<1> PICK k : k = Smallest(bg.left)
  OBVIOUS
<1>1. /\ bg.pc = "merge" /\ bg.left # {}
      /\ UNCHANGED <<group, roots, root, waits, pc, call, loc, result>>
      /\ bg' = [bg EXCEPT !.left = bg.left \ {k}]
      /\ mem' = mem \/ \E s \in LiveIn(k) : Overwrite(Destination(k), k, Ptr(s))
  BY DEF MergeRef, At, workerVars
<1>2. TypeOK /\ WorkInv /\ PointerInv /\ bg \in BgLocals
  BY DEF Shape, TypeOK
<1>3. bg.left \subseteq Keys /\ k \in Keys /\ bg.new \in Seq(Groups)
  <2>1. bg.left \in SUBSET Keys /\ bg.new \in Seq(Groups)
    BY <1>2, BgFields
  <2>2. bg.left \subseteq Nat
    BY <2>1, XIndexAssumption
  <2>3. k \in bg.left
    BY <1>1, <2>2, SmallestIs
  <2> QED  BY <2>1, <2>3
<1>4. /\ bg'.left = bg.left \ {k} /\ bg' = [bg EXCEPT !.left = bg'.left] /\ bg'.pc = bg.pc
      /\ bg'.old = bg.old /\ bg'.new = bg.new
  <2> PICK left : left = bg.left \ {k}
    OBVIOUS
  <2>1. bg' = [bg EXCEPT !.left = left]
    BY <1>1
  <2>2. bg'.left = left
    BY <1>2, <2>1 DEF BgLocals
  <2> QED  BY <1>2, <2>1, <2>2 DEF BgLocals
<1>5. CASE mem' = mem
  <2>1. PointerInv'
    BY <1>1, <1>2, <1>4, <1>5 DEF PointerInv, Sources, News, Array, Buffer
  <2>2. bg'.left \subseteq Keys
    BY <1>3, <1>4
  <2> QED  BY <1>1, <1>2, <1>4, <1>5, <2>1, <2>2, BgWrites DEF TypeOK
<1>6. ASSUME NEW s \in LiveIn(k), Overwrite(Destination(k), k, Ptr(s))
      PROVE  Shape(L, O, P)'
  <2>1. Len(bg.new) \in {1, 2} /\ bg.new[1] \in News /\ (Len(bg.new) = 2 => bg.new[2] \in News)
    <3>1. Len(bg.new) = 1 \/ Len(bg.new) = 2
      BY <1>1, <1>2 DEF WorkInv, Adjusting
    <3> QED  BY <1>3, <3>1, Ranges DEF News
  <2>2. PICK n \in News : Destination(k) = Array(n)
    BY <2>1 DEF Destination
  <2>3. s \in Sources /\ IsLive(s, k)
    BY DEF LiveIn
  <2>4. s \in Stores /\ mem[s] # NONE
    BY <2>3, OldsStay
  <2>5. Ptr(s) \in Records /\ Ptr(s).kind = "ptr" /\ Ptr(s).val = s
    BY <2>4, RecordMakers
  <2>6. mem[s][k].kind # "ptr"
    <3>1. \A m \in News : Stored(m) \cap Sources = {}
      BY <1>1, NewsApart
    <3> QED  BY <1>2, <1>3, <2>3, <2>4, <3>1 DEF PointerInv, Stored
  <2>7. mem[s][k].kind = "val"
    BY <2>3, <2>6 DEF IsLive, Reads, Target
  <2> PICK r : r = Ptr(s)
    OBVIOUS
  <2>8. Overwrite(Array(n), k, r)
    BY <1>6, <2>2
  <2>9. /\ mem' \in [Stores -> [Keys -> Records] \cup {NONE}]
        /\ \A x \in Stores : mem[x] # NONE => mem'[x] # NONE
        /\ PointerInv'
    <3>1. r \in Records /\ (r.kind = "ptr" => r.val \in Sources /\ mem[r.val][k].kind \in {"val", "removed"})
      BY <2>3, <2>5, <2>7
    <3>2. bg.pc \in {"merge", "replace"}
      BY <1>1
    <3>3. UNCHANGED group /\ bg'.pc = bg.pc /\ bg'.old = bg.old /\ bg'.new = bg.new
      BY <1>1, <1>4
    <3>4. k \in Keys
      BY <1>3
    <3> QED  BY <2>8, <3>1, <3>2, <3>3, <3>4, RecordStored
  <2>10. bg'.left \subseteq Keys
    BY <1>3, <1>4
  <2> QED  BY <1>1, <1>4, <2>9, <2>10, BgWrites
<1> QED
  BY <1>1, <1>5, <1>6

(* replace_pointer puts the record a pointer leads to in its place.        *)
LEMMA ReplaceKeeps ==
    ASSUME NEW L \in SUBSET Groups, NEW O \in SUBSET Groups, NEW P \in SUBSET Groups,
           Shape(L, O, P), ReplacePointer
    PROVE  Shape(L, O, P)'
<1> DEFINE ks == {p[2] : p \in Pointers}
<1> PICK k : k = Smallest(ks)
  OBVIOUS
<1> PICK p : p = CHOOSE q \in Pointers : q[2] = k
  OBVIOUS
<1>1. /\ bg.pc = "replace" /\ Pointers # {}
      /\ UNCHANGED <<group, roots, root, waits, bg, pc, call, loc, result>>
      /\ Overwrite(Array(p[1]), k, Replaced(Array(p[1]), k))
  BY DEF ReplacePointer, At, workerVars
<1>2. TypeOK /\ PointerInv /\ bg \in BgLocals
  BY DEF Shape, TypeOK
<1>3. p \in Pointers /\ p[2] = k
  <2>4. \A q \in Pointers : q[2] \in Keys
    <3>1. \A q \in Pointers : q \in Range(bg.new) \X Keys
      BY Zenon DEF Pointers
    <3> QED  BY <3>1
  <2>5. ks # {} /\ \A x \in ks : x \in Keys
    BY <1>1, <2>4
  <2>1. ks # {} /\ ks \subseteq Nat
    BY <2>5, XIndexAssumption
  <2>2. k \in ks
    BY <2>1, SmallestIs
  <2>3. \E q \in Pointers : q[2] = k
    BY <2>2, Zenon
  <2> QED  BY <2>3, Zenon
<1> PICK n : n = p[1]
  OBVIOUS
<1>4. n \in News /\ k \in Keys /\ mem[Array(n)][k].kind = "ptr"
  <2>1. p \in News \X Keys /\ mem[Array(p[1])][p[2]].kind = "ptr"
    BY <1>3, Zenon DEF Pointers, News
  <2>2. p[1] \in News /\ p[2] \in Keys
    BY <2>1
  <2> QED  BY <1>3, <2>1, <2>2
<1>5. Array(n) \in Stores /\ mem[Array(n)] # NONE
  BY <1>1, <1>4, NewsApart
<1>6. /\ mem[Array(n)][k].val \in Sources
      /\ mem[mem[Array(n)][k].val][k].kind \in {"val", "removed"}
  BY <1>2, <1>4, <1>5 DEF PointerInv
<1>7. Replaced(Array(n), k) \in Records /\ Replaced(Array(n), k).kind # "ptr"
  <2>1. Reads(Array(n), k) = mem[mem[Array(n)][k].val][k]
    BY <1>4, SMTT(30) DEF Reads, Target
  <2>2. mem[mem[Array(n)][k].val] \in [Keys -> Records]
    BY <1>2, <1>6, OldsStay, ZenonT(30) DEF TypeOK
  <2> PICK x : x = Reads(Array(n), k)
    OBVIOUS
  <2>3. x \in Records /\ x.kind # "ptr"
    BY <1>4, <1>6, <2>1, <2>2
  <2>4. Removed \in Records /\ Removed.kind # "ptr"
    BY RecordMakers, RecordKinds
  <2> QED  BY <2>3, <2>4 DEF Replaced
<1> PICK r : r = Replaced(Array(n), k)
  OBVIOUS
<1>8. /\ mem' \in [Stores -> [Keys -> Records] \cup {NONE}]
      /\ \A x \in Stores : mem[x] # NONE => mem'[x] # NONE
      /\ PointerInv'
  <2>1. Overwrite(Array(n), k, r)
    BY <1>1
  <2> QED  BY <1>1, <1>4, <1>7, <2>1, RecordStored
<1>9. bg' = [bg EXCEPT !.left = bg'.left] /\ bg'.left \subseteq Keys
  BY <1>1, <1>2 DEF BgLocals
<1> QED
  BY <1>1, <1>8, <1>9, BgWrites

(* Phase 2 is over when every record of the new arrays is in place.        *)
LEMMA AllReplacedKeeps ==
    ASSUME NEW L \in SUBSET Groups, NEW O \in SUBSET Groups, NEW P \in SUBSET Groups,
           Shape(L, O, P), AllReplaced
    PROVE  Shape(L, O, P)'
<1> USE DEF Shape
<1>1. /\ bg.pc = "replace" /\ Pointers = {} /\ waits = {} /\ waits' = Workers
      /\ bg' = [bg EXCEPT !.pc = "free"]
      /\ UNCHANGED <<mem, group, roots, root, pc, call, loc, result>>
  BY DEF AllReplaced, At, BarrierEnds, memVars, workerVars
<1>2. /\ bg' \in BgLocals /\ bg'.pc = "free" /\ bg'.slot = bg.slot /\ bg'.ptr = bg.ptr
      /\ bg'.kind = bg.kind /\ bg'.old = bg.old /\ bg'.inter = bg.inter /\ bg'.new = bg.new
      /\ bg'.next_ptr = bg.next_ptr /\ bg'.listed = bg.listed /\ bg'.adjusted = bg.adjusted
  <2>1. bg \in BgLocals /\ "free" \in BgLabels
    BY DEF TypeOK, BgLabels
  <2> QED  BY <1>1, <2>1 DEF BgLocals
<1>3. Olds' = Olds /\ Inters' = Inters /\ News' = News
  BY <1>2 DEF Olds, Inters, News
<1>4. Sources' = Sources /\ Own(L)' = Own(L) /\ Retired' = Retired
  BY <1>1, <1>2, <1>3 DEF Sources, Own, Array, Buffer, Retired, Olds
<1>5. TypeOK'
  BY <1>1, <1>2 DEF TypeOK
<1>6. WorkInv' /\ ChainInv' /\ PlaceInv(L, O)'
  BY <1>1, <1>2, <1>3, <1>4 DEF WorkInv, ChainInv, PlaceInv, Adjusting
<1>7. GroupInv(L, O)'
  BY <1>1, <1>3 DEF GroupInv, Array, Buffer
<1>8. SlotInv(L, O)'
  BY <1>1, <1>2 DEF SlotInv
<1>9. Links(L)' = Links(L) /\ \A p : Deref(p)' = Deref(p)
  BY <1>1, <1>2 DEF Links, Deref
<1>10. LinkInv(L)'
  BY <1>9 DEF LinkInv
<1>11. PtrInv(L, P)'
  <2>1. Deref(bg.ptr)' = Deref(bg.ptr)
    BY <1>1, <1>2 DEF Deref
  <2>2. \A p : Passed(P, p)' <=> Passed(P, p)
    BY <1>2 DEF Passed
  <2> QED  BY <1>1, <1>2, <1>3, <1>9, <2>1, <2>2 DEF PtrInv
<1>12. NextInv' /\ ListInv(P)'
  BY <1>2 DEF NextInv, ListInv
<1>13. ApartInv(L)'
  BY <1>1, <1>2, <1>3, <1>4 DEF ApartInv, Stored, Array, Buffer
<1>14. PointerInv'
  <2>1. ASSUME NEW s \in Stores, mem[s] # NONE, NEW k \in Keys, mem[s][k].kind = "ptr"
        PROVE  FALSE
    <3>1. PICK n \in News : s = Array(n)
      BY <2>1 DEF PointerInv
    <3>2. <<n, k>> \in Pointers
      BY <2>1, <3>1 DEF Pointers, News
    <3> QED  BY <1>1, <3>2
  <2> QED  BY <1>1, <2>1 DEF PointerInv
<1>15. WorkerInv(L, O)'
  <2> SUFFICES ASSUME NEW w \in Workers PROVE WorkerFits(L, O, w)'
    BY DEF WorkerInv
  <2>1. WorkerFits(L, O, w)
    BY DEF WorkerInv
  <2> QED  BY <1>1, <1>2, <1>4, <2>1 DEF WorkerFits, Is
<1> QED
  BY <1>5, <1>6, <1>7, <1>8, <1>10, <1>11, <1>12, <1>13, <1>14, <1>15

-----------------------------------------------------------------------------
(* The new groups take the place of the old ones.                          *)

(* The adjusted groups that can still be found begin where the background  *)
(* thread looks, and follow each other.                                    *)
GivesWay(L, O, c1, c2, n1, n2) ==
    /\ n1 = bg.new[1] /\ n2 = bg.new[Len(bg.new)] /\ News = {n1, n2}
    /\ c1 \in L /\ c2 \in L /\ Deref(bg.ptr) = c1
    /\ O \cup {c1, c2} = Olds \cup Inters
    /\ group[n2].next = group[c2].next
    /\ bg.kind = "split" => /\ Inters = {c1, c2} /\ group[c1].next = c2
                            /\ n1 # n2 /\ group[n1].next = n2
    /\ bg.kind # "split" => Olds = {c1, c2} /\ Inters = {} /\ n1 = n2
    /\ bg.kind = "merge" => c1 = bg.old[1] /\ c2 = bg.old[2] /\ c1 # c2
    /\ bg.kind = "compact" => c1 = c2

(* Which groups give way to which when an adjustment is published.         *)
LEMMA Merging ==
    ASSUME NEW L \in SUBSET Groups, NEW O \in SUBSET Groups, NEW P \in SUBSET Groups,
           Shape(L, O, P), bg.pc = "merge"
    PROVE  \E c1, c2, n1, n2 : GivesWay(L, O, c1, c2, n1, n2)
<1> USE DEF GivesWay
<1>1. /\ TypeOK /\ WorkInv /\ PlaceInv(L, O) /\ ChainInv /\ PtrInv(L, P) /\ bg \in BgLocals
  BY DEF Shape, TypeOK
<1>2. bg.old \in Seq(Groups) /\ bg.inter \in Seq(Groups) /\ bg.new \in Seq(Groups)
  BY <1>1, BgFields
<1>3. /\ bg.kind \in {"split", "merge", "compact"}
      /\ Len(bg.old) = (IF bg.kind = "merge" THEN 2 ELSE 1)
      /\ Len(bg.inter) = (IF bg.kind = "split" THEN 2 ELSE 0)
      /\ Len(bg.new) = (IF bg.kind = "split" THEN 2 ELSE 1)
      /\ bg.kind = "merge" => bg.old[1] # bg.old[2]
      /\ bg.kind = "split" => bg.inter[1] # bg.inter[2]
      /\ bg.kind = "split" => bg.new[1] # bg.new[2]
  BY <1>1 DEF WorkInv, Adjusting
<1>4. Deref(bg.ptr) = IF bg.kind = "split" THEN bg.inter[1] ELSE bg.old[1]
  BY <1>1 DEF PtrInv
<1>5. O = IF bg.kind = "split" THEN Olds ELSE {}
  BY <1>1 DEF PlaceInv, Retired
<1>6. CASE bg.kind = "split"
  <2>1. News = {bg.new[1], bg.new[2]} /\ Inters = {bg.inter[1], bg.inter[2]}
    BY <1>2, <1>3, <1>6, Ranges DEF News, Inters
  <2>2. /\ Inters \subseteq L /\ group[bg.inter[1]].next = bg.inter[2]
        /\ group[bg.new[1]].next = bg.new[2]
        /\ group[bg.new[2]].next = group[bg.inter[2]].next
    BY <1>1, <1>3, <1>6 DEF PlaceInv, ChainInv, Adjusting
  <2> WITNESS bg.inter[1], bg.inter[2], bg.new[1], bg.new[2]
  <2> QED  BY <1>3, <1>4, <1>5, <1>6, <2>1, <2>2
<1>7. CASE bg.kind # "split"
  <2>1. News = {bg.new[1]} /\ Inters = {} /\ Olds = {bg.old[1], bg.old[Len(bg.old)]}
    <3>1. News = {bg.new[1]} /\ Inters = {}
      BY <1>2, <1>3, <1>7, Ranges DEF News, Inters
    <3>2. Len(bg.old) = 1 => Olds = {bg.old[1]}
      BY <1>2, Ranges DEF Olds
    <3>3. Len(bg.old) = 2 => Olds = {bg.old[1], bg.old[2]}
      BY <1>2, Ranges DEF Olds
    <3> QED  BY <1>3, <3>1, <3>2, <3>3
  <2>2. /\ Olds \subseteq L
        /\ group[bg.new[1]].next = group[bg.old[Len(bg.old)]].next
    BY <1>1, <1>3, <1>7 DEF PlaceInv, ChainInv
  <2> WITNESS bg.old[1], bg.old[Len(bg.old)], bg.new[1], bg.new[1]
  <2> QED  BY <1>3, <1>4, <1>5, <1>7, <2>1, <2>2
<1> QED
  BY <1>6, <1>7

(* The new groups take the place of the old ones.                          *)
LEMMA PublishKeeps ==
    ASSUME NEW L \in SUBSET Groups, NEW O \in SUBSET Groups, NEW P \in SUBSET Groups,
           Shape(L, O, P), Publish
    PROVE  \E L2, O2 \in SUBSET Groups : Shape(L2, O2, P)'
<1>1. /\ bg.pc = "merge"
      /\ roots' = RootsWith(bg.ptr, bg.new[1]) /\ group' = GroupsWith(group, bg.ptr, bg.new[1])
      /\ bg' = [bg EXCEPT !.pc = IF bg.kind = "merge" THEN "publish_next" ELSE "replace"]
      /\ waits' = IF bg.kind = "merge" THEN waits ELSE Workers
      /\ UNCHANGED <<mem, root, pc, call, loc, result>>
  BY DEF Publish, At, workerVars
<1>2. /\ TypeOK /\ WorkInv /\ PlaceInv(L, O) /\ GroupInv(L, O) /\ SlotInv(L, O)
      /\ LinkInv(L) /\ PtrInv(L, P) /\ NextInv /\ ApartInv(L)
      /\ PointerInv /\ WorkerInv(L, O) /\ bg \in BgLocals
  BY DEF Shape, TypeOK
<1> PICK c1, c2, n1, n2 : GivesWay(L, O, c1, c2, n1, n2)
  BY <1>1, Merging
<1>3. /\ n1 = bg.new[1] /\ n2 = bg.new[Len(bg.new)] /\ News = {n1, n2}
      /\ c1 \in L /\ c2 \in L /\ Deref(bg.ptr) = c1
      /\ O \cup {c1, c2} = Olds \cup Inters
      /\ group[n2].next = group[c2].next
      /\ bg.kind = "split" => /\ Inters = {c1, c2} /\ group[c1].next = c2
                              /\ n1 # n2 /\ group[n1].next = n2
      /\ bg.kind # "split" => Olds = {c1, c2} /\ Inters = {} /\ n1 = n2
      /\ bg.kind = "merge" => c1 = bg.old[1] /\ c2 = bg.old[2] /\ c1 # c2
      /\ bg.kind = "compact" => c1 = c2
  BY DEF GivesWay
<1>4. /\ News \subseteq Groups /\ Olds \subseteq L \cup O /\ Inters \subseteq L \cup O
      /\ \A n \in News : n \notin Olds \cup Inters /\ group[n] \in GroupRecords
  BY <1>1, NewsApart
<1>5. News \cap (L \cup O) = {} /\ L \cap O = {}
  BY <1>1, <1>2 DEF PlaceInv
<1>6. bg.ptr \in Links(L) /\ Links(L) = Places(L) /\ P \subseteq L /\ bg.slot \in DOMAIN roots[root]
  <2>1. Links(L) = Places(L)
    BY <1>1 DEF Links, Places
  <2> QED  BY <1>1, <2>1, PtrIs
<1>7. \A h \in L \cup O \cup News : group[h] \in GroupRecords /\ group[h] # NONE
  <2>1. \A h \in L \cup O \cup News : h \in Groups /\ group[h] # NONE
    BY <1>2, <1>4 DEF GroupInv
  <2> QED  BY <1>2, <2>1 DEF TypeOK
<1> PICK L2 : L2 = (L \ {c1, c2}) \cup {n1, n2}
  OBVIOUS
<1> PICK O2 : O2 = O \cup {c1, c2}
  OBVIOUS
<1> PICK Cut : Cut = IF bg.kind = "merge" THEN {bg.next_ptr} ELSE {}
  OBVIOUS
<1>8. /\ roots' \in [Roots -> Slots \cup {NONE}] /\ group' \in [Groups -> GroupRecords \cup {NONE}]
      /\ roots'[root] # NONE /\ DOMAIN roots'[root] = DOMAIN roots[root]
      /\ \A i \in DOMAIN roots[root] :
            roots'[root][i].group = IF bg.ptr = Slot(i) THEN n1 ELSE roots[root][i].group
      /\ \A h \in Groups : group[h] \in GroupRecords =>
            /\ group'[h] \in GroupRecords /\ group'[h] # NONE
            /\ group'[h].array = group[h].array /\ group'[h].buffer = group[h].buffer
            /\ group'[h].buffer_temp = group[h].buffer_temp
            /\ group'[h].next = IF bg.ptr = NextOf(h) THEN n1 ELSE group[h].next
  <2>1. Store(L, bg.ptr, n1, group)
    BY <1>1, <1>2, <1>3, <1>4, <1>6, <1>7 DEF Store, TypeOK
  <2>2. AfterStore(bg.ptr, n1, group)
    BY <2>1, PointerStored
  <2> QED  BY <2>2 DEF AfterStore
<1>9. /\ bg' \in BgLocals /\ bg'.pc = (IF bg.kind = "merge" THEN "publish_next" ELSE "replace")
      /\ bg'.slot = bg.slot /\ bg'.ptr = bg.ptr /\ bg'.kind = bg.kind
      /\ bg'.old = bg.old /\ bg'.inter = bg.inter /\ bg'.new = bg.new
      /\ bg'.listed = bg.listed /\ bg'.adjusted = bg.adjusted /\ bg'.next_ptr = bg.next_ptr
  <2>1. "publish_next" \in BgLabels /\ "replace" \in BgLabels
    BY DEF BgLabels
  <2> QED  BY <1>1, <1>2, <2>1 DEF BgLocals
<1>10. Olds' = Olds /\ Inters' = Inters /\ News' = News
  BY <1>9 DEF Olds, Inters, News
<1>11. Own(L2)' = Own(L)
  BY <1>3, <1>4, <1>10 DEF Own
<1>12. \A h \in L \cup O \cup News :
         /\ group'[h] \in GroupRecords /\ group'[h] # NONE
         /\ group'[h].array = group[h].array /\ group'[h].buffer = group[h].buffer
         /\ group'[h].buffer_temp = group[h].buffer_temp
         /\ group'[h].next = IF bg.ptr = NextOf(h) THEN n1 ELSE group[h].next
         /\ group[h].array \in Stores /\ group[h].buffer \in Stores
  <2>1. L \cup O \cup News \subseteq Groups
    BY <1>4
  <2> QED  BY <1>7, <1>8, <2>1, GroupFields
<1>13. \A h : bg.ptr = NextOf(h) => h \in P /\ h # c1 /\ h \notin News \cup O
  <2>1. bg.ptr = Slot(bg.slot) \/ \E v \in P : bg.ptr = NextOf(v)
    BY <1>1, <1>2 DEF PtrInv
  <2>2. c1 \notin P
    BY <1>1, <1>3, PtrIs
  <2> QED  BY <1>5, <1>6, <2>1, <2>2, PointerMakers
<1>14. bg.slot \in Nat /\ bg.ptr # Slot(bg.slot + 1)
  <2>1. bg.slot \in Nat /\ bg.slot # bg.slot + 1
    <3>1. bg.slot \in Nat
      BY <1>2, BgFields
    <3> QED  BY <3>1
  <2>2. bg.ptr = Slot(bg.slot) \/ \E v \in P : bg.ptr = NextOf(v)
    BY <1>1, <1>2 DEF PtrInv
  <2> QED  BY <2>1, <2>2, PointerMakers
<1>15. bg.kind = "merge" =>
         /\ \/ bg.next_ptr = NextOf(c1)
            \/ bg.next_ptr = Slot(bg.slot + 1) /\ bg.slot + 1 \in DOMAIN roots[root]
         /\ Deref(bg.next_ptr) = c2
  BY <1>1, <1>2, <1>3 DEF NextInv
<1>16. /\ LinkInv(L2)' /\ P \subseteq L2 /\ c1 \notin P /\ c2 \notin P
       /\ \A p \in Links(L2)' : Deref(p)' \in P => p # bg'.ptr /\ Passed(P, p)'
       /\ Deref(bg.ptr)' = n1
       /\ \A h \in L2 : NextOf(h) \notin Cut => group'[h].next \in L2 \cup {NONE}
       /\ \A i \in DOMAIN roots[root] : Slot(i) \notin Cut => roots'[root][i].group \in L2 \cup {NONE}
  <2>1. c1 # c2 => \E m \in Links(L) : /\ Deref(m) = c2
                                       /\ m = NextOf(c1) \/ m \in Cut
                                       /\ m = NextOf(c1) \/ m = Slot(bg.slot + 1)
    <3>1. CASE bg.kind = "split"
      <4>1. NextOf(c1) \in Links(L) /\ Deref(NextOf(c1)) = c2
        BY <1>3, <1>6, <3>1 DEF Places, Deref, NextOf
      <4> QED  BY <4>1
    <3>2. CASE bg.kind = "merge"
      <4>1. bg.next_ptr \in Links(L)
        BY <1>3, <1>6, <1>15, <3>2 DEF Places
      <4> QED  BY <1>15, <3>2, <4>1
    <3>3. bg.kind \in {"split", "merge", "compact"}
      BY <1>1, <1>2 DEF WorkInv, Adjusting
    <3> QED  BY <1>3, <3>1, <3>2, <3>3
  <2>2. Links(L2)' = ({Slot(i) : i \in DOMAIN roots[root]} \cup {NextOf(h) : h \in L2}) \ Cut
    <3>1. roots'[root'] = roots'[root]
      BY <1>1
    <3> QED  BY <1>8, <1>9, <3>1 DEF Links
  <2>3. /\ \A h \in L : group'[h].next = IF bg.ptr = NextOf(h) THEN n1 ELSE group[h].next
        /\ n1 # n2 => group'[n1].next = n2
        /\ group'[n2].next = group[c2].next
    BY <1>3, <1>12, <1>13
  <2>4. n1 \in Groups \ L /\ n2 \in Groups \ L
    BY <1>3, <1>4, <1>5, SMTT(30)
  <2>5. Swap(L, L2, Cut, c1, c2, n1, n2)
    BY <1>1, <1>3, <1>8, <1>9, <2>1, <2>2, <2>3, <2>4 DEF Swap
  <2>6. LinkInv(L2)' /\ AfterSwap(P, L2, Cut, c1, c2, n1)
    BY <1>1, <2>5, SwapLinks
  <2> QED  BY <2>6 DEF AfterSwap
<1>17. TypeOK'
  BY <1>1, <1>2, <1>8, <1>9 DEF TypeOK
<1>18. WorkInv' /\ ListInv(P)'
  <2>1. bg.kind \in {"split", "merge", "compact"}
    BY <1>1, <1>2 DEF WorkInv, Adjusting
  <2> QED  BY <1>1, <1>2, <1>9, <2>1 DEF WorkInv, ListInv, Adjusting
<1>19. ChainInv'
  <2>1. bg.kind = "split" => group'[n1].next = n2 /\ n2 = bg.new[2]
    <3>1. bg.kind = "split" => Len(bg.new) = 2
      BY <1>1, <1>2 DEF WorkInv, Adjusting
    <3> QED  BY <1>3, <1>12, <1>13, <3>1
  <2> QED  BY <1>3, <1>9, <2>1 DEF ChainInv, Adjusting
<1>20. PlaceInv(L2, O2)'
  <2>1. Retired' = O2
    BY <1>3, <1>9, <1>10 DEF Retired
  <2>2. L2 \cap O2 = {}
    BY <1>3, <1>5
  <2>3. News \subseteq L2
    BY <1>3
  <2> QED  BY <1>9, <1>10, <2>1, <2>2, <2>3 DEF PlaceInv
<1>21. GroupInv(L2, O2)'
  <2>1. L2 \cup O2 \cup News \subseteq L \cup O \cup News
    BY <1>3
  <2>2. ASSUME NEW h \in L \cup O \cup News
        PROVE  /\ group'[h] # NONE /\ mem'[group'[h].array] # NONE /\ mem'[group'[h].buffer] # NONE
               /\ group'[h].buffer_temp # NONE => mem'[group'[h].buffer_temp] # NONE
               /\ h \notin Olds \cup Inters => group'[h].buffer_temp = NONE
    BY <1>1, <1>2, <1>12 DEF GroupInv, Array, Buffer
  <2>3. ASSUME NEW h \in L2 PROVE group'[h].next \in L2 \cup {NONE}
    <3>1. h # c1 \/ c1 \in {n1, n2}
      OBVIOUS
    <3>2. h # c1
      BY <1>3, <1>5, <3>1
    <3>3. NextOf(h) \notin Cut
      BY <1>15, <3>2, PointerMakers
    <3> QED  BY <1>16, <3>3
  <2>4. ASSUME NEW h \in O2 PROVE group'[h].next \in L2 \cup O2 \cup {NONE}
    <3>1. group[h].next \in L \cup O \cup {NONE}
      BY <1>2, <1>3 DEF GroupInv
    <3>2. group'[h].next = IF bg.ptr = NextOf(h) THEN n1 ELSE group[h].next
      BY <1>3, <1>12
    <3> QED  BY <3>1, <3>2
  <2> QED  BY <1>10, <2>1, <2>2, <2>3, <2>4 DEF GroupInv, Array, Buffer
<1>22. SlotInv(L2, O2)'
  <2>1. 1 \in DOMAIN roots[root] /\ roots[root][1].group # NONE
    BY <1>2 DEF SlotInv
  <2>2. n1 # NONE
    BY <1>3, <1>4, XIndexAssumption
  <2>3. roots'[root][1].group # NONE
    BY <1>8, <2>1, <2>2
  <2>4. ASSUME NEW i \in DOMAIN roots[root]
        PROVE  \/ roots'[root][i].group \in L2 \cup {NONE}
               \/ bg'.pc = "publish_next" /\ bg'.next_ptr = Slot(i) /\ roots'[root][i].group = bg'.old[2]
    <3>1. CASE Slot(i) \in Cut
      <4>1. bg.kind = "merge" /\ bg.next_ptr = Slot(i)
        BY <3>1
      <4>2. Slot(i) = Slot(bg.slot + 1)
        BY <1>15, <4>1, PointerMakers
      <4>3. roots[root][i].group = c2
        BY <1>15, <4>1 DEF Deref, Slot
      <4>4. roots'[root][i].group = c2
        BY <1>8, <1>14, <4>2, <4>3
      <4> QED  BY <1>3, <1>9, <4>1, <4>4
    <3> QED  BY <1>16, <3>1
  <2> QED  BY <1>1, <1>8, <1>9, <2>1, <2>3, <2>4 DEF SlotInv
<1>23. PtrInv(L2, P)'
  <2>1. bg.ptr = Slot(bg.slot) \/ \E v \in P : bg.ptr = NextOf(v)
    BY <1>1, <1>2 DEF PtrInv
  <2>2. P \cap News' = {}
    BY <1>5, <1>6, <1>10
  <2>3. Deref(bg.ptr)' = bg'.new[1]
    BY <1>3, <1>9, <1>16
  <2>4. bg'.slot \in DOMAIN roots'[root']
    BY <1>1, <1>6, <1>8, <1>9
  <2> QED  BY <1>9, <1>16, <2>1, <2>2, <2>3, <2>4 DEF PtrInv
<1>24. NextInv'
  <2> SUFFICES ASSUME bg.kind = "merge" PROVE NextInv'
    BY <1>9 DEF NextInv
  <2>1. Deref(bg.next_ptr)' = c2
    <3>1. CASE bg.next_ptr = NextOf(c1)
      <4>1. group'[c1].next = group[c1].next
        BY <1>3, <1>12, <1>13
      <4>2. group[c1].next = c2
        BY <1>15, <3>1 DEF Deref, NextOf
      <4> QED  BY <1>9, <3>1, <4>1, <4>2 DEF Deref, NextOf
    <3>2. CASE bg.next_ptr = Slot(bg.slot + 1) /\ bg.slot + 1 \in DOMAIN roots[root]
      <4>1. roots[root][bg.slot + 1].group = c2
        BY <1>15, <3>2 DEF Deref, Slot
      <4>2. roots'[root'][bg.slot + 1].group = c2
        BY <1>1, <1>8, <1>14, <3>2, <4>1
      <4> QED  BY <1>9, <3>2, <4>2 DEF Deref, Slot
    <3> QED  BY <1>15, <3>1, <3>2
  <2>2. bg'.old[1] = c1 /\ bg'.old[2] = c2
    BY <1>3, <1>9
  <2>3. DOMAIN roots'[root'] = DOMAIN roots[root]
    BY <1>1, <1>8
  <2> QED  BY <1>9, <1>15, <2>1, <2>2, <2>3 DEF NextInv
<1>25. Sources' = Sources /\ \A h \in L \cup O \cup News :
         Stored(h)' = Stored(h) /\ Array(h)' = Array(h) /\ Buffer(h)' = Buffer(h)
  <2>1. \A h \in L \cup O \cup News :
          Stored(h)' = Stored(h) /\ Array(h)' = Array(h) /\ Buffer(h)' = Buffer(h)
    BY <1>12 DEF Stored, Array, Buffer
  <2>2. \A h \in Olds : Array(h)' = Array(h) /\ Buffer(h)' = Buffer(h)
    BY <1>4, <2>1
  <2>3. Sources' = Sources
    BY <1>10, <2>2 DEF Sources, Olds
  <2> QED  BY <2>1, <2>3
<1>26. ApartInv(L2)'
  <2>1. Own(L) \subseteq L \cup O \cup News
    BY DEF Own
  <2>2. \A g \in Olds \cup Inters : group'[g].buffer_temp = group[g].buffer_temp
    BY <1>4, <1>12
  <2>3. /\ \A g, h \in Own(L) : g # h => Stored(g) \cap Stored(h) = {}
        /\ \A g \in Own(L) : Stored(g) \cap Sources = {} /\ Array(g) # Buffer(g)
        /\ \A g \in Inters : Stored(g) \subseteq Sources
        /\ \A g \in Olds \cup Inters, n \in News : group[g].buffer_temp # Array(n)
    BY <1>1, <1>2 DEF ApartInv
  <2>4. /\ \A g, h \in Own(L) : g # h => Stored(g)' \cap Stored(h)' = {}
        /\ \A g \in Own(L) : Stored(g)' \cap Sources = {} /\ Array(g)' # Buffer(g)'
        /\ \A g \in Inters : Stored(g)' \subseteq Sources
        /\ \A g \in Olds \cup Inters, n \in News : group'[g].buffer_temp # Array(n)'
    BY <1>4, <1>25, <2>1, <2>2, <2>3
  <2> QED  BY <1>9, <1>10, <1>11, <1>25, <2>4, ZenonT(30) DEF ApartInv
<1>27. PointerInv'
  <2>1. \A n \in News : Array(n)' = Array(n)
    BY <1>25
  <2> QED  BY <1>1, <1>2, <1>9, <1>10, <1>25, <2>1 DEF PointerInv
<1>28. WorkerInv(L2, O2)'
  <2> SUFFICES ASSUME NEW w \in Workers PROVE WorkerFits(L2, O2, w)'
    BY DEF WorkerInv
  <2>1. WorkerFits(L, O, w)
    BY <1>2 DEF WorkerInv
  <2>2. L \cup O \subseteq L2 \cup O2 /\ L \subseteq L \cup O
    OBVIOUS
  <2> QED  BY <1>1, <1>9, <2>1, <2>2 DEF WorkerFits, Is
<1>29. L2 \in SUBSET Groups /\ O2 \in SUBSET Groups
  BY <1>3, <1>4
<1> QED
  BY <1>16, <1>17, <1>18, <1>19, <1>20, <1>21, <1>22, <1>23, <1>24, <1>26, <1>27, <1>28, <1>29 DEF Shape

(* The second of the old groups of a merge: its slot, or the first one's   *)
(* next, leads to the new group, and in the end to none.                   *)
LEMMA NextKeeps ==
    ASSUME NEW L \in SUBSET Groups, NEW O \in SUBSET Groups, NEW P \in SUBSET Groups,
           Shape(L, O, P), PublishNext \/ UnlinkNext
    PROVE  Shape(L, O, P)'
<1> PICK n, next : /\ n = (IF bg.pc = "publish_next" THEN bg.new[1] ELSE NONE)
                   /\ next = bg.next_ptr
  OBVIOUS
<1>1. /\ bg.pc \in {"publish_next", "unlink_next"}
      /\ roots' = RootsWith(next, n) /\ group' = GroupsWith(group, next, n)
      /\ UNCHANGED <<mem, root, pc, call, loc, result>>
      /\ bg.pc = "publish_next" => bg' = [bg EXCEPT !.pc = "unlink_next"] /\ waits' = Workers
      /\ bg.pc = "unlink_next" =>
            bg' = [bg EXCEPT !.pc = "replace", !.next_ptr = NONE] /\ waits' = waits /\ waits = {}
  BY DEF PublishNext, UnlinkNext, At, BarrierEnds, workerVars
<1>2. /\ TypeOK /\ WorkInv /\ PlaceInv(L, O) /\ GroupInv(L, O) /\ SlotInv(L, O)
      /\ LinkInv(L) /\ PtrInv(L, P) /\ NextInv /\ ApartInv(L)
      /\ PointerInv /\ WorkerInv(L, O) /\ bg \in BgLocals
  BY DEF Shape, TypeOK
<1>3. /\ bg.kind = "merge" /\ Len(bg.old) = 2 /\ Len(bg.new) = 1 /\ Len(bg.inter) = 0
      /\ bg.adjusted < MaxAdjustments
  BY <1>1, <1>2 DEF WorkInv, Adjusting
<1> PICK c1, m : c1 = bg.old[1] /\ m = bg.new[1]
  OBVIOUS
<1>4. Olds = {c1, bg.old[2]} /\ c1 \in Groups /\ News = {m} /\ m \in Groups /\ Inters = {}
  <2>1. bg.old \in Seq(Groups) /\ bg.inter \in Seq(Groups) /\ bg.new \in Seq(Groups)
    BY <1>2, BgFields
  <2> QED  BY <1>3, <2>1, Ranges DEF Olds, News, Inters
<1>5. O = Olds /\ L \cap O = {} /\ m \in L /\ c1 \in O /\ c1 \notin L
  BY <1>1, <1>2, <1>4 DEF PlaceInv, Retired
<1>6. /\ next = NextOf(c1) \/ (next = Slot(bg.slot + 1) /\ bg.slot + 1 \in DOMAIN roots[root])
      /\ next = bg.next_ptr
  BY <1>1, <1>2, <1>3 DEF NextInv
<1>7. bg.ptr = Slot(bg.slot) \/ \E v \in P : bg.ptr = NextOf(v)
  BY <1>1, <1>2 DEF PtrInv
<1>8. /\ P \subseteq L /\ bg.slot \in DOMAIN roots[root] /\ Deref(bg.ptr) = m /\ P \cap News = {}
      /\ \A p \in Links(L) : Deref(p) \in P => p # bg.ptr /\ Passed(P, p)
  BY <1>1, <1>2 DEF PtrInv
<1>9. bg.slot \in Nat /\ bg.slot + 1 # bg.slot /\ bg.slot + 1 # 1
  <2>1. bg.slot \in DOMAIN roots[root] /\ roots[root] \in Slots
    BY <1>2, <1>8 DEF SlotInv, TypeOK
  <2> QED  BY <2>1 DEF Slots
<1>10. \A h \in L \cup O \cup News : group[h] \in GroupRecords /\ group[h] # NONE
  <2>1. \A h \in L \cup O \cup News : h \in Groups /\ group[h] # NONE
    BY <1>2, <1>4 DEF GroupInv
  <2> QED  BY <1>2, <2>1 DEF TypeOK
<1>11. n \in L \cup {NONE} /\ n \in Groups \cup {NONE} /\ (bg.pc = "unlink_next" => n = NONE)
  BY <1>1, <1>5
<1>12. /\ roots' \in [Roots -> Slots \cup {NONE}] /\ group' \in [Groups -> GroupRecords \cup {NONE}]
       /\ roots'[root] # NONE /\ DOMAIN roots'[root] = DOMAIN roots[root]
       /\ \A i \in DOMAIN roots[root] :
             roots'[root][i].group = IF next = Slot(i) THEN n ELSE roots[root][i].group
       /\ \A h \in Groups : group[h] \in GroupRecords =>
             /\ group'[h] \in GroupRecords /\ group'[h] # NONE
             /\ group'[h].array = group[h].array /\ group'[h].buffer = group[h].buffer
             /\ group'[h].buffer_temp = group[h].buffer_temp
             /\ group'[h].next = IF next = NextOf(h) THEN n ELSE group[h].next
  <2>1. next \in Places(L \cup O)
    BY <1>5, <1>6 DEF Places
  <2>2. Store(L \cup O, next, n, group)
    BY <1>1, <1>2, <1>10, <1>11, <2>1 DEF Store, TypeOK
  <2>3. AfterStore(next, n, group)
    BY <2>2, PointerStored
  <2> QED  BY <2>3 DEF AfterStore
<1>13. /\ bg' \in BgLocals /\ bg'.pc \in {"unlink_next", "replace"}
       /\ bg.pc = "publish_next" => bg'.pc = "unlink_next" /\ bg'.next_ptr = next
       /\ bg.pc = "unlink_next" => bg'.pc = "replace"
       /\ bg'.slot = bg.slot /\ bg'.ptr = bg.ptr /\ bg'.kind = bg.kind
       /\ bg'.old = bg.old /\ bg'.inter = bg.inter /\ bg'.new = bg.new
       /\ bg'.listed = bg.listed /\ bg'.adjusted = bg.adjusted
  <2>1. "unlink_next" \in BgLabels /\ "replace" \in BgLabels
    BY DEF BgLabels
  <2>2. CASE bg.pc = "publish_next"
    <3>1. bg' = [bg EXCEPT !.pc = "unlink_next"]
      BY <1>1, <2>2
    <3> QED  BY <1>2, <1>6, <2>1, <2>2, <3>1 DEF BgLocals
  <2>3. CASE bg.pc = "unlink_next"
    <3>1. bg' = [bg EXCEPT !.pc = "replace", !.next_ptr = NONE]
      BY <1>1, <2>3
    <3> QED  BY <1>2, <2>1, <2>3, <3>1 DEF BgLocals
  <2> QED  BY <1>1, <2>2, <2>3
<1>14. Olds' = Olds /\ Inters' = Inters /\ News' = News /\ Own(L)' = Own(L) /\ Retired' = O
  <2>1. Olds' = Olds /\ Inters' = Inters /\ News' = News
    BY <1>13 DEF Olds, Inters, News
  <2>2. Retired' = O
    BY <1>4, <1>5, <1>13, <2>1 DEF Retired
  <2> QED  BY <2>1, <2>2 DEF Own
<1>15. \A h \in L \cup O \cup News :
         /\ group'[h] \in GroupRecords /\ group'[h] # NONE
         /\ group'[h].array = group[h].array /\ group'[h].buffer = group[h].buffer
         /\ group'[h].buffer_temp = group[h].buffer_temp
         /\ group'[h].next = IF next = NextOf(h) THEN n ELSE group[h].next
  <2>1. L \cup O \cup News \subseteq Groups
    BY <1>4
  <2> QED  BY <1>10, <1>12, <2>1
<1>16. /\ \A h \in L : next # NextOf(h)
       /\ next # bg.ptr /\ next # Slot(1)
  BY <1>5, <1>6, <1>7, <1>8, <1>9, PointerMakers
<1>17. \A p \in Places(L) : p # next => Deref(p)' = Deref(p)
  <2>1. \A i \in DOMAIN roots[root] : Slot(i) # next => Deref(Slot(i))' = Deref(Slot(i))
    BY <1>1, <1>12 DEF Deref, Slot
  <2>2. \A h \in L : Deref(NextOf(h))' = Deref(NextOf(h))
    BY <1>15, <1>16 DEF Deref, NextOf
  <2> QED  BY <2>1, <2>2 DEF Places
<1>18. Links(L) = Places(L) \ {next}
  BY <1>1, <1>6 DEF Links, Places
<1>19. /\ Links(L)' \subseteq Places(L)
       /\ bg.pc = "publish_next" => next \notin Links(L)'
       /\ bg.pc = "unlink_next" => \A p \in Links(L)' : p = next => Deref(p)' = NONE
  <2>1. DOMAIN roots'[root'] = DOMAIN roots[root]
    BY <1>1, <1>12
  <2>2. Links(L)' \subseteq Places(L) /\ (bg.pc = "publish_next" => next \notin Links(L)')
    BY <1>13, <2>1 DEF Links, Places
  <2>3. ASSUME bg.pc = "unlink_next", next \in Places(L) PROVE Deref(next)' = NONE
    <3>1. next = Slot(bg.slot + 1) /\ bg.slot + 1 \in DOMAIN roots[root]
      BY <1>6, <1>16, <2>3, PointerMakers DEF Places
    <3>2. roots'[root][bg.slot + 1].group = NONE
      BY <1>11, <1>12, <2>3, <3>1
    <3>3. Deref(Slot(bg.slot + 1))' = roots'[root'][bg'.slot + 1].group
      BY <1>13 DEF Deref, Slot
    <3>4. Deref(next)' = Deref(Slot(bg.slot + 1))'
      BY <1>13, <3>1 DEF Deref
    <3> QED  BY <1>1, <1>13, <3>2, <3>3, <3>4
  <2>4. ASSUME bg.pc = "unlink_next", NEW p \in Links(L)', p = next PROVE Deref(p)' = NONE
    <3>1. Deref(next)' = NONE
      BY <2>2, <2>3, <2>4
    <3> QED  BY <2>4, <3>1 DEF Deref
  <2> QED  BY <2>2, <2>4
<1>20. \A p \in Links(L)' : Deref(p)' # NONE => p \in Links(L) /\ Deref(p)' = Deref(p)
  <2> SUFFICES ASSUME NEW p \in Links(L)', Deref(p)' # NONE
               PROVE  p \in Links(L) /\ Deref(p)' = Deref(p)
    OBVIOUS
  <2>1. p # next
    BY <1>1, <1>19
  <2> QED  BY <1>17, <1>18, <1>19, <2>1
<1>21. TypeOK'
  BY <1>1, <1>2, <1>12, <1>13 DEF TypeOK
<1>22. WorkInv' /\ ListInv(P)' /\ ChainInv'
  BY <1>1, <1>2, <1>3, <1>13, ZenonT(30) DEF WorkInv, ListInv, ChainInv, Adjusting
<1>23. PlaceInv(L, O)'
  BY <1>4, <1>5, <1>13, <1>14 DEF PlaceInv
<1>24. GroupInv(L, O)'
  <2>1. ASSUME NEW h \in L \cup O \cup News
        PROVE  /\ group'[h] # NONE /\ mem'[group'[h].array] # NONE /\ mem'[group'[h].buffer] # NONE
               /\ group'[h].buffer_temp # NONE => mem'[group'[h].buffer_temp] # NONE
               /\ h \notin Olds \cup Inters => group'[h].buffer_temp = NONE
    BY <1>1, <1>2, <1>15 DEF GroupInv, Array, Buffer
  <2>2. \A h \in L : group'[h].next \in L \cup {NONE}
    BY <1>2, <1>15, <1>16 DEF GroupInv
  <2>3. \A h \in O : group'[h].next \in L \cup O \cup {NONE}
    BY <1>2, <1>11, <1>15, SMTT(30) DEF GroupInv
  <2> QED  BY <1>14, <2>1, <2>2, <2>3 DEF GroupInv, Array, Buffer
<1>25. SlotInv(L, O)'
  <2>1. 1 \in DOMAIN roots[root] /\ roots[root][1].group # NONE
    BY <1>2 DEF SlotInv
  <2>2. \A i \in DOMAIN roots[root] : next # Slot(i) => roots[root][i].group \in L \cup {NONE}
    BY <1>2, <1>6 DEF SlotInv
  <2>3. \A i \in DOMAIN roots[root] : roots'[root][i].group \in L \cup {NONE}
    BY <1>11, <1>12, <2>2
  <2>4. roots'[root][1].group # NONE
    BY <1>12, <1>16, <2>1
  <2> QED  BY <1>1, <1>12, <1>13, <2>1, <2>3, <2>4 DEF SlotInv
<1>26. LinkInv(L)'
  <2> SUFFICES ASSUME NEW p \in Links(L)', NEW q \in Links(L)', Deref(p)' = Deref(q)', Deref(p)' # NONE
               PROVE  p = q
    BY DEF LinkInv
  <2>1. p \in Links(L) /\ Deref(p)' = Deref(p)
    BY <1>20
  <2>2. q \in Links(L) /\ Deref(q)' = Deref(q)
    BY <1>20
  <2> QED  BY <1>2, <2>1, <2>2 DEF LinkInv
<1>27. PtrInv(L, P)'
  <2>1. \A p \in Links(L)' : Deref(p)' \in P => p # bg'.ptr /\ Passed(P, p)'
    <3> SUFFICES ASSUME NEW p \in Links(L)', Deref(p)' \in P PROVE p # bg.ptr /\ Passed(P, p)
      BY <1>13 DEF Passed
    <3>1. Deref(p)' # NONE
      BY XIndexAssumption
    <3> QED  BY <1>8, <1>20, <3>1
  <2>2. Deref(bg.ptr)' = bg'.new[1]
    <3>1. PICK p : p = bg.ptr
      OBVIOUS
    <3>2. p \in Places(L) /\ p # next
      BY <1>7, <1>8, <1>16, <3>1 DEF Places
    <3>3. Deref(p)' = Deref(p)
      BY <1>17, <3>2
    <3>4. Deref(bg.ptr)' = Deref(p)'
      BY <1>13, <3>1 DEF Deref
    <3> QED  BY <1>8, <1>13, <3>1, <3>3, <3>4
  <2>3. bg'.slot \in DOMAIN roots'[root']
    BY <1>1, <1>8, <1>12, <1>13
  <2> QED  BY <1>7, <1>8, <1>13, <1>14, <2>1, <2>2, <2>3 DEF PtrInv
<1>28. NextInv'
  <2>1. CASE bg.pc = "publish_next"
    <3>1. DOMAIN roots'[root'] = DOMAIN roots[root]
      BY <1>1, <1>12
    <3> QED  BY <1>6, <1>13, <2>1, <3>1 DEF NextInv
  <2>2. CASE bg.pc = "unlink_next"
    BY <1>13, <2>2 DEF NextInv
  <2> QED  BY <1>1, <2>1, <2>2
<1>29. Sources' = Sources /\ \A h \in L \cup O \cup News :
         Stored(h)' = Stored(h) /\ Array(h)' = Array(h) /\ Buffer(h)' = Buffer(h)
  <2>1. \A h \in L \cup O \cup News :
          Stored(h)' = Stored(h) /\ Array(h)' = Array(h) /\ Buffer(h)' = Buffer(h)
    BY <1>15 DEF Stored, Array, Buffer
  <2>2. \A h \in Olds : Array(h)' = Array(h) /\ Buffer(h)' = Buffer(h)
    BY <1>5, <2>1
  <2>3. Sources' = Sources
    BY <1>14, <2>2 DEF Sources, Olds
  <2> QED  BY <2>1, <2>3
<1>30. ApartInv(L)'
  <2>1. Own(L) \subseteq L \cup O \cup News
    BY DEF Own
  <2>2. \A g \in Olds \cup Inters : group'[g].buffer_temp = group[g].buffer_temp
    BY <1>4, <1>5, <1>15
  <2>3. /\ \A g, h \in Own(L) : g # h => Stored(g) \cap Stored(h) = {}
        /\ \A g \in Own(L) : Stored(g) \cap Sources = {} /\ Array(g) # Buffer(g)
        /\ \A g \in Olds \cup Inters, v \in News : group[g].buffer_temp # Array(v)
    BY <1>1, <1>2 DEF ApartInv
  <2>4. /\ \A g, h \in Own(L) : g # h => Stored(g)' \cap Stored(h)' = {}
        /\ \A g \in Own(L) : Stored(g)' \cap Sources' = {} /\ Array(g)' # Buffer(g)'
        /\ \A g \in Olds \cup Inters, v \in News : group'[g].buffer_temp # Array(v)'
    BY <1>29, <2>1, <2>2, <2>3
  <2> QED  BY <1>4, <1>13, <1>14, <1>29, <2>4 DEF ApartInv
<1>31. PointerInv'
  <2>1. \A v \in News : Array(v)' = Array(v)
    BY <1>29
  <2> QED  BY <1>1, <1>2, <1>13, <1>14, <1>29, <2>1 DEF PointerInv
<1>32. WorkerInv(L, O)'
  <2> SUFFICES ASSUME NEW w \in Workers PROVE WorkerFits(L, O, w)'
    BY DEF WorkerInv
  <2>1. WorkerFits(L, O, w)
    BY <1>2 DEF WorkerInv
  <2>2. bg.pc = "publish_next" => w \in waits'
    BY <1>1
  <2> QED  BY <1>1, <1>13, <1>29, <2>1, <2>2 DEF WorkerFits, Is
<1> QED
  BY <1>21, <1>22, <1>23, <1>24, <1>25, <1>26, <1>27, <1>28, <1>30, <1>31, <1>32 DEF Shape

-----------------------------------------------------------------------------
(* What no one uses any more is freed.                                     *)

(* The locals of a background thread without work.                         *)
LEMMA NoWorkIs ==
    /\ NoWork \in BgLocals /\ NoWork.pc = "visit" /\ NoWork.slot = 1 /\ NoWork.ptr = Slot(1)
    /\ NoWork.kind = "none" /\ NoWork.old = <<>> /\ NoWork.inter = <<>> /\ NoWork.new = <<>>
    /\ NoWork.listed = <<>>
<1>1. "visit" \in BgLabels /\ 1 \in Nat /\ Slot(1) \in Pointer /\ 0 \in 0 .. MaxAdjustments
  BY PointerMakers, XIndexAssumption DEF BgLabels
<1>2. <<>> \in Seq(Groups) /\ <<>> \in Seq([pivot : Keys, group : Groups])
  BY Singles
<1> QED
  BY <1>1, <1>2 DEF NoWork, BgLocals

(* The old groups and their stores are freed once no worker of before waits. *)
LEMMA FreeKeeps ==
    ASSUME NEW L \in SUBSET Groups, NEW O \in SUBSET Groups, NEW P \in SUBSET Groups,
           Shape(L, O, P), FreeOld
    PROVE  \E P2 \in SUBSET Groups : Shape(L, {}, P2)'
<1> PICK last, update : /\ last = bg.new[Len(bg.new)]
                        /\ update = (bg.should_update \/ bg.kind # "compact")
  OBVIOUS
<1>1. /\ bg.pc = "free" /\ waits = {}
      /\ mem' = [s \in Stores |-> IF s \in Sources THEN NONE ELSE mem[s]]
      /\ group' = [g \in Groups |-> IF g \in Olds \cup Inters THEN NONE ELSE group[g]]
      /\ bg' = [NoWork EXCEPT !.slot = bg.slot, !.ptr = NextOf(last), !.should_update = update,
                              !.adjusted = bg.adjusted + 1]
      /\ UNCHANGED <<roots, root, waits, pc, call, loc, result>>
  BY DEF FreeOld, At, OldIsUnused, BarrierEnds, workerVars, Olds, Inters
<1>2. /\ TypeOK /\ WorkInv /\ PlaceInv(L, O) /\ GroupInv(L, O) /\ ChainInv /\ SlotInv(L, O)
      /\ LinkInv(L) /\ PtrInv(L, P) /\ ApartInv(L)
      /\ PointerInv /\ WorkerInv(L, O) /\ bg \in BgLocals
  BY DEF Shape, TypeOK
<1> PICK N : N = News
  OBVIOUS
<1> PICK first : first = bg.new[1]
  OBVIOUS
<1>3. /\ N = {first, last} /\ first \in Groups /\ last \in Groups /\ bg.adjusted < MaxAdjustments
      /\ first # last => group[first].next = last
  <2>1. bg.new \in Seq(Groups)
    BY <1>2, BgFields
  <2>2. CASE bg.kind = "split"
    <3>1. Len(bg.new) = 2 /\ group[bg.new[1]].next = bg.new[2] /\ bg.adjusted < MaxAdjustments
      BY <1>1, <1>2, <2>2 DEF WorkInv, ChainInv, Adjusting
    <3> QED  BY <2>1, <3>1, Ranges DEF News
  <2>3. CASE bg.kind # "split"
    <3>1. Len(bg.new) = 1 /\ bg.adjusted < MaxAdjustments
      BY <1>1, <1>2, <2>3 DEF WorkInv, Adjusting
    <3> QED  BY <2>1, <3>1, Ranges DEF News
  <2> QED  BY <2>2, <2>3
<1>4. O = Olds \cup Inters /\ L \cap O = {} /\ N \subseteq L /\ Own(L) = L
  <2>1. O = Olds \cup Inters /\ L \cap O = {} /\ N \subseteq L
    BY <1>1, <1>2 DEF PlaceInv, Retired
  <2> QED  BY <2>1 DEF Own
<1>5. /\ P \subseteq L /\ bg.slot \in DOMAIN roots[root] /\ Deref(bg.ptr) = first /\ P \cap N = {}
      /\ bg.ptr = Slot(bg.slot) \/ \E v \in P : bg.ptr = NextOf(v)
      /\ \A p \in Links(L) : Deref(p) \in P => p # bg.ptr /\ Passed(P, p)
      /\ bg.ptr \in Links(L) /\ bg.slot \in Nat
  <2>1. bg.ptr \in Links(L)
    BY <1>1, PtrIs
  <2>2. bg.slot \in Nat
    BY <1>2, BgFields
  <2> QED  BY <1>1, <1>2, <2>1, <2>2 DEF PtrInv
<1>6. \A h \in L : group'[h] = group[h] /\ group[h] \in GroupRecords /\ group[h] # NONE
  <2>1. \A h \in L : group[h] # NONE
    BY <1>2 DEF GroupInv
  <2> QED  BY <1>1, <1>2, <1>4, <2>1 DEF TypeOK
<1>7. \A h \in L : /\ Stored(h) \cap Sources = {} /\ Array(h) \in Stores /\ Buffer(h) \in Stores
                   /\ mem[Array(h)] # NONE /\ mem[Buffer(h)] # NONE
                   /\ group[h].buffer_temp = NONE
  <2>1. \A h \in L : Stored(h) \cap Sources = {}
    BY <1>1, <1>2, <1>4 DEF ApartInv
  <2>2. \A h \in L : Array(h) \in Stores /\ Buffer(h) \in Stores
    BY <1>6, GroupFields DEF Array, Buffer
  <2>3. \A h \in L : h \notin Olds \cup Inters
    BY <1>4
  <2> QED  BY <1>2, <2>1, <2>2, <2>3 DEF GroupInv
<1>8. /\ bg' \in BgLocals /\ bg'.pc = "visit" /\ bg'.slot = bg.slot /\ bg'.ptr = NextOf(last)
      /\ bg'.old = <<>> /\ bg'.inter = <<>> /\ bg'.new = <<>> /\ bg'.listed = <<>>
      /\ bg'.kind = "none"
  <2>1. bg.adjusted + 1 \in 0 .. MaxAdjustments
    <3>1. bg.adjusted \in 0 .. MaxAdjustments /\ MaxAdjustments \in Nat
      BY <1>2, BgFields, XIndexAssumption
    <3> QED  BY <1>3, <3>1
  <2>2. NextOf(last) \in Pointer
    BY <1>3, PointerMakers
  <2>3. update \in BOOLEAN
    BY <1>2, BgFields
  <2>4. NoWork \in BgLocals /\ NoWork.pc = "visit" /\ NoWork.kind = "none" /\ NoWork.old = <<>>
        /\ NoWork.inter = <<>> /\ NoWork.new = <<>> /\ NoWork.listed = <<>>
    BY NoWorkIs
  <2>5. bg.slot \in Nat
    BY <1>5
  <2> QED  BY <1>1, <2>1, <2>2, <2>3, <2>4, <2>5 DEF BgLocals
<1>9. Olds' = {} /\ Inters' = {} /\ News' = {} /\ Sources' = {} /\ Own(L)' = L /\ Retired' = {}
  <2>1. Olds' = {} /\ Inters' = {} /\ News' = {}
    BY <1>8, Singles DEF Olds, Inters, News
  <2> QED  BY <1>8, <2>1 DEF Sources, Olds, Own, Retired
<1>10. TypeOK'
  <2>1. mem' \in [Stores -> [Keys -> Records] \cup {NONE}]
    BY <1>1, <1>2 DEF TypeOK
  <2>2. group' \in [Groups -> GroupRecords \cup {NONE}]
    BY <1>1, <1>2 DEF TypeOK
  <2> QED  BY <1>1, <1>2, <1>8, <2>1, <2>2 DEF TypeOK
<1>11. WorkInv' /\ ChainInv' /\ NextInv' /\ ListInv(P \cup N)' /\ PlaceInv(L, {})'
  <2>1. WorkInv'
    BY <1>8 DEF WorkInv, Adjusting
  <2> QED  BY <1>8, <1>9, <2>1 DEF ChainInv, NextInv, ListInv, PlaceInv, Adjusting
<1>12. GroupInv(L, {})'
  <2>1. \A h \in L : mem'[Array(h)] # NONE /\ mem'[Buffer(h)] # NONE
    BY <1>1, <1>7 DEF Stored
  <2>2. \A h \in L : group[h].next \in L \cup {NONE}
    BY <1>2 DEF GroupInv
  <2> QED  BY <1>6, <1>7, <1>9, <2>1, <2>2 DEF GroupInv, Array, Buffer
<1>13. SlotInv(L, {})'
  BY <1>1, <1>2, <1>8 DEF SlotInv
<1>14. /\ Links(L)' = Links(L) /\ Links(L) = Places(L)
       /\ \A p \in Links(L) : Deref(p)' = Deref(p)
  <2>1. Links(L)' = Links(L) /\ Links(L) = Places(L)
    BY <1>1, <1>8 DEF Links, Places
  <2>2. \A i : Deref(Slot(i))' = Deref(Slot(i))
    BY <1>1 DEF Deref, Slot
  <2>3. \A h \in L : Deref(NextOf(h))' = Deref(NextOf(h))
    BY <1>6 DEF Deref, NextOf
  <2> QED  BY <2>1, <2>2, <2>3 DEF Places
<1>15. LinkInv(L)'
  BY <1>2, <1>14 DEF LinkInv
<1>16. PtrInv(L, P \cup N)'
  <2>1. ASSUME NEW p \in Links(L), Deref(p) \in P \cup N
        PROVE  p # NextOf(last) /\ Passed(P \cup N, p)
    <3>1. last \notin P /\ first \notin P
      BY <1>3, <1>5
    <3>2. Passed(P, p) => p # NextOf(last) /\ Passed(P \cup N, p)
      BY <3>1, PointerMakers DEF Passed
    <3>3. CASE Deref(p) \in P
      BY <1>5, <3>2, <3>3
    <3>4. CASE Deref(p) = first
      <4>1. p = bg.ptr
        BY <1>2, <1>3, <1>5, <3>4, XIndexAssumption DEF LinkInv
      <4>2. bg.slot \in 1 .. bg.slot
        <5>1. roots[root] \in Slots /\ bg.slot \in DOMAIN roots[root]
          BY <1>2, <1>5 DEF SlotInv, TypeOK
        <5> QED  BY <5>1 DEF Slots
      <4>3. Passed(P, p)
        BY <1>5, <4>1, <4>2 DEF Passed
      <4> QED  BY <3>2, <4>3
    <3>5. CASE Deref(p) = last /\ first # last
      <4>1. NextOf(first) \in Links(L) /\ Deref(NextOf(first)) = last
        BY <1>3, <1>4, <1>14, <3>5 DEF Places, Deref, NextOf
      <4>2. p = NextOf(first)
        BY <1>2, <1>3, <3>5, <4>1, XIndexAssumption DEF LinkInv
      <4> QED  BY <1>3, <3>5, <4>2, PointerMakers DEF Passed
    <3> QED  BY <1>3, <2>1, <3>3, <3>4, <3>5
  <2>2. \A p : Passed(P \cup N, p)' <=> Passed(P \cup N, p)
    BY <1>8 DEF Passed
  <2>3. \A p \in Links(L)' : Deref(p)' \in P \cup N => p # bg'.ptr /\ Passed(P \cup N, p)'
    BY <1>8, <1>14, <2>1, <2>2
  <2>4. P \cup N \subseteq L /\ last \in P \cup N
    BY <1>3, <1>4, <1>5
  <2> QED  BY <1>1, <1>5, <1>8, <2>3, <2>4 DEF PtrInv
<1>17. ApartInv(L)'
  <2>1. \A g \in L : Stored(g)' = Stored(g) /\ Array(g)' = Array(g) /\ Buffer(g)' = Buffer(g)
    BY <1>6 DEF Stored, Array, Buffer
  <2>2. /\ \A g, h \in L : g # h => Stored(g) \cap Stored(h) = {}
        /\ \A g \in L : Array(g) # Buffer(g)
    BY <1>2, <1>4 DEF ApartInv
  <2> QED  BY <1>8, <1>9, <2>1, <2>2 DEF ApartInv
<1>18. PointerInv'
  <2>1. \A s \in Stores : mem[s] # NONE => \A k \in Keys : mem[s][k].kind # "ptr"
    BY <1>1, <1>2, NoPointers
  <2>2. \A s \in Stores : mem'[s] # NONE => mem[s] # NONE /\ mem'[s] = mem[s]
    BY <1>1
  <2> QED  BY <2>1, <2>2 DEF PointerInv
<1>19. WorkerInv(L, {})'
  <2> SUFFICES ASSUME NEW w \in Workers PROVE WorkerFits(L, {}, w)'
    BY DEF WorkerInv
  <2>1. WorkerFits(L, O, w)
    BY <1>2 DEF WorkerInv
  <2> QED  BY <1>1, <1>8, <2>1 DEF WorkerFits, Is
<1>20. Shape(L, {}, P \cup N)'
  BY <1>10, <1>11, <1>12, <1>13, <1>15, <1>16, <1>17, <1>18, <1>19 DEF Shape
<1>21. P \cup N \in SUBSET Groups
  BY <1>3
<1> QED
  BY <1>20, <1>21

-----------------------------------------------------------------------------
(* The invariant.                                                          *)

(* What is loaded has keys, values, a group and two stores for each part.  *)
LEMMA LoadedIs ==
    /\ Len(Loaded) \in Nat /\ Len(Loaded) >= 1
    /\ \A i \in 1 .. Len(Loaded) :
          /\ i \in Groups /\ i \in Stores /\ Len(Loaded) + i \in Stores
          /\ Smallest(DOMAIN Loaded[i]) \in Keys
          /\ \A k \in DOMAIN Loaded[i] : Loaded[i][k] \in Values
<1> DEFINE S == UNION {[ks -> Values] : ks \in (SUBSET Keys) \ {{}}}
<1>1. Loaded \in Seq(S)
  BY XIndexAssumption, Zenon
<1> HIDE DEF S
<1>2. /\ Len(Loaded) \in Nat /\ DOMAIN Loaded = 1 .. Len(Loaded)
      /\ \A i \in 1 .. Len(Loaded) : Loaded[i] \in S
  BY <1>1, SeqForm
<1>3. Len(Loaded) >= 1 /\ DOMAIN Loaded \subseteq Groups /\ 1 .. 2 * Len(Loaded) \subseteq Stores
  BY XIndexAssumption
<1>4. ASSUME NEW i \in 1 .. Len(Loaded)
      PROVE  /\ i \in Groups /\ i \in Stores /\ Len(Loaded) + i \in Stores
             /\ Smallest(DOMAIN Loaded[i]) \in Keys
             /\ \A k \in DOMAIN Loaded[i] : Loaded[i][k] \in Values
  <2>1. i \in 1 .. 2 * Len(Loaded) /\ Len(Loaded) + i \in 1 .. 2 * Len(Loaded)
    BY <1>2, <1>3
  <2>2. PICK ks \in (SUBSET Keys) \ {{}} : Loaded[i] \in [ks -> Values]
    BY <1>2 DEF S
  <2>3. DOMAIN Loaded[i] = ks /\ \A k \in ks : Loaded[i][k] \in Values
    BY <2>2
  <2>4. ks # {} /\ ks \subseteq Nat /\ ks \subseteq Keys
    BY XIndexAssumption
  <2>5. Smallest(ks) \in ks
    BY <2>4, SmallestIs
  <2> QED  BY <1>2, <1>3, <2>1, <2>3, <2>4, <2>5
<1> QED
  BY <1>2, <1>3, <1>4

(* The groups that are loaded are in the shape.                            *)
LEMMA InitShape ==
    ASSUME Init
    PROVE  Shape(1 .. Len(Loaded), {}, {})
<1> PICK n, L : n = Len(Loaded) /\ L = 1 .. n
  OBVIOUS
<1>1. n \in Nat /\ n >= 1 /\ 1 \in L /\ L \subseteq Groups /\ NONE \notin L
  <2>1. n \in Nat /\ n >= 1 /\ L \subseteq Groups
    BY LoadedIs
  <2> QED  BY <2>1, XIndexAssumption
<1> DEFINE rec(s) == [k \in Keys |-> IF k \in DOMAIN Loaded[s] THEN Val(Loaded[s][k]) ELSE Absent]
           grp(g) == NewGroup(Smallest(DOMAIN Loaded[g]), g, n + g, NONE, FALSE, NONE)
           first == [i \in L |-> [pivot |-> Smallest(DOMAIN Loaded[i]), group |-> i]]
<1>2. /\ mem = [s \in Stores |-> IF s \in L THEN rec(s) ELSE IF s \in n + 1 .. 2 * n THEN Empty ELSE NONE]
      /\ group = [g \in Groups |-> IF g \in L THEN grp(g) ELSE NONE]
      /\ roots = [r \in Roots |-> IF r = 0 THEN first ELSE NONE]
      /\ root = 0 /\ waits = {} /\ bg = NoWork
      /\ pc = [w \in Workers |-> "idle"] /\ call = [w \in Workers |-> NoCall]
      /\ loc = [w \in Workers |-> NoLoc] /\ result = [w \in Workers |-> NoAnswer]
  BY DEF Init
<1>3. \A i \in L : rec(i) \in [Keys -> Records] /\ \A k \in Keys : rec(i)[k].kind # "ptr"
  BY LoadedIs, RecordMakers
<1>4. Empty \in [Keys -> Records] /\ \A k \in Keys : Empty[k].kind # "ptr"
  BY RecordMakers
<1>5. \A i \in L : /\ grp(i) \in GroupRecords /\ grp(i).array = i /\ grp(i).buffer = n + i
                   /\ grp(i).buffer_temp = NONE /\ grp(i).next = NONE
  BY LoadedIs DEF NewGroup, GroupRecords
<1>6. first \in Slots /\ DOMAIN first = L /\ \A i \in L : first[i].group = i
  <2> DEFINE E == [pivot : Keys, group : Groups \cup {NONE}]
  <2>1. \A i \in L : [pivot |-> Smallest(DOMAIN Loaded[i]), group |-> i] \in E
    BY LoadedIs
  <2> HIDE DEF E
  <2>2. first \in [1 .. n -> E]
    BY <2>1
  <2>3. first \in Seq(E)
    <3> HIDE DEF first
    <3> QED  BY <1>1, <2>2, SeqForm
  <2> QED  BY <2>3 DEF E, Slots
<1> HIDE DEF rec, grp, first
<1>7. /\ bg \in BgLocals /\ bg.pc = "visit" /\ bg.slot = 1 /\ bg.ptr = Slot(1)
      /\ bg.kind = "none" /\ bg.old = <<>> /\ bg.inter = <<>> /\ bg.new = <<>> /\ bg.listed = <<>>
  BY <1>2, NoWorkIs
<1>8. /\ Olds = {} /\ Inters = {} /\ News = {} /\ Sources = {} /\ Own(L) = L /\ Retired = {}
  <2>1. Olds = {} /\ Inters = {} /\ News = {}
    BY <1>7, Singles DEF Olds, Inters, News
  <2> QED  BY <1>7, <2>1 DEF Sources, Olds, Own, Retired
<1>9. roots[root] = first /\ roots[1 - root] = NONE /\ roots \in [Roots -> Slots \cup {NONE}]
      /\ first # NONE
  BY <1>2, <1>6, NullAssumption DEF Roots
<1>10. \A g \in L : group[g] = grp(g) /\ group[g] # NONE
  BY <1>1, <1>2, <1>5, NullAssumption
<1>11. \A g \in L : Array(g) = g /\ Buffer(g) = n + g /\ group[g].next = NONE /\ group[g].buffer_temp = NONE
  BY <1>5, <1>10 DEF Array, Buffer
<1>12. \A g \in L : g \in Stores /\ n + g \in Stores /\ n + g \in n + 1 .. 2 * n /\ n + g \notin L
  <2> TAKE g \in L
  <2>1. g \in 1 .. n
    OBVIOUS
  <2> QED  BY <1>1, <2>1, LoadedIs
<1>13. \A g \in L : mem[g] # NONE /\ mem[n + g] # NONE
  BY <1>2, <1>3, <1>4, <1>12, NullAssumption
<1>14. TypeOK
  <2>1. mem \in [Stores -> [Keys -> Records] \cup {NONE}]
    BY <1>2, <1>3, <1>4
  <2>2. group \in [Groups -> GroupRecords \cup {NONE}]
    BY <1>2, <1>5
  <2>3. "idle" \in Labels /\ NoLoc \in Locals
    BY LocalFields DEF Labels
  <2> QED  BY <1>2, <1>7, <1>9, <2>1, <2>2, <2>3 DEF TypeOK, Roots
<1>15. WorkInv /\ ChainInv /\ NextInv /\ ListInv({})
  BY <1>7 DEF WorkInv, ChainInv, NextInv, ListInv, Adjusting
<1>16. PlaceInv(L, {})
  BY <1>7, <1>8 DEF PlaceInv
<1>17. GroupInv(L, {})
  BY <1>8, <1>10, <1>11, <1>13 DEF GroupInv
<1>18. SlotInv(L, {})
  BY <1>1, <1>6, <1>7, <1>9 DEF SlotInv
<1>19. Links(L) = {Slot(i) : i \in L} \cup {NextOf(g) : g \in L}
  BY <1>6, <1>7, <1>9 DEF Links
<1>20. \A i \in L : Deref(Slot(i)) = i /\ Deref(NextOf(i)) = NONE
  BY <1>6, <1>9, <1>11 DEF Deref, Slot, NextOf
<1>21. LinkInv(L)
  BY <1>19, <1>20 DEF LinkInv
<1>22. PtrInv(L, {})
  BY <1>1, <1>6, <1>7, <1>9 DEF PtrInv
<1>23. ApartInv(L)
  <2>1. \A g, h \in L : g # h => {g, n + g} \cap {h, n + h} = {}
    <3> SUFFICES ASSUME NEW g \in L, NEW h \in L, g # h PROVE {g, n + g} \cap {h, n + h} = {}
      OBVIOUS
    <3>1. g \in 1 .. n /\ h \in 1 .. n
      OBVIOUS
    <3> QED  BY <1>1, <3>1
  <2>2. \A g \in L : g # n + g
    BY <1>12
  <2> QED  BY <1>7, <1>8, <1>11, <2>1, <2>2 DEF ApartInv, Stored
<1>24. PointerInv
  <2>1. \A s \in Stores : mem[s] # NONE => \A k \in Keys : mem[s][k].kind # "ptr"
    BY <1>2, <1>3, <1>4
  <2> QED  BY <2>1 DEF PointerInv
<1>25. WorkerInv(L, {})
  BY <1>2, LocalFields DEF WorkerInv, WorkerFits
<1> QED
  BY <1>14, <1>15, <1>16, <1>17, <1>18, <1>21, <1>22, <1>23, <1>24, <1>25 DEF Shape

(* In this shape nothing in use has been freed.                            *)
LEMMA ShapeIsSafe ==
    ASSUME NEW L \in SUBSET Groups, NEW O \in SUBSET Groups, NEW P \in SUBSET Groups,
           Shape(L, O, P)
    PROVE  NothingInUseIsFreed
<1>1. /\ TypeOK /\ GroupInv(L, O) /\ SlotInv(L, O) /\ PointerInv /\ WorkerInv(L, O)
  BY DEF Shape
<1>2. Sources \subseteq Stores /\ \A s \in Sources : mem[s] # NONE
  BY OldsStay
<1>3. ASSUME NEW w \in Workers
      PROVE  /\ loc[w].root # NONE => roots[loc[w].root] # NONE
             /\ loc[w].store # NONE => mem[loc[w].store] # NONE
             /\ loc[w].group # NONE =>
                   /\ Mine(w) # NONE
                   /\ mem[Mine(w).array] # NONE /\ mem[Mine(w).buffer] # NONE
                   /\ Mine(w).next # NONE => group[Mine(w).next] # NONE
  <2>1. WorkerFits(L, O, w)
    BY <1>1 DEF WorkerInv
  <2>2. loc[w].root # NONE => roots[loc[w].root] # NONE
    BY <1>1, <2>1 DEF WorkerFits, SlotInv
  <2>3. loc[w].store # NONE => mem[loc[w].store] # NONE
    BY <1>2, <2>1 DEF WorkerFits
  <2>4. loc[w].group # NONE => loc[w].group \in L \cup O
    BY <2>1 DEF WorkerFits
  <2>5. \A g \in L \cup O : /\ group[g] # NONE
                            /\ mem[group[g].array] # NONE /\ mem[group[g].buffer] # NONE
                            /\ group[g].next # NONE => group[group[g].next] # NONE
    BY <1>1 DEF GroupInv, Array, Buffer
  <2> QED  BY <2>2, <2>3, <2>4, <2>5 DEF Mine
<1>4. ASSUME NEW s \in Stores, mem[s] # NONE, NEW k \in Keys, mem[s][k].kind = "ptr"
      PROVE  mem[mem[s][k].val] # NONE /\ mem[mem[s][k].val][k].kind \in {"val", "removed"}
  BY <1>1, <1>2, <1>4 DEF PointerInv
<1> QED  BY <1>1, <1>3, <1>4 DEF NothingInUseIsFreed

(* The background thread aborts: it frees nothing.                         *)
LEMMA AbortIsSafe ==
    ASSUME NothingInUseIsFreed, Abort
    PROVE  At("aborted")' /\ NothingInUseIsFreed'
<1>1. /\ bg' = [bg EXCEPT !.pc = "aborted"]
      /\ UNCHANGED <<mem, group, roots, root, waits, pc, call, loc, result>>
  BY DEF Abort, memVars, workerVars
<1>2. bg' \in BgLocals /\ bg'.pc = "aborted"
  <2>1. bg \in BgLocals /\ "aborted" \in BgLabels
    BY DEF NothingInUseIsFreed, TypeOK, BgLabels
  <2> QED  BY <1>1, <2>1 DEF BgLocals
<1>3. TypeOK'
  BY <1>1, <1>2 DEF NothingInUseIsFreed, TypeOK
<1>4. NothingInUseIsFreed'
  BY <1>1, <1>3 DEF NothingInUseIsFreed, Mine
<1> QED
  BY <1>2, <1>4 DEF At

(* After that there is no step.                                            *)
LEMMA AbortedStays ==
    ASSUME At("aborted"), NothingInUseIsFreed, [Next]_vars
    PROVE  IndexInv'
<1>1. ~Background
  BY DEF At, Background, Adjustment, Visits, Remodel, Split, Merge, Compact, DeleteModel,
     PrepareSplit, PrepareMerge, MergeRef, Abort, Publish, PublishNext, UnlinkNext, ReplacePointer,
     AllReplaced, FreeOld, Skip, NextSlot, BeginRoot, RoundEnds, ListGroup, ListSlot, CreateNewRoot,
     TrimRoot, KeepRoot, NextRound
<1>2. UNCHANGED vars
  BY <1>1 DEF Next, Aborted, Running
<1>3. UNCHANGED <<mem, group, roots, root, waits, bg, pc, call, loc, result>>
  BY <1>2 DEF vars, memVars, workerVars
<1>4. TypeOK'
  BY <1>3 DEF NothingInUseIsFreed, TypeOK
<1> QED
  BY <1>3, <1>4 DEF IndexInv, NothingInUseIsFreed, Mine, At

(* No step of the background thread breaks the invariant.                  *)
LEMMA BackgroundKeeps ==
    ASSUME NEW L \in SUBSET Groups, NEW O \in SUBSET Groups, NEW P \in SUBSET Groups,
           Shape(L, O, P), Background
    PROVE  IndexInv'
<1> USE DEF IndexInv
<1>0. {} \in SUBSET Groups /\ L \ P \in SUBSET Groups
  OBVIOUS
<1>1. ASSUME NEW g \in Groups, Adjustment(g) PROVE IndexInv'
  <2>0. {g} \in SUBSET Groups
    OBVIOUS
  <2>1. CASE Remodel(g)
    <3>1. PICK L2 \in SUBSET Groups : Shape(L2, {g}, P)'
      BY <2>1, RemodelKeeps
    <3> QED  BY <2>0, <3>1
  <2>2. CASE Split(g)
    <3>1. PICK L2 \in SUBSET Groups : Shape(L2, {g}, P)'
      BY <2>2, SplitKeeps
    <3> QED  BY <2>0, <3>1
  <2>3. CASE Merge(g)
    <3>1. Shape(L, {}, P)'
      BY <2>3, MergeKeeps
    <3> QED  BY <1>0, <3>1
  <2>4. CASE Compact(g)
    <3>1. Shape(L, {}, P)'
      BY <2>4, CompactKeeps
    <3> QED  BY <1>0, <3>1
  <2> QED  BY <1>1, <2>1, <2>2, <2>3, <2>4 DEF Adjustment
<1>2. CASE DeleteModel
  <2>1. Shape(L, {}, P)'
    BY <1>2, DeleteKeeps
  <2> QED  BY <1>0, <2>1
<1>3. CASE PrepareSplit
  BY <1>3, PrepareSplitKeeps
<1>4. CASE PrepareMerge
  BY <1>4, PrepareMergeKeeps
<1>5. CASE MergeRef
  BY <1>5, MergeRefKeeps
<1>6. CASE Publish
  BY <1>6, PublishKeeps
<1>7. CASE PublishNext \/ UnlinkNext
  BY <1>7, NextKeeps
<1>8. CASE ReplacePointer
  BY <1>8, ReplaceKeeps
<1>9. CASE AllReplaced
  BY <1>9, AllReplacedKeeps
<1>10. CASE FreeOld
  <2>1. PICK P2 \in SUBSET Groups : Shape(L, {}, P2)'
    BY <1>10, FreeKeeps
  <2> QED  BY <1>0, <2>1
<1>11. CASE Skip \/ ListGroup
  BY <1>11, SkipKeeps
<1>12. CASE NextSlot \/ ListSlot
  BY <1>12, NextSlotKeeps
<1>13. CASE BeginRoot \/ NextRound
  <2>1. Shape(L, O, {})'
    BY <1>13, BeginRootKeeps
  <2> QED  BY <1>0, <2>1
<1>14. CASE CreateNewRoot
  <2>1. Shape(P, L \ P, {})'
    BY <1>14, CreateKeeps
  <2> QED  BY <1>0, <2>1
<1>15. CASE TrimRoot
  <2>1. Shape(L, {}, {})'
    BY <1>15, TrimKeeps
  <2> QED  BY <1>0, <2>1
<1>16. CASE KeepRoot
  BY <1>16, KeepRootKeeps
<1>17. CASE Abort
  BY <1>17, ShapeIsSafe, AbortIsSafe
<1> QED
  BY <1>1, <1>2, <1>3, <1>4, <1>5, <1>6, <1>7, <1>8, <1>9, <1>10, <1>11, <1>12, <1>13, <1>14,
     <1>15, <1>16, <1>17 DEF Background

(* A step that changes nothing keeps the shape.                            *)
LEMMA StutterKeeps ==
    ASSUME NEW L \in SUBSET Groups, NEW O \in SUBSET Groups, NEW P \in SUBSET Groups,
           Shape(L, O, P), UNCHANGED vars
    PROVE  Shape(L, O, P)'
<1> USE DEF Shape
<1>1. UNCHANGED <<mem, group, roots, root, waits, bg, pc, call, loc, result>>
  BY DEF vars, memVars, workerVars
<1>2. Olds' = Olds /\ Inters' = Inters /\ News' = News
  BY <1>1 DEF Olds, Inters, News
<1>3. Sources' = Sources /\ Own(L)' = Own(L) /\ Retired' = Retired
  BY <1>1, <1>2 DEF Sources, Own, Array, Buffer, Retired, Olds
<1>4. TypeOK'
  BY <1>1 DEF TypeOK
<1>5. WorkInv' /\ ChainInv' /\ PlaceInv(L, O)'
  BY <1>1, <1>2, <1>3 DEF WorkInv, ChainInv, PlaceInv, Adjusting
<1>6. GroupInv(L, O)'
  BY <1>1, <1>2 DEF GroupInv, Array, Buffer
<1>7. SlotInv(L, O)'
  BY <1>1 DEF SlotInv
<1>8. Links(L)' = Links(L) /\ \A p : Deref(p)' = Deref(p)
  BY <1>1 DEF Links, Deref
<1>9. LinkInv(L)'
  BY <1>8 DEF LinkInv
<1>10. PtrInv(L, P)'
  <2>1. Deref(bg.ptr)' = Deref(bg.ptr)
    BY <1>1 DEF Deref
  <2>2. \A p : Passed(P, p)' <=> Passed(P, p)
    BY <1>1 DEF Passed
  <2> QED  BY <1>1, <1>2, <1>8, <2>1, <2>2 DEF PtrInv
<1>11. NextInv' /\ ListInv(P)'
  <2>1. Deref(bg.next_ptr)' = Deref(bg.next_ptr)
    BY <1>1 DEF Deref
  <2> QED  BY <1>1, <2>1 DEF NextInv, ListInv
<1>12. ApartInv(L)'
  BY <1>1, <1>2, <1>3 DEF ApartInv, Stored, Array, Buffer
<1>13. PointerInv'
  BY <1>1, <1>2, <1>3 DEF PointerInv, Array
<1>14. WorkerInv(L, O)'
  <2> SUFFICES ASSUME NEW w \in Workers PROVE WorkerFits(L, O, w)'
    BY DEF WorkerInv
  <2>1. WorkerFits(L, O, w)
    BY DEF WorkerInv
  <2> QED  BY <1>1, <1>3, <2>1 DEF WorkerFits, Is
<1> QED
  BY <1>4, <1>5, <1>6, <1>7, <1>9, <1>10, <1>11, <1>12, <1>13, <1>14

-----------------------------------------------------------------------------
(* At all times the groups that the index leads to, those that were        *)
(* replaced but not freed, and those the background thread has passed have *)
(* the shape above.                                                        *)
THEOREM IndexInvariant == Spec => []IndexInv
<1>1. Init => IndexInv
  <2>1. 1 .. Len(Loaded) \in SUBSET Groups /\ {} \in SUBSET Groups
    BY LoadedIs
  <2> QED  BY <2>1, InitShape DEF IndexInv
<1>2. IndexInv /\ [Next]_vars => IndexInv'
  <2> SUFFICES ASSUME IndexInv, [Next]_vars PROVE IndexInv'
    OBVIOUS
  <2>0. CASE At("aborted") /\ NothingInUseIsFreed
    BY <2>0, AbortedStays
  <2> SUFFICES ASSUME \E L, O, P \in SUBSET Groups : Shape(L, O, P) PROVE IndexInv'
    BY <2>0 DEF IndexInv
  <2>1. PICK L \in SUBSET Groups, O \in SUBSET Groups, P \in SUBSET Groups : Shape(L, O, P)
    OBVIOUS
  <2>2. CASE Background
    BY <2>1, <2>2, BackgroundKeeps
  <2>3. ASSUME NEW w \in Workers, Worker(w) PROVE IndexInv'
    <3>1. Shape(L, O, P)'
      BY <2>1, <2>3, WorkerKeeps
    <3> QED  BY <3>1 DEF IndexInv
  <2>4. CASE UNCHANGED vars
    <3>1. Shape(L, O, P)'
      BY <2>1, <2>4, StutterKeeps
    <3> QED  BY <3>1 DEF IndexInv
  <2> QED  BY <2>2, <2>3, <2>4 DEF Next, Aborted
<1> QED
  BY <1>1, <1>2, PTL DEF Spec

(* No root, group, array or buffer is freed while a worker in a call can   *)
(* still reach it, and no record points into freed memory: rcu_barrier     *)
(* comes between the step that unlinks memory and the one that frees it,   *)
(* and no worker comes to hold again what no link leads to.  For any       *)
(* workers, keys, loaded groups and number of adjustments.                 *)
THEOREM NothingInUseStays == Spec => []NothingInUseIsFreed
<1>1. IndexInv => NothingInUseIsFreed
  BY ShapeIsSafe DEF IndexInv
<1> QED
  BY <1>1, IndexInvariant, PTL
=============================================================================
