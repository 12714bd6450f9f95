------------------------------- MODULE XIndex -------------------------------
(***************************************************************************)
(* XIndex-R (index/XIndex-R): workers get, put and remove keys while one   *)
(* background thread adjusts the groups of the root: it copies a group     *)
(* with other models, splits it, merges it with the next slot's, or        *)
(* compacts its buffer into its array, and rebuilds the root.              *)
(*                                                                         *)
(* A group has a sorted array and a buffer for new keys; a frozen group's  *)
(* buffer takes no new key, and buffer_temp does once it is there.  The    *)
(* records of a new array first point to the records they replace.  What   *)
(* is unlinked is freed after an rcu_barrier, which waits until every      *)
(* worker has begun another call.                                          *)
(*                                                                         *)
(* An array or a buffer is a store: a record for every key.  AtomicVal's   *)
(* lock and version and the buffer's tree make each access to one record   *)
(* atomic.  Models only guess positions that a search then corrects, so    *)
(* what a model does is left out and its error may be anything.            *)
(*                                                                         *)
(* There is one background thread (bg_n 1).  DummyIndex creates the index  *)
(* with none (index/dummy_index.hpp:121): then Background never moves.     *)
(***************************************************************************)
EXTENDS Integers, Sequences, FiniteSets, Functions

CONSTANTS
    Workers,
    Keys,               \* a set of numbers
    Values,
    Loaded,             \* the records of each initial group: [keys -> Values]
    CompactThreshold,   \* buffer_compact_threshold
    Calls(_),           \* the calls a worker may make
    Stores, Groups,     \* bound: arrays and buffers, groups, numbered
    MaxAdjustments,     \* bound: groups adjusted
    NONE

Names == {"get", "put", "remove"}
Roots == {0, 1}
AllCalls == [name : Names, key : Keys, value : Values]

ASSUME XIndexAssumption ==
    /\ Keys \subseteq Nat /\ IsFiniteSet(Keys) /\ Keys # {}
    /\ Stores \subseteq Nat /\ Groups \subseteq Nat
    /\ NONE \notin Values \cup Stores \cup Groups
    /\ Loaded \in Seq(UNION {[ks -> Values] : ks \in (SUBSET Keys) \ {{}}})
    /\ Len(Loaded) >= 1 /\ DOMAIN Loaded \subseteq Groups /\ 1 .. 2 * Len(Loaded) \subseteq Stores
    /\ CompactThreshold \in Nat /\ MaxAdjustments \in Nat
    /\ \A w \in Workers : Calls(w) \subseteq AllCalls

VARIABLES
    mem,        \* the records of every store, NONE when it is not allocated
    group,      \* the members of every group, NONE when it is not allocated
    roots,      \* groups of each root: pivot and group, NONE when deleted
    root,       \* XIndex::root
    waits,      \* workers the rcu_barrier of the background thread waits for
    bg,         \* the background thread: where it is, and its locals
    pc,         \* where each worker is
    call,       \* the call it makes
    loc,        \* the root, the group and the store it holds
    result      \* the answer of its last call

memVars == <<mem, group, roots, root>>
workerVars == <<pc, call, loc, result>>
vars == <<memVars, waits, bg, workerVars>>

-----------------------------------------------------------------------------
(* Records (AtomicVal): a value, a value that was removed, or a pointer to *)
(* the record of the same key in another store.                            *)

Absent == [kind |-> "none", val |-> NONE]
Removed == [kind |-> "removed", val |-> NONE]
Val(v) == [kind |-> "val", val |-> v]
Ptr(s) == [kind |-> "ptr", val |-> s]
Records == {Absent, Removed} \cup [kind : {"val"}, val : Values] \cup [kind : {"ptr"}, val : Stores]

Empty == [k \in Keys |-> Absent]

(* The store whose record an update or a remove changes.                   *)
Target(s, k) == IF mem[s][k].kind = "ptr" THEN mem[s][k].val ELSE s
Reads(s, k) == mem[Target(s, k)][k]
IsLive(s, k) == Reads(s, k).kind = "val"

Overwrite(s, k, r) == mem' = [mem EXCEPT ![s][k] = r]

\* buffer->size(): keys that were inserted, removed ones included.
Size(s) == Cardinality({k \in Keys : mem[s][k] # Absent})

-----------------------------------------------------------------------------
(* Groups.                                                                 *)

Smallest(S) == CHOOSE x \in S : \A y \in S : x <= y

NewGroup(pivot, array, buffer, temp, frozen, next) ==
    [pivot |-> pivot, array |-> array, buffer |-> buffer, buffer_temp |-> temp,
     buf_frozen |-> frozen, next |-> next]

(* A pointer to a group: a slot of the root, or the next of a group.       *)
Slot(i) == [at |-> "slot", of |-> i]
NextOf(g) == [at |-> "next", of |-> g]
Deref(p) == IF p.at = "slot" THEN roots[root][p.of].group ELSE group[p.of].next

(* What roots and a value of group become when a pointer is stored.        *)
RootsWith(p, g) == IF p.at = "slot" THEN [roots EXCEPT ![root][p.of].group = g] ELSE roots
GroupsWith(grp, p, g) == IF p.at = "next" THEN [grp EXCEPT ![p.of].next = g] ELSE grp

(* Allocation takes memory no worker still points to, so that the use of   *)
(* freed memory stays visible.                                             *)
FreshStores == {s \in Stores : mem[s] = NONE /\ \A w \in Workers : loc[w].store # s}
FreshGroups == {g \in Groups : group[g] = NONE /\ \A w \in Workers : loc[w].group # g}
First(S) == Smallest(S)
Second(S) == Smallest(S \ {First(S)})
AtLeastTwo(S) == ~ \A x, y \in S : x = y

-----------------------------------------------------------------------------
NoCall == [name |-> "none", key |-> NONE, value |-> NONE]
NoLoc == [root |-> NONE, group |-> NONE, store |-> NONE]
NoAnswer == [ok |-> FALSE, value |-> NONE]
NoWork == [pc |-> "visit", slot |-> 1, ptr |-> Slot(1), kind |-> "none", old |-> <<>>, inter |-> <<>>,
           new |-> <<>>, next_ptr |-> NONE, left |-> {}, listed |-> <<>>,
           should_update |-> FALSE, adjusted |-> 0]

(* The keys are loaded into the arrays of the first groups.                *)
Init ==
    LET n == Len(Loaded) IN
    /\ mem = [s \in Stores |->
                IF s \in 1 .. n
                THEN [k \in Keys |-> IF k \in DOMAIN Loaded[s] THEN Val(Loaded[s][k]) ELSE Absent]
                ELSE IF s \in n + 1 .. 2 * n THEN Empty ELSE NONE]
    /\ group = [g \in Groups |->
                  IF g \in 1 .. n
                  THEN NewGroup(Smallest(DOMAIN Loaded[g]), g, n + g, NONE, FALSE, NONE)
                  ELSE NONE]
    /\ roots = [r \in Roots |->
                  IF r = 0 THEN [i \in 1 .. n |-> [pivot |-> Smallest(DOMAIN Loaded[i]), group |-> i]]
                  ELSE NONE]
    /\ root = 0
    /\ waits = {}
    /\ bg = NoWork
    /\ pc = [w \in Workers |-> "idle"]
    /\ call = [w \in Workers |-> NoCall]
    /\ loc = [w \in Workers |-> NoLoc]
    /\ result = [w \in Workers |-> NoAnswer]

-----------------------------------------------------------------------------
(* Workers.                                                                *)

Key(w) == call[w].key
Is(w, names) == call[w].name \in names
Mine(w) == group[loc[w].group]
Goto(w, label) == pc' = [pc EXCEPT ![w] = label]

\* rcu_progress, and the load of the root that follows it.
Progress(w) ==
    /\ waits' = waits \ {w}
    /\ loc' = [loc EXCEPT ![w] = [NoLoc EXCEPT !.root = root]]
    /\ Goto(w, "locate")

Begin(w) ==
    /\ pc[w] = "idle"
    /\ \E c \in Calls(w) : call' = [call EXCEPT ![w] = c]
    /\ result' = [result EXCEPT ![w] = NoAnswer]
    /\ Progress(w)
    /\ UNCHANGED <<memVars, bg>>

Answer(w, answer) ==
    /\ Goto(w, "idle")
    /\ call' = [call EXCEPT ![w] = NoCall]
    /\ loc' = [loc EXCEPT ![w] = NoLoc]
    /\ result' = [result EXCEPT ![w] = answer]

(* The search for a key ends at a slot whose pivot is not above the key    *)
(* while the next one's is, or at the first slot; then it goes back to a   *)
(* slot that has a group.                                                  *)
Bounds(slots, i, k) ==
    IF slots[i].pivot <= k THEN i = Len(slots) \/ slots[i + 1].pivot > k ELSE i = 1

SlotsOf(slots, k) ==
    {j \in DOMAIN slots :
        /\ slots[j].group # NONE
        /\ \E i \in DOMAIN slots : /\ Bounds(slots, i, k) /\ j <= i
                                 /\ \A m \in j + 1 .. i : slots[m].group = NONE}

Locate(w) ==
    /\ pc[w] = "locate"
    /\ LET slots == roots[loc[w].root]
       IN  \E j \in SlotsOf(slots, Key(w)) :
              loc' = [loc EXCEPT ![w] = [NoLoc EXCEPT !.group = slots[j].group]]
    /\ Goto(w, "walk")
    /\ UNCHANGED <<memVars, waits, bg, call, result>>

\* locate_group_pt2: along next to the last group whose pivot is not above.
Walk(w) ==
    /\ pc[w] = "walk"
    /\ LET next == Mine(w).next
           onward == next # NONE /\ group[next].pivot <= Key(w)
       IN  IF onward
           THEN /\ loc' = [loc EXCEPT ![w].group = next]
                /\ UNCHANGED pc
           ELSE /\ Goto(w, "array")
                /\ UNCHANGED loc
    /\ UNCHANGED <<memVars, waits, bg, call, result>>

(* A get reads the array, the buffer and buffer_temp in this order, and    *)
(* follows a pointer in a step of its own.                                 *)
Found(w, r) == r.kind = "val" /\ Answer(w, [ok |-> TRUE, value |-> r.val])

GetArray(w) ==
    /\ pc[w] = "array" /\ Is(w, {"get"})
    /\ LET r == mem[Mine(w).array][Key(w)]
       IN  \/ Found(w, r)
           \/ /\ r.kind = "ptr"
              /\ loc' = [loc EXCEPT ![w].store = r.val]
              /\ Goto(w, "pointer")
              /\ UNCHANGED <<call, result>>
           \/ /\ r.kind \in {"none", "removed"}
              /\ Goto(w, "buffer")
              /\ UNCHANGED <<call, loc, result>>
    /\ UNCHANGED <<memVars, waits, bg>>

GetPointer(w) ==
    /\ pc[w] = "pointer"
    /\ LET r == mem[loc[w].store][Key(w)]
       IN  \/ Found(w, r)
           \/ /\ r.kind # "val"
              /\ loc' = [loc EXCEPT ![w].store = NONE]
              /\ Goto(w, "buffer")
              /\ UNCHANGED <<call, result>>
    /\ UNCHANGED <<memVars, waits, bg>>

GetBuffer(w) ==
    /\ pc[w] = "buffer" /\ Is(w, {"get"})
    /\ LET r == mem[Mine(w).buffer][Key(w)]
       IN  \/ Found(w, r)
           \/ /\ r.kind # "val"
              /\ Goto(w, "temp")
              /\ UNCHANGED <<call, loc, result>>
    /\ UNCHANGED <<memVars, waits, bg>>

InTemp(w) == Mine(w).buffer_temp # NONE /\ mem[Mine(w).buffer_temp][Key(w)].kind = "val"

GetTemp(w) ==
    /\ pc[w] = "temp" /\ Is(w, {"get"})
    /\ IF InTemp(w) THEN Found(w, mem[Mine(w).buffer_temp][Key(w)])
       ELSE Answer(w, NoAnswer)
    /\ UNCHANGED <<memVars, waits, bg>>

(* What a put or a remove leaves in a record, and its return.              *)
NewRecord(w) == IF Is(w, {"put"}) THEN Val(call[w].value) ELSE Removed

Write(w, s) ==
    /\ Overwrite(s, Key(w), NewRecord(w))
    /\ Goto(w, "return")
    /\ UNCHANGED <<group, roots, root>>

Return(w) ==
    /\ pc[w] = "return"
    /\ Answer(w, [ok |-> TRUE, value |-> NONE])
    /\ UNCHANGED <<memVars, waits, bg>>

\* update_to_array and remove_from_array: in place, through the pointer.
\* Mutant: a key is not looked for in the array.
NeverInArray(w) == FALSE
InArray(w) == IsLive(Mine(w).array, Key(w))

WriteArray(w) ==
    /\ pc[w] = "array" /\ Is(w, {"put", "remove"})
    /\ IF InArray(w) THEN Write(w, Target(Mine(w).array, Key(w)))
       ELSE /\ Goto(w, IF Is(w, {"put"}) THEN "has_temp" ELSE "buffer")
            /\ UNCHANGED memVars
    /\ UNCHANGED <<waits, bg, call, loc, result>>

\* put without a buffer_temp looks at buf_frozen next.
PutHasTemp(w) ==
    /\ pc[w] = "has_temp"
    /\ Goto(w, IF Mine(w).buffer_temp = NONE THEN "is_frozen" ELSE "buffer")
    /\ UNCHANGED <<memVars, waits, bg, call, loc, result>>

PutIsFrozen(w) ==
    /\ pc[w] = "is_frozen" /\ ~Mine(w).buf_frozen
    /\ Goto(w, "insert")
    /\ UNCHANGED <<memVars, waits, bg, call, loc, result>>

(* The retry counts as progress: the barrier that ends the freeze waits    *)
(* for this worker, too.  Mutant: it does not.                             *)
RetryUnnoticed(w) ==
    /\ pc[w] = "is_frozen" /\ Mine(w).buf_frozen
    /\ loc' = [loc EXCEPT ![w] = [NoLoc EXCEPT !.root = root]]
    /\ Goto(w, "locate")
    /\ UNCHANGED <<memVars, waits, bg, call, result>>
PutRetry(w) ==
    /\ pc[w] = "is_frozen" /\ Mine(w).buf_frozen
    /\ Progress(w)
    /\ UNCHANGED <<memVars, bg, call, result>>

PutInsert(w) ==
    /\ pc[w] = "insert"
    /\ Write(w, Mine(w).buffer)
    /\ UNCHANGED <<waits, bg, call, loc, result>>

\* update_to_buffer and remove_from_buffer.
WriteBuffer(w) ==
    /\ pc[w] = "buffer" /\ Is(w, {"put", "remove"})
    /\ IF IsLive(Mine(w).buffer, Key(w)) THEN Write(w, Mine(w).buffer)
       ELSE Goto(w, "temp") /\ UNCHANGED memVars
    /\ UNCHANGED <<waits, bg, call, loc, result>>

PutTemp(w) ==
    /\ pc[w] = "temp" /\ Is(w, {"put"})
    /\ Write(w, Mine(w).buffer_temp)
    /\ UNCHANGED <<waits, bg, call, loc, result>>

RemoveTemp(w) ==
    /\ pc[w] = "temp" /\ Is(w, {"remove"})
    /\ IF InTemp(w)
       THEN Write(w, Mine(w).buffer_temp) /\ UNCHANGED <<call, loc, result>>
       ELSE Answer(w, NoAnswer) /\ UNCHANGED memVars
    /\ UNCHANGED <<waits, bg>>

(* The steps within a call.                                                *)
Proceed(w) ==
    \/ Locate(w) \/ Walk(w) \/ Return(w)
    \/ GetArray(w) \/ GetPointer(w) \/ GetBuffer(w) \/ GetTemp(w)
    \/ WriteArray(w) \/ WriteBuffer(w)
    \/ PutHasTemp(w) \/ PutIsFrozen(w) \/ PutRetry(w) \/ PutInsert(w) \/ PutTemp(w)
    \/ RemoveTemp(w)

Worker(w) == Begin(w) \/ Proceed(w)

-----------------------------------------------------------------------------
(* The background thread.  It visits the groups of every slot in turn; bg  *)
(* .ptr is `group`, the pointer to the group it looks at.                  *)

At(label) == bg.pc = label
BarrierEnds == waits = {}
Array(g) == group[g].array
Buffer(g) == group[g].buffer

(* The error of a group may call for any adjustment of it.                 *)
Visits(g) == /\ At("visit") /\ Deref(bg.ptr) = g /\ g # NONE
             /\ bg.adjusted < MaxAdjustments

\* split_model or merge_model: everything but buf_frozen is copied.
Remodel(g) ==
    /\ Visits(g) /\ FreshGroups # {}
    /\ LET n == First(FreshGroups)
           copy == [group EXCEPT ![n] = [group[g] EXCEPT !.buf_frozen = FALSE]]
       IN  /\ group' = GroupsWith(copy, bg.ptr, n)
           /\ roots' = RootsWith(bg.ptr, n)
           /\ bg' = [bg EXCEPT !.pc = "delete", !.old = <<g>>]
    /\ waits' = Workers
    /\ UNCHANGED <<mem, root, workerVars>>

DeleteModel ==
    /\ At("delete") /\ BarrierEnds
    /\ group' = [group EXCEPT ![bg.old[1]] = NONE]
    /\ bg' = [bg EXCEPT !.pc = "visit", !.old = <<>>, !.adjusted = @ + 1]
    /\ UNCHANGED <<mem, roots, root, waits, workerVars>>

(* split_group_pt1: two groups that share the frozen buffer and the array, *)
(* each with a buffer_temp; the second begins at the middle record.        *)
Middle(g) == LET ks == {k \in Keys : mem[Array(g)][k] # Absent}
             IN  {k \in ks : Cardinality({j \in ks : j < k}) = Cardinality(ks) \div 2}

Split(g) ==
    /\ Visits(g) /\ AtLeastTwo(FreshGroups) /\ AtLeastTwo(FreshStores)
    /\ \E middle \in Middle(g) :
       LET i1 == First(FreshGroups)
           i2 == Second(FreshGroups)
           t1 == First(FreshStores)
           t2 == Second(FreshStores)
           old == group[g]
           both == [group EXCEPT
                      ![i1] = NewGroup(old.pivot, old.array, old.buffer, t1, TRUE, i2),
                      ![i2] = NewGroup(middle, old.array, old.buffer, t2, TRUE, old.next)]
       IN  /\ mem' = [mem EXCEPT ![t1] = Empty, ![t2] = Empty]
           /\ group' = GroupsWith(both, bg.ptr, i1)
           /\ roots' = RootsWith(bg.ptr, i1)
           /\ bg' = [bg EXCEPT !.pc = "prepare", !.kind = "split", !.old = <<g>>, !.inter = <<i1, i2>>]
    /\ waits' = Workers
    /\ UNCHANGED <<root, workerVars>>

(* The first steps of merge_group and compact_phase_1.                     *)
Freeze(kind, old, next_ptr) ==
    /\ group' = [g \in Groups |-> IF g \in Range(old) THEN [group[g] EXCEPT !.buf_frozen = TRUE]
                                  ELSE group[g]]
    /\ bg' = [bg EXCEPT !.pc = "prepare", !.kind = kind, !.old = old, !.next_ptr = next_ptr]
    /\ waits' = Workers
    /\ UNCHANGED <<mem, roots, root, workerVars>>

\* next_group: the next of the group, or else the group of the next slot.
NextGroup(g) ==
    LET slots == roots[root]
        here == bg.slot
    IN  IF group[g].next # NONE THEN NextOf(g)
        ELSE IF here < Len(slots) /\ slots[here + 1].group # NONE
             THEN Slot(here + 1) ELSE NONE

Merge(g) ==
    /\ Visits(g)
    /\ NextGroup(g) # NONE
    /\ Freeze("merge", <<g, Deref(NextGroup(g))>>, NextGroup(g))

Compact(g) ==
    /\ Visits(g)
    /\ Size(Buffer(g)) > CompactThreshold
    /\ Freeze("compact", <<g>>, NONE)

(* "make sure no one is inserting to buffer" before it is merged.  Mutant: *)
(* the barrier is left out.                                                *)
NotAwaited == TRUE
InsertionsEnd == BarrierEnds

(* split_group_pt2: two groups with arrays of their own, whose buffers are *)
(* the buffer_temps.                                                       *)
PrepareSplit ==
    /\ At("prepare") /\ bg.kind = "split" /\ InsertionsEnd
    /\ AtLeastTwo(FreshGroups) /\ AtLeastTwo(FreshStores)
    /\ LET n1 == First(FreshGroups)
           n2 == Second(FreshGroups)
           a1 == First(FreshStores)
           a2 == Second(FreshStores)
           i1 == group[bg.inter[1]]
           i2 == group[bg.inter[2]]
       IN  /\ mem' = [mem EXCEPT ![a1] = Empty, ![a2] = Empty]
           /\ group' = [group EXCEPT
                          ![n1] = NewGroup(i1.pivot, a1, i1.buffer_temp, NONE, FALSE, n2),
                          ![n2] = NewGroup(i2.pivot, a2, i2.buffer_temp, NONE, FALSE, i2.next)]
           /\ bg' = [bg EXCEPT !.pc = "merge", !.new = <<n1, n2>>, !.left = Keys]
    /\ UNCHANGED <<roots, root, waits, workerVars>>

\* The new group of merge_group and compact_phase_1.
Merged(array, buffer) ==
    NewGroup(group[bg.old[1]].pivot, array, buffer, NONE, FALSE, group[bg.old[Len(bg.old)]].next)

\* With no one inserting any more, the old groups get a common buffer_temp.
PrepareMerge ==
    /\ At("prepare") /\ bg.kind # "split" /\ InsertionsEnd
    /\ FreshGroups # {} /\ AtLeastTwo(FreshStores)
    /\ LET n == First(FreshGroups)
           temp == First(FreshStores)
           array == Second(FreshStores)
       IN  /\ mem' = [mem EXCEPT ![temp] = Empty, ![array] = Empty]
           /\ group' = [g \in Groups |->
                          IF g = n THEN Merged(array, temp)
                          ELSE IF g \in Range(bg.old) THEN [group[g] EXCEPT !.buffer_temp = temp]
                          ELSE group[g]]
           /\ bg' = [bg EXCEPT !.pc = "merge", !.new = <<n>>, !.left = Keys]
    /\ UNCHANGED <<roots, root, waits, workerVars>>

(* merge_refs_internal, one key at a time: the new array points to the     *)
(* record of the array or of the buffer that was not removed.              *)
Sources == UNION {{Array(g), Buffer(g)} : g \in Range(bg.old)}
LiveIn(k) == {s \in Sources : IsLive(s, k)}
Destination(k) ==
    Array(IF Len(bg.new) = 2 /\ k >= group[bg.new[Len(bg.new)]].pivot THEN bg.new[2] ELSE bg.new[1])

(* "assert(base_key != buf_key)", and in split_group_pt2 one that the      *)
(* second group gets a record: a build without NDEBUG aborts.              *)
Clash(k) == \E g \in Range(bg.old) : IsLive(Array(g), k) /\ IsLive(Buffer(g), k)
NoSecondHalf == bg.kind = "split" /\ \A k \in Keys : mem[Array(bg.new[2])][k] = Absent
AssertFails == IF bg.left = {} THEN NoSecondHalf ELSE Clash(Smallest(bg.left))

Abort ==
    /\ At("merge") /\ AssertFails
    /\ bg' = [bg EXCEPT !.pc = "aborted"]
    /\ UNCHANGED <<memVars, waits, workerVars>>

MergeRef ==
    /\ At("merge") /\ bg.left # {} /\ ~AssertFails
    /\ LET k == Smallest(bg.left)
       IN  /\ IF LiveIn(k) = {} THEN UNCHANGED mem
              ELSE \E s \in LiveIn(k) : Overwrite(Destination(k), k, Ptr(s))
           /\ bg' = [bg EXCEPT !.left = @ \ {k}]
    /\ UNCHANGED <<group, roots, root, waits, workerVars>>

(* The new group takes the place of the old one, and of the next in a      *)
(* second step; after a barrier the pointer to the next becomes null.      *)
Publish ==
    /\ At("merge") /\ bg.left = {} /\ ~AssertFails
    /\ roots' = RootsWith(bg.ptr, bg.new[1])
    /\ group' = GroupsWith(group, bg.ptr, bg.new[1])
    /\ bg' = [bg EXCEPT !.pc = IF bg.kind = "merge" THEN "publish_next" ELSE "replace"]
    /\ waits' = IF bg.kind = "merge" THEN waits ELSE Workers
    /\ UNCHANGED <<mem, root, workerVars>>

PublishNext ==
    /\ At("publish_next")
    /\ roots' = RootsWith(bg.next_ptr, bg.new[1])
    /\ group' = GroupsWith(group, bg.next_ptr, bg.new[1])
    /\ bg' = [bg EXCEPT !.pc = "unlink_next"]
    /\ waits' = Workers
    /\ UNCHANGED <<mem, root, workerVars>>

UnlinkNext ==
    /\ At("unlink_next") /\ BarrierEnds
    /\ roots' = RootsWith(bg.next_ptr, NONE)
    /\ group' = GroupsWith(group, bg.next_ptr, NONE)
    /\ bg' = [bg EXCEPT !.pc = "replace", !.next_ptr = NONE]
    /\ UNCHANGED <<mem, root, waits, workerVars>>

(* compact_phase_2: every pointer is replaced by what it points to.        *)
Pointers == {p \in Range(bg.new) \X Keys : mem[Array(p[1])][p[2]].kind = "ptr"}

Replaced(s, k) == IF IsLive(s, k) THEN Reads(s, k) ELSE Removed

ReplacePointer ==
    /\ At("replace") /\ BarrierEnds /\ Pointers # {}
    /\ LET k == Smallest({p[2] : p \in Pointers})
           s == Array((CHOOSE p \in Pointers : p[2] = k)[1])
       IN  Overwrite(s, k, Replaced(s, k))
    /\ UNCHANGED <<group, roots, root, waits, bg, workerVars>>

AllReplaced ==
    /\ At("replace") /\ BarrierEnds /\ Pointers = {}
    /\ bg' = [bg EXCEPT !.pc = "free"]
    /\ waits' = Workers
    /\ UNCHANGED <<memVars, workerVars>>

\* The second group of a split is skipped.  Mutant: no barrier before.
FreedAtOnce == TRUE
OldIsUnused == BarrierEnds

FreeOld ==
    /\ At("free") /\ OldIsUnused
    /\ mem' = [s \in Stores |-> IF s \in Sources THEN NONE ELSE mem[s]]
    /\ group' = [g \in Groups |-> IF g \in Range(bg.old) \cup Range(bg.inter) THEN NONE ELSE group[g]]
    /\ bg' = [NoWork EXCEPT !.slot = bg.slot,
                            !.ptr = NextOf(bg.new[Len(bg.new)]),
                            !.should_update = bg.should_update \/ bg.kind # "compact",
                            !.adjusted = bg.adjusted + 1]
    /\ UNCHANGED <<roots, root, waits, workerVars>>

(* A group that is left as it is.                                          *)
Skip ==
    /\ At("visit") /\ Deref(bg.ptr) # NONE
    /\ bg' = [bg EXCEPT !.ptr = NextOf(Deref(bg.ptr))]
    /\ UNCHANGED <<memVars, waits, workerVars>>

(* After the last group of the last slot the round ends: the master waits  *)
(* for a barrier and begins the next, but first replaces a root that is    *)
(* out of date.                                                            *)

NextSlot ==
    /\ At("visit") /\ Deref(bg.ptr) = NONE /\ bg.slot < Len(roots[root])
    /\ bg' = [bg EXCEPT !.slot = @ + 1, !.ptr = Slot(bg.slot + 1)]
    /\ UNCHANGED <<memVars, waits, workerVars>>

RoundEnds == At("visit") /\ Deref(bg.ptr) = NONE /\ bg.slot = Len(roots[root])

(* create_new_root lists the groups of every slot.                         *)
BeginRoot ==
    /\ RoundEnds /\ bg.should_update
    /\ bg' = [bg EXCEPT !.pc = "list", !.slot = 1, !.ptr = Slot(1)]
    /\ UNCHANGED <<memVars, waits, workerVars>>

ListGroup ==
    /\ At("list") /\ Deref(bg.ptr) # NONE
    /\ LET g == Deref(bg.ptr)
       IN  bg' = [bg EXCEPT !.listed = Append(@, [pivot |-> group[g].pivot, group |-> g]),
                            !.ptr = NextOf(g)]
    /\ UNCHANGED <<memVars, waits, workerVars>>

ListSlot ==
    /\ At("list") /\ Deref(bg.ptr) = NONE /\ bg.slot < Len(roots[root])
    /\ bg' = [bg EXCEPT !.slot = @ + 1, !.ptr = Slot(bg.slot + 1)]
    /\ UNCHANGED <<memVars, waits, workerVars>>

(* The new root shares the models of the second stage with the old one and *)
(* deletes them when it is trained (xindex_root_impl.h:576): a worker with *)
(* the old root predicts with memory that was freed.  Whatever it reads,   *)
(* the prediction is cut to a slot and the search goes on, as in Locate.   *)
CreateNewRoot ==
    /\ At("list") /\ Deref(bg.ptr) = NONE /\ bg.slot = Len(roots[root])
    /\ roots' = [roots EXCEPT ![1 - root] = bg.listed]
    /\ root' = 1 - root
    /\ bg' = [bg EXCEPT !.pc = "trim", !.listed = <<>>]
    /\ waits' = Workers
    /\ UNCHANGED <<mem, group, workerVars>>

\* trim_root and the delete of the old root.
TrimRoot ==
    /\ At("trim") /\ BarrierEnds
    /\ group' = [g \in Groups |-> IF \E i \in DOMAIN roots[root] : roots[root][i].group = g
                                  THEN [group[g] EXCEPT !.next = NONE] ELSE group[g]]
    /\ roots' = [roots EXCEPT ![1 - root] = NONE]
    /\ bg' = [bg EXCEPT !.pc = "settle"]
    /\ waits' = Workers
    /\ UNCHANGED <<mem, root, workerVars>>

KeepRoot ==
    /\ RoundEnds /\ ~bg.should_update
    /\ bg' = [bg EXCEPT !.pc = "settle"]
    /\ waits' = Workers
    /\ UNCHANGED <<memVars, workerVars>>

NextRound ==
    /\ At("settle") /\ BarrierEnds
    /\ bg.adjusted < MaxAdjustments
    /\ bg' = [NoWork EXCEPT !.adjusted = bg.adjusted]
    /\ UNCHANGED <<memVars, waits, workerVars>>

Adjustment(g) == Remodel(g) \/ Split(g) \/ Merge(g) \/ Compact(g)

Background ==
    \/ \E g \in Groups : Adjustment(g)
    \/ DeleteModel \/ PrepareSplit \/ PrepareMerge \/ MergeRef \/ Abort
    \/ Publish \/ PublishNext \/ UnlinkNext \/ ReplacePointer \/ AllReplaced \/ FreeOld
    \/ Skip \/ NextSlot \/ BeginRoot \/ ListGroup \/ ListSlot \/ CreateNewRoot \/ TrimRoot \/ KeepRoot \/ NextRound

\* A process that was aborted does nothing more.
Running == ~At("aborted")
Aborted == At("aborted") /\ UNCHANGED vars

Next == Background \/ Aborted \/ \E w \in Workers : Running /\ Worker(w)

Spec == Init /\ [][Next]_vars

(* No thread is held up for ever within a call or an adjustment; nothing   *)
(* makes a worker begin another call.                                      *)
Fairness ==
    /\ WF_vars(Background)
    /\ \A w \in Workers : WF_vars(Running /\ Proceed(w))

-----------------------------------------------------------------------------
Pointer == [at : {"slot"}, of : Nat] \cup [at : {"next"}, of : Groups]
BgLabels == {"visit", "delete", "prepare", "merge", "publish_next", "unlink_next", "replace",
             "free", "list", "trim", "settle", "aborted"}
Labels == {"idle", "locate", "walk", "array", "pointer", "buffer", "temp", "return",
           "has_temp", "is_frozen", "insert"}
GroupRecords ==
    [pivot : Keys, array : Stores, buffer : Stores, buffer_temp : Stores \cup {NONE},
     buf_frozen : BOOLEAN, next : Groups \cup {NONE}]

BgLocals ==
    [pc : BgLabels, slot : Nat, ptr : Pointer, kind : {"none", "split", "merge", "compact"},
     old : Seq(Groups), inter : Seq(Groups), new : Seq(Groups), next_ptr : Pointer \cup {NONE},
     left : SUBSET Keys, listed : Seq([pivot : Keys, group : Groups]), should_update : BOOLEAN,
     adjusted : 0 .. MaxAdjustments]
Locals == [root : Roots \cup {NONE}, group : Groups \cup {NONE}, store : Stores \cup {NONE}]

Slots == Seq([pivot : Keys, group : Groups \cup {NONE}])

\* The null pointer is no object.
ASSUME NullAssumption ==
    /\ NONE \notin Roots /\ NONE \notin GroupRecords
    /\ NONE \notin [Keys -> Records] /\ NONE \notin Slots

(* The types of the variables.                                             *)
TypeOK ==
    /\ mem \in [Stores -> [Keys -> Records] \cup {NONE}]
    /\ group \in [Groups -> GroupRecords \cup {NONE}]
    /\ roots \in [Roots -> Slots \cup {NONE}]
    /\ root \in Roots
    /\ waits \subseteq Workers
    /\ bg \in BgLocals
    /\ pc \in [Workers -> Labels]
    /\ call \in [Workers -> AllCalls \cup {NoCall}]
    /\ loc \in [Workers -> Locals]
    /\ result \in [Workers -> {NoAnswer} \cup [ok : {TRUE}, value : Values \cup {NONE}]]

(* do_adjustment's comments: "make sure no one is using old/intermedia     *)
(* groups", "no one is accessing the old data": no root, group, array or   *)
(* buffer is freed while a worker in a call can still reach it, and no     *)
(* record points into freed memory.  (With the types.)                     *)
NothingInUseIsFreed ==
    /\ TypeOK
    /\ \A w \in Workers :
          /\ loc[w].root # NONE => roots[loc[w].root] # NONE
          /\ loc[w].store # NONE => mem[loc[w].store] # NONE
          /\ loc[w].group # NONE =>
                /\ Mine(w) # NONE
                /\ mem[Mine(w).array] # NONE /\ mem[Mine(w).buffer] # NONE
                /\ Mine(w).next # NONE => group[Mine(w).next] # NONE
    /\ \A s \in Stores : mem[s] # NONE =>
          \A k \in Keys : mem[s][k].kind = "ptr" =>
             mem[mem[s][k].val] # NONE /\ mem[mem[s][k].val][k].kind \in {"val", "removed"}

(* merge_refs_internal asserts that the array and the buffer it merges     *)
(* never have the same key, "since update are inplaced".                   *)
UpdatesAreInPlace ==
    At("merge") => \A k \in bg.left : ~Clash(k)

(* Of every key there is one record at most that was not removed, in all   *)
(* that the root leads to, pointers followed: the arrays, the buffers and  *)
(* the buffer_temps of the groups in its slots and of those next to them.  *)
(* So no put inserts a key that is there, and no merge leaves one behind.  *)
Linked ==
    LET first == {roots[root][i].group : i \in DOMAIN roots[root]} \ {NONE}
    IN  first \cup ({group[g].next : g \in first} \ {NONE})

OneRecordPerKey ==
    \A k \in Keys :
       LET stores == UNION {{Array(g), Buffer(g), group[g].buffer_temp} : g \in Linked} \ {NONE}
       IN  Cardinality({Target(s, k) : s \in {s \in stores : IsLive(s, k)}}) <= 1

(* split_group_pt2 asserts that the second group gets a record:            *)
(* "assert(split_pos != intermediate_size && ...".                         *)
SecondHalfHasRecords == At("merge") /\ bg.left = {} => ~NoSecondHalf

(* locate_group_pt1: "this algorithm produces index to the last element    *)
(* that is <= key"; "we treat the pivot key of the 1st group as -inf".     *)
SearchFindsLast ==
    \A k \in Keys, i \in DOMAIN roots[root] :
       Bounds(roots[root], i, k) =>
          /\ \A j \in DOMAIN roots[root] : j > i => roots[root][j].pivot > k
          /\ i = 1 \/ roots[root][i].pivot <= k

(* A worker that stays outside of calls for ever holds up an rcu_barrier,  *)
(* and with it all puts into a frozen group.                               *)
WorkersGoOn == \A w \in Workers : []<>(pc[w] # "idle")

(* Every call returns if no worker stops making calls, or the process was  *)
(* aborted: a put is refused only while a group is frozen and has no       *)
(* buffer_temp, and the adjustment goes on.                                *)
CallsReturn ==
    WorkersGoOn => \A w \in Workers : pc[w] # "idle" ~> pc[w] = "idle" \/ At("aborted")
=============================================================================
