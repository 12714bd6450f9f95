----------------------------- MODULE DynamicPGM -----------------------------
(***************************************************************************)
(* DynamicPGMIndex of src/index/pgm/pgm_index_dynamic.hpp: sorted levels of *)
(* exponentially growing size.  Level min_level takes the new items; when   *)
(* it is full, it is merged with the levels below it into the first level   *)
(* with room for all of them.  A key is erased by inserting a tombstone.    *)
(*                                                                          *)
(* A level, a sorted array of items with distinct keys, is a function from  *)
(* its keys to their items.  The index is sequential; the merge, a loop     *)
(* over the levels, is one step for each level, and no call begins before   *)
(* the one that merges returns.                                             *)
(***************************************************************************)
EXTENDS Integers, Sequences, FiniteSets

CONSTANTS
  Keys,            \* numbers above 0
  Payloads,        \* what is stored under a key
  NONE,            \* KeyValueOffset::NONE()
  Deleted,         \* the item of an erased key
  log2_base,       \* ceil_log2(base): the base is a power of two
  min_level,       \* levels 0 .. min_level are one level
  min_index_level, \* the first level that has a PGM index
  MaxLevel,        \* bound: no level past it is used
  Loads,           \* the sets of keys the index may be built from (bulk_load)
  LoadedWith,      \* their payload
  Calls            \* bound: the calls made, pairs of a key and an item

ASSUME DynamicPGMAssumption ==
  /\ Keys \subseteq Nat \ {0}
  /\ NONE \notin Payloads /\ Deleted \notin Payloads
  /\ log2_base \in Nat \ {0}
  /\ min_level \in Nat \ {0} /\ min_index_level \in Nat /\ MaxLevel \in Nat
  /\ min_level < min_index_level /\ min_level < MaxLevel
  /\ Loads \subseteq SUBSET Keys /\ LoadedWith \in Payloads
  /\ \A loaded \in Loads : IsFiniteSet(loaded)
  /\ Calls \subseteq Keys \X (Payloads \cup {Deleted})

Items == Payloads \cup {Deleted}
Levels == min_level .. MaxLevel

VARIABLES
  levels,      \* the items of every level
  used_levels, \* one more than the last level in use, min_level if none is
  pgms,        \* the keys each PGM index was built from, from min_index_level on
  merge,       \* the state of pairwise_merge
  latest       \* history: the payload inserted last under every key

vars == <<levels, used_levels, pgms, merge, latest>>

max_size(level) == 2 ^ (level * log2_base)

\* The first level has the room of all the levels it stands for.
buffer_max_size ==
  LET size[i \in 0 .. min_level] ==
        IF i = 0 THEN max_size(0) ELSE size[i - 1] + max_size(i)
  IN  size[min_level]

has_pgm(level) == level >= min_index_level
PgmOf(level) == level - min_index_level + 1

Empty == [k \in {} |-> Deleted]
Size(level) == Cardinality(DOMAIN levels[level])
InUse == {i \in Levels : i < used_levels}

Idle == [merging |-> FALSE, target |-> 0, limit |-> 0, next |-> 0, room |-> 0, tmp |-> Empty]

\* The smallest level that n items fit into.
ceil_log_base(n) ==
  CHOOSE i \in 0 .. n : n <= max_size(i) /\ \A j \in 0 .. i - 1 : max_size(j) < n

\* The constructor of a range: the level that fits all of its items.
LoadLevel(loaded) ==
  LET fit == ceil_log_base(Cardinality(loaded))
  IN  IF fit > min_level THEN fit ELSE min_level

InitLoaded(loaded) ==
  /\ used_levels = LoadLevel(loaded) + 1
  /\ levels = [i \in Levels |->
                 IF i = LoadLevel(loaded) THEN [k \in loaded |-> LoadedWith] ELSE Empty]
  /\ pgms = [n \in 1 .. PgmOf(LoadLevel(loaded)) |->
               IF n = PgmOf(LoadLevel(loaded)) THEN loaded ELSE {}]

\* The constructor of an empty index.
InitEmpty ==
  /\ used_levels = min_level
  /\ levels = [i \in Levels |-> Empty]
  /\ pgms = << >>

\* Bound: what is loaded fits into the levels.
ASSUME LoadsFit == \A loaded \in Loads : loaded # {} => LoadLevel(loaded) \in Levels

Init ==
  /\ merge = Idle
  /\ \E loaded \in Loads :
       /\ latest = [k \in Keys |-> IF k \in loaded THEN LoadedWith ELSE NONE]
       /\ IF loaded = {} THEN InitEmpty ELSE InitLoaded(loaded)

-----------------------------------------------------------------------------
(* insert.                                                                 *)

With(level, key, item) ==
  [k \in DOMAIN level \cup {key} |-> IF k = key THEN item ELSE level[k]]

Inserted(key, item) ==
  latest' = [latest EXCEPT ![key] = IF item = Deleted THEN NONE ELSE item]

\* The first level has the key.
Overwrite(key, item) ==
  /\ key \in DOMAIN levels[min_level]
  /\ levels' = [levels EXCEPT ![min_level] = With(@, key, item)]
  /\ UNCHANGED <<used_levels, pgms, merge>>

\* The first level has room.
Add(key, item) ==
  /\ key \notin DOMAIN levels[min_level]
  /\ Size(min_level) < buffer_max_size
  /\ levels' = [levels EXCEPT ![min_level] = With(@, key, item)]
  /\ used_levels' = IF used_levels = min_level THEN min_level + 1 ELSE used_levels
  /\ UNCHANGED <<pgms, merge>>

\* The slots needed at a level: for the first level, the new item, and the
\* levels in between.  Mutant: the levels in between are not counted.
SlotsWithout(level) == buffer_max_size + 1
Slots(level) ==
  LET slots_required[i \in (min_level + 1) .. level] ==
        IF i = min_level + 1 THEN buffer_max_size + 1
        ELSE slots_required[i - 1] + Size(i - 1)
  IN  slots_required[level]

HasRoom(i) == Slots(i) <= max_size(i) - Size(i)

\* The first level with room for all that is merged into it, or a new one.
IsTarget(i) ==
  /\ i < used_levels => HasRoom(i)
  /\ \A j \in (min_level + 1) .. (i - 1) : ~HasRoom(j)

\* Mutant: every new level gets one.
AlwaysNeedsPgm(level) == TRUE
NeedsPgm(level) == level - min_index_level >= Len(pgms)

\* The first level is full: a merge begins.  A new level gets a place for its
\* PGM index.  A level that is empty is not merged with.
StartMerge(key, item) ==
  /\ key \notin DOMAIN levels[min_level]
  /\ Size(min_level) >= buffer_max_size
  /\ \E target \in (min_level + 1) .. used_levels :
       /\ IsTarget(target) /\ target <= MaxLevel
       /\ merge' = [merging |-> TRUE, target |-> target,
                    limit |-> IF DOMAIN levels[target] = {} THEN target - 1 ELSE target,
                    next |-> min_level + 1,
                    room |-> Slots(target) + Size(target),
                    tmp |-> With(levels[min_level], key, item)]
       /\ IF target = used_levels
          THEN /\ used_levels' = used_levels + 1
               /\ pgms' = IF NeedsPgm(target) THEN Append(pgms, {}) ELSE pgms
          ELSE UNCHANGED <<used_levels, pgms>>
  /\ UNCHANGED levels

Insert(key, item) ==
  /\ ~merge.merging
  /\ Overwrite(key, item) \/ Add(key, item) \/ StartMerge(key, item)
  /\ Inserted(key, item)

-----------------------------------------------------------------------------
(* pairwise_merge.                                                         *)

\* Nothing older than this level can hold a key.  Mutant: never mind.
DeleteAlways(level) == TRUE
CanDelete(level) == level = used_levels - 1

\* merge<SkipDeleted>: the newer item of every key; both items of a key that
\* is deleted in the newer level are dropped if nothing older can hold it.
Merged(newer, level) ==
  LET older == levels[level]
      dropped == {k \in DOMAIN newer \cap DOMAIN older :
                    CanDelete(level) /\ newer[k] = Deleted}
  IN  [k \in (DOMAIN newer \cup DOMAIN older) \ dropped |->
         IF k \in DOMAIN newer THEN newer[k] ELSE older[k]]

\* pgm(level) = index, where the level has one.
Indexed(level, index) ==
  [n \in DOMAIN pgms |-> IF has_pgm(level) /\ n = PgmOf(level) THEN index ELSE pgms[n]]

\* A level that is emptied empties its index.  Mutant: it does not.
KeptPgms(level) == pgms
ClearedPgms(level) == Indexed(level, {})

\* The merge loop: the next level is merged and emptied.
MergeLevel ==
  /\ merge.merging /\ merge.next <= merge.limit
  /\ merge' = [merge EXCEPT !.next = @ + 1, !.tmp = Merged(@, merge.next)]
  /\ levels' = [levels EXCEPT ![merge.next] = Empty]
  /\ pgms' = ClearedPgms(merge.next)
  /\ UNCHANGED <<used_levels, latest>>

\* After the loop: the result becomes the target level, and is indexed.
FinishMerge ==
  /\ merge.merging /\ merge.next > merge.limit
  /\ levels' = [levels EXCEPT ![min_level] = Empty, ![merge.target] = merge.tmp]
  /\ pgms' = Indexed(merge.target, DOMAIN merge.tmp)
  /\ merge' = Idle
  /\ UNCHANGED <<used_levels, latest>>

Next ==
  \/ \E call \in Calls : Insert(call[1], call[2])
  \/ MergeLevel
  \/ FinishMerge

Spec == Init /\ [][Next]_vars

-----------------------------------------------------------------------------
(* The queries: operators, for they change nothing.                        *)

\* A level's array is searched where its PGM index, if it has one, says.
Holds(i, key) == key \in DOMAIN levels[i] /\ (has_pgm(i) => key \in pgms[PgmOf(i)])

\* Item::deleted.  Mutant: a tombstone is taken for an item.
NotDeleted(item) == FALSE
deleted(item) == item = Deleted

\* find: the first level that holds the key.
FoundIn(i, key) ==
  /\ i \in InUse /\ Holds(i, key)
  /\ \A j \in InUse : j < i => ~Holds(j, key)

Offset(item) == IF deleted(item) THEN NONE ELSE item

\* lower_bound: the levels in turn, with the least live key met so far (0 if
\* none) and the keys met as deleted.
lower_bound(key) ==
  LET least(S) == CHOOSE k \in S : \A l \in S : k <= l
      scan[i \in (min_level - 1) .. (used_levels - 1)] ==
        IF i < min_level THEN [lb |-> 0, deleted |-> {}]
        ELSE LET seen == scan[i - 1]
                 keys == {k \in DOMAIN levels[i] : key <= k /\ (seen.lb = 0 \/ k < seen.lb)}
                 live == {k \in keys : ~deleted(levels[i][k]) /\ k \notin seen.deleted}
                 passed == {k \in keys : live = {} \/ k < least(live)}
             IN  [lb |-> IF live = {} THEN seen.lb ELSE least(live),
                  deleted |-> seen.deleted \cup {k \in passed : deleted(levels[i][k])}]
  IN  scan[used_levels - 1].lb

-----------------------------------------------------------------------------
(* Properties.                                                             *)

TypeOK ==
  /\ levels \in [Levels -> UNION {[S -> Items] : S \in SUBSET Keys}]
  /\ used_levels \in min_level .. MaxLevel + 1
  /\ pgms \in Seq(SUBSET Keys)
  /\ \A n \in DOMAIN pgms : n <= PgmOf(MaxLevel)
  /\ merge.merging \in BOOLEAN /\ merge.target \in Nat /\ merge.limit \in Nat
  /\ merge.next \in Nat /\ merge.room \in Nat
  /\ merge.tmp \in UNION {[S -> Items] : S \in SUBSET Keys}
  /\ latest \in [Keys -> Payloads \cup {NONE}]

\* find returns what was inserted last under a key, from whichever level its
\* newest item has been merged into, and finds nothing under a key that was
\* erased last, although older items of it lie in the levels below its
\* tombstone and the tombstone may have been merged away.
FindReturnsLatest ==
  ~merge.merging =>
    \A key \in Keys :
      /\ \A i \in InUse : FoundIn(i, key) => Offset(levels[i][key]) = latest[key]
      /\ (\A i \in InUse : ~Holds(i, key)) => latest[key] = NONE

\* lower_bound returns the least key from its bound on that is not erased: the
\* first level that has such a key does not hide a tombstone of a newer one.
LowerBoundIsNextKey ==
  ~merge.merging =>
    \A key \in Keys :
      LET live == {k \in Keys : key <= k /\ latest[k] # NONE}
      IN  IF live = {} THEN lower_bound(key) = 0
          ELSE lower_bound(key) \in live /\ \A k \in live : lower_bound(key) <= k

\* No level outgrows its maximum size, and what a merge writes fits into the
\* arrays it allocated: the slots counted on the way to the target suffice.
LevelsFit ==
  /\ Size(min_level) <= buffer_max_size
  /\ \A i \in Levels : i > min_level => Size(i) <= max_size(i)
  /\ merge.merging => Cardinality(DOMAIN merge.tmp) <= merge.room

\* Every level with a PGM index has one that was built from what it holds now.
PgmsAreCurrent ==
  \A i \in InUse : has_pgm(i) =>
    PgmOf(i) \in DOMAIN pgms /\ pgms[PgmOf(i)] = DOMAIN levels[i]

=============================================================================
