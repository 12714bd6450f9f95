----------------------------- MODULE FITingTree -----------------------------
(***************************************************************************)
(* The two FITing-tree indexes of src/index/FITing-tree: BufferIndex, whose *)
(* leaves keep new records in a small sorted buffer, and InplaceIndex,      *)
(* whose leaves insert them into the array itself.  The two differ in their *)
(* leaves only, so `inplace' says which of the two the index is.  Both are  *)
(* sequential: they have no concurrency control, and a call is one step.    *)
(*                                                                          *)
(* A record is [key, payload], an array a sequence of records; arrays are   *)
(* indexed from 0 in the code and from 1 here.  The linear model of a leaf  *)
(* is abstract: a key is predicted to be anywhere within the error the      *)
(* segmentation promises, and a segmentation cuts its array anywhere.       *)
(***************************************************************************)
EXTENDS Naturals, Sequences, FiniteSets, Functions, SequencesExt

CONSTANTS
  Keys,       \* the keys of the calls, natural numbers above 0
  Payloads,   \* the payloads a caller upserts
  NONE,       \* KeyValueOffset::NONE()
  Loaded,     \* the keys the index is built from (bulk_load), in order
  LoadedWith, \* their payload
  EPSILON,    \* the error make_segmentation is asked for
  RESERVE,    \* the size of a buffer, and the number of in-place insertions
  AsKey       \* what the bits of a payload are when they are read as a key

ASSUME FITingTreeAssumption ==
  /\ Keys \subseteq Nat \ {0}
  /\ NONE \notin Payloads /\ LoadedWith \in Payloads
  /\ Loaded \in Seq(Keys) /\ Loaded # << >>
  /\ \A i, j \in DOMAIN Loaded : i < j => Loaded[i] < Loaded[j]
  /\ EPSILON \in Nat /\ RESERVE \in Nat \ {0}
  /\ AsKey \in [Payloads -> Nat]

VARIABLES
  inplace,       \* the index is an InplaceIndex
  min_key,
  max_key,
  btree,         \* the leaf of every first key
  left_buffer,   \* records below min_key
  right_buffer,  \* records above max_key
  upserted,      \* history: the payload last upserted for every key
  misread        \* history: max_key was once set below keys of the tree

index == <<min_key, max_key, btree, left_buffer, right_buffer>>
vars == <<inplace, index, upserted, misread>>

Record(key, payload) == [key |-> key, payload |-> payload]

-----------------------------------------------------------------------------
(* Buffers: sorted arrays that are scanned.                                *)

\* The first position whose key is not less than key, or the one past the end.
FirstNotLess(records, key) ==
  CHOOSE i \in 1 .. Len(records) + 1 :
    /\ i \in DOMAIN records => records[i].key >= key
    /\ \A j \in 1 .. i - 1 : records[j].key < key

Holds(records, i, key) == i \in DOMAIN records /\ records[i].key = key

BufferFind(records, key) ==
  LET i == FirstNotLess(records, key)
  IN  IF Holds(records, i, key) THEN records[i].payload ELSE NONE

BufferUpsert(records, key, payload) ==
  LET i == FirstNotLess(records, key)
  IN  IF Holds(records, i, key)
      THEN [records EXCEPT ![i].payload = payload]
      ELSE InsertAt(records, i, Record(key, payload))

BufferRange(records, low, high) ==
  {r \in Range(records) : low <= r.key /\ r.key <= high}

-----------------------------------------------------------------------------
(* Leaves.  `inserted' counts the records inserted in place since the leaf *)
(* was built: the code keeps EPSILON + inserted.                           *)

NewLeaf(records) == [records |-> records, inserted |-> 0, buffer |-> << >>]

Error(leaf) == EPSILON + leaf.inserted

\* predict_pos: within the error of the key's place, or of the places of its
\* two neighbours when the array does not hold it, and inside the array.
Predicted(leaf, key) ==
  LET below == Cardinality({i \in DOMAIN leaf.records : leaf.records[i].key < key})
      first == IF Holds(leaf.records, below + 1, key) THEN below + 1 ELSE below
  IN  {p \in DOMAIN leaf.records :
         first <= p + Error(leaf) /\ p <= below + 1 + Error(leaf)}

Smaller(m, n) == IF m < n THEN m ELSE n

\* How far the array goes from position p, to the left when its key is too
\* great.
Room(records, key, p) == IF records[p].key > key THEN p - 1 ELSE Len(records) - p

\* init_step_len
FirstStep(leaf, key, p) ==
  (Smaller(Error(leaf), Room(leaf.records, key, p)) + 2) \div 2

\* One round of the loop in find_precise_position: the step is clipped at the
\* ends of the array, and halved as it was clipped.
SearchRound(records, key, now) ==
  LET step == Smaller(now.step, Room(records, key, now.at))
  IN  IF records[now.at].key = key \/ now.step = 0 THEN now
      ELSE [at   |-> IF records[now.at].key > key THEN now.at - step ELSE now.at + step,
            step |-> IF step > 1 THEN (step + 1) \div 2 ELSE 0]

\* find_precise_position, from the predicted position.  The step shrinks with
\* every round, so that there are no more of them than records.
PrecisePosition(leaf, key, predicted) ==
  LET records == leaf.records
      search[n \in 0 .. Len(records)] ==
        IF n = 0 THEN [at |-> predicted, step |-> FirstStep(leaf, key, predicted)]
        ELSE SearchRound(records, key, search[n - 1])
  IN  search[Len(records)].at

\* find of a leaf: its array, then, in a BufferNode, its buffer.
LeafFind(leaf, key, predicted) ==
  LET p == PrecisePosition(leaf, key, predicted)
  IN  IF Holds(leaf.records, p, key) THEN leaf.records[p].payload
      ELSE IF inplace THEN NONE ELSE BufferFind(leaf.buffer, key)

\* upsert of a leaf.
LeafUpsert(leaf, key, payload, predicted) ==
  LET p == PrecisePosition(leaf, key, predicted)
      at == IF leaf.records[p].key < key THEN p + 1 ELSE p
  IN  IF Holds(leaf.records, p, key)
      THEN [leaf EXCEPT !.records[p].payload = payload]
      ELSE IF inplace
      THEN [leaf EXCEPT !.records = InsertAt(@, at, Record(key, payload)),
                        !.inserted = @ + 1]
      ELSE [leaf EXCEPT !.buffer = BufferUpsert(@, key, payload)]

\* The leaf took its last record: what upsert returned is not below the limit.
IsFull(leaf) == IF inplace THEN leaf.inserted >= RESERVE
                           ELSE Len(leaf.buffer) >= RESERVE

\* Mutant: a leaf is split without merge_buffer.
ArrayAlone(leaf) == leaf.records

\* merge_buffer: every record of the buffer comes before the first one of the
\* array that is not less.  The array alone in an InPlaceNode, whose buffer is
\* empty.
Merged(leaf) ==
  LET merged[n \in 0 .. Len(leaf.buffer)] ==
        IF n = 0 THEN leaf.records
        ELSE InsertAt(merged[n - 1], FirstNotLess(merged[n - 1], leaf.buffer[n].key),
                      leaf.buffer[n])
  IN  merged[Len(leaf.buffer)]

-----------------------------------------------------------------------------
(* The tree of leaves.                                                     *)

\* Every way make_segmentation may cut an array: the positions of the first
\* records of the segments.
Segmentations(records) ==
  {starts \in SUBSET DOMAIN records : records = << >> \/ 1 \in starts}

\* The leaves built from a segmentation, by their first keys.
Leaves(records, starts) ==
  LET end(s) == CHOOSE e \in s .. Len(records) :
                  /\ e + 1 \in starts \/ e = Len(records)
                  /\ \A t \in s + 1 .. e : t \notin starts
      start(f) == CHOOSE s \in starts : records[s].key = f
  IN  [f \in {records[s].key : s \in starts} |->
         NewLeaf(SubSeq(records, start(f), end(start(f))))]

\* --btree.upper_bound(key).  Mutant: --btree.lower_bound(key).
LeafBefore(key) ==
  CHOOSE f \in DOMAIN btree :
    /\ f < key \/ \A g \in DOMAIN btree : f <= g
    /\ \A g \in DOMAIN btree : g < key => g <= f
LeafOf(key) ==
  CHOOSE f \in DOMAIN btree : f <= key /\ \A g \in DOMAIN btree : g <= key => g <= f

\* btree.insert: a leaf whose first key the tree already has is not inserted.
Inserted(leaves, tree) ==
  [f \in DOMAIN tree \cup DOMAIN leaves |-> IF f \in DOMAIN tree THEN tree[f] ELSE leaves[f]]

LoadedRecords == [i \in DOMAIN Loaded |-> Record(Loaded[i], LoadedWith)]

\* The constructor, called by bulk_load of the DummyIndex.
Init ==
  /\ inplace \in BOOLEAN
  /\ min_key = Loaded[1]
  /\ max_key = Loaded[Len(Loaded)]
  /\ \E starts \in Segmentations(LoadedRecords) : btree = Leaves(LoadedRecords, starts)
  /\ left_buffer = << >>
  /\ right_buffer = << >>
  /\ upserted = [k \in Keys |-> IF k \in Range(Loaded) THEN LoadedWith ELSE NONE]
  /\ misread = FALSE

InTree(key) == min_key <= key /\ key <= max_key

-----------------------------------------------------------------------------
(* upsert, one action for each place the record goes to.                   *)

Upserted(key, payload) ==
  /\ upserted' = [upserted EXCEPT ![key] = payload]
  /\ UNCHANGED inplace

\* A leaf that has room left afterwards.
UpsertLeaf(key, payload) ==
  /\ InTree(key)
  /\ \E p \in Predicted(btree[LeafOf(key)], key) :
       LET leaf == LeafUpsert(btree[LeafOf(key)], key, payload, p)
       IN  /\ ~IsFull(leaf)
           /\ btree' = [btree EXCEPT ![LeafOf(key)] = leaf]
  /\ Upserted(key, payload)
  /\ UNCHANGED <<min_key, max_key, left_buffer, right_buffer, misread>>

\* A leaf that is full afterwards: it is erased, segmented and replaced.
SplitLeaf(key, payload) ==
  /\ InTree(key)
  /\ \E p \in Predicted(btree[LeafOf(key)], key) :
       LET leaf == LeafUpsert(btree[LeafOf(key)], key, payload, p)
           others == [f \in DOMAIN btree \ {LeafOf(key)} |-> btree[f]]
       IN  /\ IsFull(leaf)
           /\ \E starts \in Segmentations(Merged(leaf)) :
                btree' = Inserted(Leaves(Merged(leaf), starts), others)
  /\ Upserted(key, payload)
  /\ UNCHANGED <<min_key, max_key, left_buffer, right_buffer, misread>>

\* A key below min_key: the left buffer, made into leaves when it is full.
UpsertLeft(key, payload) ==
  LET buffer == BufferUpsert(left_buffer, key, payload)
  IN  /\ key < min_key
      /\ \/ /\ Len(buffer) < RESERVE
            /\ left_buffer' = buffer
            /\ UNCHANGED <<min_key, btree>>
         \/ /\ Len(buffer) >= RESERVE
            /\ \E starts \in Segmentations(buffer) :
                 btree' = Inserted(Leaves(buffer, starts), btree)
            /\ min_key' = buffer[1].key
            /\ left_buffer' = << >>
      /\ Upserted(key, payload)
      /\ UNCHANGED <<max_key, right_buffer, misread>>

\* A key above max_key: the same, but the new max_key is read one past the end
\* of the buffer's keys, where its first payload is.
UpsertRight(key, payload) ==
  LET buffer == BufferUpsert(right_buffer, key, payload)
  IN  /\ ~(key < min_key) /\ key > max_key
      /\ \/ /\ Len(buffer) < RESERVE
            /\ right_buffer' = buffer
            /\ UNCHANGED <<max_key, btree, misread>>
         \/ /\ Len(buffer) >= RESERVE
            /\ \E starts \in Segmentations(buffer) :
                 btree' = Inserted(Leaves(buffer, starts), btree)
            /\ max_key' = AsKey[buffer[1].payload]
            /\ misread' = (misread \/ max_key' < buffer[Len(buffer)].key)
            /\ right_buffer' = << >>
      /\ Upserted(key, payload)
      /\ UNCHANGED <<min_key, left_buffer>>

Next ==
  \E key \in Keys, payload \in Payloads :
    \/ UpsertLeaf(key, payload)
    \/ SplitLeaf(key, payload)
    \/ UpsertLeft(key, payload)
    \/ UpsertRight(key, payload)

Spec == Init /\ [][Next]_vars

-----------------------------------------------------------------------------
(* The queries: operators, for they change nothing.                        *)

\* find: everything a call may return, whatever the model predicts.
Found(key) ==
  IF InTree(key)
  THEN {LeafFind(btree[LeafOf(key)], key, p) : p \in Predicted(btree[LeafOf(key)], key)}
  ELSE {BufferFind(IF key < min_key THEN left_buffer ELSE right_buffer, key)}

\* Mutant: a query never leaves its first leaf.
Stays(leaf, from, high) == FALSE

\* range_query of a leaf from position `from' on: its answers, and whether it
\* ran to the end of the array, so that the query goes on to the next leaf.
LeafAnswers(leaf, from, low, high) ==
  BufferRange(leaf.buffer, low, high)
    \cup {leaf.records[i] : i \in {j \in from .. Len(leaf.records) :
            \A m \in from .. j : leaf.records[m].key <= high}}

GoesOn(leaf, from, high) ==
  \A i \in from .. Len(leaf.records) : leaf.records[i].key <= high

\* Where the query starts in its first leaf: from the precise position on, the
\* first key that is not less than the bound.
StartsAt(leaf, low, predicted) ==
  LET p == PrecisePosition(leaf, low, predicted)
  IN  CHOOSE i \in p .. Len(leaf.records) + 1 :
        /\ i \in DOMAIN leaf.records => leaf.records[i].key >= low
        /\ \A j \in p .. i - 1 : leaf.records[j].key < low

\* range_query from a bound inside the tree.
TreeAnswers(low, high, predicted) ==
  LET first == LeafOf(low)
      start == StartsAt(btree[first], low, predicted)
      from(f) == IF f = first THEN start ELSE 1
      later == {f \in DOMAIN btree : first <= f}
      reached(f) == \A g \in later : g < f => GoesOn(btree[g], from(g), high)
  IN  (UNION {LeafAnswers(btree[f], from(f), low, high) : f \in {g \in later : reached(g)}})
        \cup IF \A f \in later : GoesOn(btree[f], from(f), high)
             THEN BufferRange(right_buffer, low, high) ELSE {}

\* range_query from a bound outside the tree: one of the buffers only.  (From
\* below min_key the code goes on to the tree when the bound is not less than
\* max_key, which it never is.)
BufferAnswers(low, high) ==
  BufferRange(IF low < min_key THEN left_buffer ELSE right_buffer, low, high)

-----------------------------------------------------------------------------
(* Properties.                                                             *)

Sorted(records) ==
  \A i, j \in DOMAIN records : i < j => records[i].key < records[j].key

Records == [key : Keys, payload : Payloads]

TypeOK ==
  /\ inplace \in BOOLEAN
  /\ min_key \in Keys
  /\ max_key \in Keys \cup Range(AsKey)
  /\ DOMAIN btree \subseteq Keys
  /\ \A f \in DOMAIN btree :
       /\ btree[f].records \in Seq(Records) /\ btree[f].records # << >>
       /\ btree[f].buffer \in Seq(Records) /\ Len(btree[f].buffer) < RESERVE
       /\ btree[f].inserted \in 0 .. RESERVE - 1
  /\ left_buffer \in Seq(Records) /\ Len(left_buffer) < RESERVE
  /\ right_buffer \in Seq(Records) /\ Len(right_buffer) < RESERVE
  /\ upserted \in [Keys -> Payloads \cup {NONE}]
  /\ misread \in BOOLEAN

\* A lookup (CoreGet calls find) returns the offset that was upserted last for
\* its key, and NONE for a key that was never upserted, wherever within its
\* error the leaf's model predicts the key and wherever the record has moved
\* to: buffers that were made into leaves, leaves that were split, arrays that
\* were shifted by insertions.  Client::get: "Returns true if the item was found
\* or false if not."
FindReturnsLastUpsert == \A key \in Keys : Found(key) = {upserted[key]}

\* range_query from a bound inside the tree returns every record between its
\* bounds and no other: the start it computes skips none, and it ends at no
\* leaf too early.
RangeIsComplete ==
  \A low, high \in Keys : InTree(low) /\ low <= high =>
    \A p \in Predicted(btree[LeafOf(low)], low) :
      TreeAnswers(low, high, p) =
        {Record(k, upserted[k]) : k \in {m \in low .. high : m \in Keys /\ upserted[m] # NONE}}

\* A leaf holds the keys from its first key up to the next leaf's, each once
\* and in order: what upper_bound and the search of the array rely on; no
\* buffer is left full (TypeOK).
LeavesAreSorted ==
  /\ TypeOK
  /\ \A f \in DOMAIN btree :
       /\ btree[f].records[1].key = f
       /\ Sorted(btree[f].records) /\ Sorted(btree[f].buffer)
       /\ \A r \in Range(btree[f].records) \cup Range(btree[f].buffer) : LeafOf(r.key) = f

\* The three hold until what is read past the end of the right buffer's keys is
\* below the last of them: until then max_key may be any payload above it.
FindsUntilMisread == ~misread => FindReturnsLastUpsert
RangesUntilMisread == ~misread => RangeIsComplete
LeavesUntilMisread == ~misread => LeavesAreSorted

=============================================================================
