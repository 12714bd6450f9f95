-------------------------------- MODULE CCEH --------------------------------
(***************************************************************************)
(* The extendible hash table that is Viper's default index                 *)
(* (include/viper/cceh.hpp, class CCEH): CoreInsert and CoreGet by several *)
(* threads over segments with a counting lock (sema), with the splits of a *)
(* full segment and the doublings of the directory that Insert causes.     *)
(*                                                                         *)
(* Keys of up to 8 bytes: a slot holds the key itself, no fingerprint.     *)
(* The hash of a key is abstracted to the HashBits bits that choose its    *)
(* segment and to Loc, the slot at which its probing begins.  The memory   *)
(* of deleted directories is not reused.                                   *)
(***************************************************************************)
EXTENDS Integers, Sequences, FiniteSets

CONSTANTS
    Threads, Keys,
    INVALID, SENTINEL,  \* the two reserved keys of slots
    NONE,               \* IndexV::Tombstone()
    HashBits,           \* bound: the bits of a hash a directory may use
    Hash, Loc,          \* of keys; Split hashes INVALID, Insert also SENTINEL
    NumSlots,           \* kNumSlot
    Probe,              \* kNumPairPerCacheLine * kNumCacheLine
    InitDepth,          \* log2(initCap)
    Program             \* Program[t][n]: the calls thread t may make as its n-th

SlotKeys == Keys \cup {INVALID, SENTINEL}
Slots == 0 .. NumSlots - 1
Calls == [name : {"put", "get", "remove"}, key : Keys]
Values == [by : Threads, n : Nat]
Offsets == Values \cup {NONE}
NoCall == [name |-> "none", key |-> INVALID]

ASSUME CCEHAssumption ==
    /\ IsFiniteSet(Threads)
    /\ HashBits \in Nat /\ InitDepth \in 1 .. HashBits
    /\ NumSlots \in Nat \ {0} /\ Probe \in 1 .. NumSlots
    /\ Hash \in [SlotKeys -> 0 .. 2 ^ HashBits - 1]
    /\ Loc \in [SlotKeys -> Slots]
    /\ INVALID # SENTINEL /\ INVALID \notin Keys /\ SENTINEL \notin Keys
    /\ NONE \notin Values
    /\ Program \in [Threads -> Seq(SUBSET Calls)]

VARIABLES
    segment,    \* the segments, in the order they were allocated
    dir,        \* the directory
    pc, call, loc, done, result

vars == <<segment, dir, pc, call, loc, done, result>>

(* The leading d bits of a hash, and the bit after them. *)
Prefix(k, d) == Hash[k] \div 2 ^ (HashBits - d)
LastBit(k, d) == Prefix(k, d) % 2
NextBit(k, d) == Prefix(k, d + 1) % 2
SlotOf(k, i) == (Loc[k] + i) % NumSlots

(* sema: a count of shared holders with SPLIT_REQUEST_BIT, or EXCLUSIVE_LOCK. *)
Free == [holders |-> 0, request |-> FALSE, exclusive |-> FALSE]
Exclusive == [holders |-> 0, request |-> FALSE, exclusive |-> TRUE]
Shared(sema, n) == [sema EXCEPT !.holders = @ + n]

NewSegment(depth, pattern) ==
    [local_depth |-> depth, pattern |-> pattern, sema |-> Free,
     key |-> [s \in Slots |-> INVALID], value |-> [s \in Slots |-> NONE]]

NoLocals == [x |-> 0, target |-> 1, lock |-> Free, depth |-> 0, i |-> 0,
             old |-> NONE, full |-> FALSE, split |-> 0]

Init ==
    /\ segment = [n \in 1 .. 2 ^ InitDepth |-> NewSegment(InitDepth, n - 1)]
    /\ dir = [depth |-> InitDepth, lock |-> FALSE,
              entry |-> [x \in 0 .. 2 ^ InitDepth - 1 |-> x + 1]]
    /\ pc = [t \in Threads |-> "idle"]
    /\ call = [t \in Threads |-> NoCall]
    /\ loc = [t \in Threads |-> NoLocals]
    /\ done = [t \in Threads |-> 0]
    /\ result = [t \in Threads |-> NONE]

-----------------------------------------------------------------------------
Key(t) == call[t].key
Target(t) == segment[loc[t].target]
Slot(t) == SlotOf(Key(t), loc[t].i)

(* The offset a call inserts; a remove inserts the tombstone. *)
Value(t) == IF call[t].name = "remove" THEN NONE ELSE [by |-> t, n |-> done[t] + 1]

GoTo(t, from, to) == pc[t] = from /\ pc' = [pc EXCEPT ![t] = to]
Continue(t, from, to) == GoTo(t, from, to) /\ UNCHANGED <<call, done, result>>

Start(t) ==
    /\ done[t] < Len(Program[t])
    /\ GoTo(t, "idle", "depth")
    /\ \E x \in Program[t][done[t] + 1] : call' = [call EXCEPT ![t] = x]
    /\ UNCHANGED <<segment, dir, loc, done, result>>

Return(t, from, offset) ==
    /\ GoTo(t, from, "idle")
    /\ result' = [result EXCEPT ![t] = offset]
    /\ done' = [done EXCEPT ![t] = @ + 1]
    /\ loc' = [loc EXCEPT ![t] = NoLocals]
    /\ UNCHANGED call

(* dir->depth and dir->_[x] are two loads of dir. *)
ReadDepth(t) ==
    /\ Continue(t, "depth", "segment")
    /\ loc' = [loc EXCEPT ![t].x = Prefix(Key(t), dir.depth)]
    /\ UNCHANGED <<segment, dir>>

ReadSegment(t) ==
    /\ Continue(t, "segment", IF call[t].name = "get" THEN "g_lock" ELSE "load")
    /\ loc' = [loc EXCEPT ![t].target = dir.entry[loc[t].x]]
    /\ UNCHANGED <<segment, dir>>

-----------------------------------------------------------------------------
(* Segment::Insert.                                                        *)

(* Where a thread goes that finds this value in sema. *)
Blocked(sema) == sema.exclusive \/ sema.request
AfterLoad(sema, next) ==
    IF sema.exclusive THEN "depth" ELSE IF sema.request THEN "split" ELSE next

LoadSema(t) ==
    /\ Continue(t, "load", AfterLoad(Target(t).sema, "shift"))
    /\ loc' = [loc EXCEPT ![t].lock = Target(t).sema]
    /\ UNCHANGED <<segment, dir>>

(* pattern_shift *)
ReadShift(t) ==
    /\ Continue(t, "shift", "check")
    /\ loc' = [loc EXCEPT ![t].depth = Target(t).local_depth]
    /\ UNCHANGED <<segment, dir>>

BelongsHere(t) == Prefix(Key(t), loc[t].depth) = Target(t).pattern

CheckPattern(t) ==
    /\ Continue(t, "check", IF BelongsHere(t) THEN "lock" ELSE "depth")
    /\ UNCHANGED <<segment, dir, loc>>

SetSema(t, sema) == segment' = [segment EXCEPT ![loc[t].target].sema = sema]
SetKey(t, k) == segment' = [segment EXCEPT ![loc[t].target].key[Slot(t)] = k]
SetValue(t, v) == segment' = [segment EXCEPT ![loc[t].target].value[Slot(t)] = v]

(* The pattern is not checked again under the lock. *)
LockShared(t) ==
    /\ \/ /\ Target(t).sema = loc[t].lock
          /\ Continue(t, "lock", "invalidate")
          /\ SetSema(t, Shared(loc[t].lock, 1))
          /\ UNCHANGED loc
       \/ /\ Target(t).sema # loc[t].lock
          /\ Continue(t, "lock", AfterLoad(Target(t).sema, "lock"))
          /\ loc' = [loc EXCEPT ![t].lock = Target(t).sema]
          /\ UNCHANGED segment
    /\ UNCHANGED dir

(* A pair that a split has copied to another segment is invalidated when   *)
(* an insert comes across it.                                              *)
Moved(t, k) == k # INVALID /\ Prefix(k, loc[t].depth) # Target(t).pattern

InvalidateMoved(t) ==
    /\ \/ /\ Moved(t, Target(t).key[Slot(t)])
          /\ Continue(t, "invalidate", "clear")
          /\ SetKey(t, INVALID)
       \/ /\ ~Moved(t, Target(t).key[Slot(t)])
          /\ Continue(t, "invalidate", "claim")
          /\ UNCHANGED segment
    /\ UNCHANGED <<dir, loc>>

ClearMoved(t) ==
    /\ Continue(t, "clear", "claim")
    /\ SetValue(t, NONE)
    /\ UNCHANGED <<dir, loc>>

(* CAS of the slot's key from INVALID to SENTINEL. *)
ClaimSlot(t) ==
    /\ \/ /\ Target(t).key[Slot(t)] = INVALID
          /\ Continue(t, "claim", "write")
          /\ SetKey(t, SENTINEL)
          /\ loc' = [loc EXCEPT ![t].old = Target(t).value[Slot(t)]]
       \/ /\ Target(t).key[Slot(t)] # INVALID
          /\ Continue(t, "claim", "match")
          /\ UNCHANGED <<segment, loc>>
    /\ UNCHANGED dir

WriteValue(t) ==
    /\ Continue(t, "write", "publish")
    /\ SetValue(t, Value(t))
    /\ UNCHANGED <<dir, loc>>

PublishKey(t) ==
    /\ Continue(t, "publish", "unlock")
    /\ SetKey(t, IF Value(t) = NONE THEN INVALID ELSE Key(t))
    /\ UNCHANGED <<dir, loc>>

NextSlot(t, from, first, end) ==
    /\ Continue(t, from, IF loc[t].i + 1 < Probe THEN first ELSE end)
    /\ loc' = [loc EXCEPT ![t].i = (@ + 1) % Probe, ![t].full = (loc[t].i + 1 = Probe)]

MatchKey(t) ==
    /\ \/ Target(t).key[Slot(t)] = Key(t) /\ Continue(t, "match", "replace") /\ UNCHANGED loc
       \/ Target(t).key[Slot(t)] # Key(t) /\ NextSlot(t, "match", "invalidate", "unlock")
    /\ UNCHANGED <<segment, dir>>

Replace(t) ==
    /\ Continue(t, "replace", IF Value(t) = NONE THEN "erase" ELSE "unlock")
    /\ SetValue(t, Value(t))
    /\ loc' = [loc EXCEPT ![t].old = Target(t).value[Slot(t)]]
    /\ UNCHANGED dir

EraseKey(t) ==
    /\ Continue(t, "erase", "unlock")
    /\ SetKey(t, IF Target(t).key[Slot(t)] = Key(t) THEN INVALID ELSE Target(t).key[Slot(t)])
    /\ UNCHANGED <<dir, loc>>

UnlockShared(t) ==
    /\ \/ loc[t].full /\ Continue(t, "unlock", "split") /\ loc' = [loc EXCEPT ![t].full = FALSE]
       \/ ~loc[t].full /\ Return(t, "unlock", loc[t].old)
    /\ SetSema(t, Shared(Target(t).sema, -1))
    /\ UNCHANGED dir

-----------------------------------------------------------------------------
(* Segment::Split and the directory update in CoreInsert.                  *)

TakeOver(sema) == ~sema.exclusive
MayTakeOver(sema) == ~sema.exclusive /\ sema.holders = 0

(* Three compare-and-swaps: to EXCLUSIVE_LOCK from 0 and from              *)
(* SPLIT_REQUEST_BIT, else to set SPLIT_REQUEST_BIT and try again later.   *)
TrySplit(t) ==
    LET sema == Target(t).sema
    IN  /\ Continue(t, "split", IF MayTakeOver(sema) THEN "copy" ELSE "depth")
        /\ SetSema(t, IF MayTakeOver(sema) THEN Exclusive
                      ELSE IF Blocked(sema) THEN sema ELSE [sema EXCEPT !.request = TRUE])
        /\ UNCHANGED <<dir, loc>>

FirstSlotOnly(s, k, v) ==
    [s EXCEPT !.key[Loc[k]] = k, !.value[Loc[k]] = v]
Insert4split(s, k, v) ==
    LET open == {i \in 0 .. Probe - 1 : s.key[SlotOf(k, i)] = INVALID}
        slot == SlotOf(k, CHOOSE i \in open : \A j \in open : i <= j)
    IN  IF open = {} THEN s
        ELSE [s EXCEPT !.key[slot] = k, !.value[slot] = v]

(* The pairs whose next bit is set, copied slot by slot; the old segment   *)
(* keeps them until an insert invalidates them.                            *)
Copied(s) ==
    LET copy[n \in 0 .. NumSlots] ==
            IF n = 0 THEN NewSegment(s.local_depth + 1, 0)
            ELSE IF NextBit(s.key[n - 1], s.local_depth) = 1
                 THEN Insert4split(copy[n - 1], s.key[n - 1], s.value[n - 1])
                 ELSE copy[n - 1]
    IN  copy[NumSlots]

CopyPairs(t) ==
    /\ Target(t).local_depth < HashBits
    /\ Continue(t, "copy", "pattern")
    /\ segment' = Append([segment EXCEPT ![loc[t].target].local_depth = @ + 1],
                         Copied(Target(t)))
    /\ loc' = [loc EXCEPT ![t].split = Len(segment) + 1]
    /\ UNCHANGED dir

SamePattern(k, depth) == Prefix(k, depth - 1)
LowerPattern(k, depth) == 2 * Prefix(k, depth - 1)

SetPatterns(t) ==
    LET p == LowerPattern(Key(t), Target(t).local_depth)
    IN  /\ Continue(t, "pattern", "acquire")
        /\ segment' = [segment EXCEPT ![loc[t].target].pattern = p,
                                      ![loc[t].split].pattern = p + 1]
        /\ UNCHANGED <<dir, loc>>

Acquire(lock) == ~lock

AcquireDirectory(t) ==
    /\ Continue(t, "acquire", "update")
    /\ Acquire(dir.lock)
    /\ dir' = [dir EXCEPT !.lock = TRUE]
    /\ UNCHANGED <<segment, loc>>

(* The entries of the upper half of the split segment's chunk: one entry   *)
(* if depth_diff is 0.                                                     *)
HalfOff(x, chunk) == {x}
UpperHalf(x, chunk) ==
    LET first == x - (x % chunk) IN first + chunk \div 2 .. first + chunk - 1

UpdateEntries(t) ==
    LET x == Prefix(Key(t), dir.depth)
        chunk == 2 ^ (dir.depth - (Target(t).local_depth - 1))
    IN  /\ Continue(t, "update", "release")
        /\ segment[dir.entry[x]].local_depth - 1 < dir.depth
        /\ dir' = [dir EXCEPT !.entry =
                      [y \in DOMAIN @ |-> IF y \in UpperHalf(x, chunk) THEN loc[t].split ELSE @[y]]]
        /\ UNCHANGED <<segment, loc>>

(* The new directory replaces the old one, lock and all. *)
DoubleDirectory(t) ==
    LET x == Prefix(Key(t), dir.depth)
    IN  /\ Continue(t, "update", "reopen")
        /\ segment[dir.entry[x]].local_depth - 1 >= dir.depth
        /\ dir' = [depth |-> dir.depth + 1, lock |-> FALSE,
                   entry |-> [y \in 0 .. 2 ^ (dir.depth + 1) - 1 |->
                                 IF y = 2 * x THEN loc[t].target
                                 ELSE IF y = 2 * x + 1 THEN loc[t].split
                                 ELSE dir.entry[y \div 2]]]
        /\ UNCHANGED <<segment, loc>>

ReleaseDirectory(t) ==
    /\ Continue(t, "release", "reopen")
    /\ dir' = [dir EXCEPT !.lock = FALSE]
    /\ UNCHANGED <<segment, loc>>

(* s[0]->sema.store(0), and the insert starts over. *)
StillExclusive(t) == Exclusive
Reopened(t) == Free

ReopenSegment(t) ==
    /\ Continue(t, "reopen", "depth")
    /\ SetSema(t, Reopened(t))
    /\ UNCHANGED <<dir, loc>>

-----------------------------------------------------------------------------
(* CoreGet.  It does not look at the pattern at all; a compare-and-swap of *)
(* sema that fails is a retry.                                             *)

GetLock(t) ==
    /\ \/ /\ ~Blocked(Target(t).sema)
          /\ Continue(t, "g_lock", "g_key")
          /\ SetSema(t, Shared(Target(t).sema, 1))
       \/ /\ Blocked(Target(t).sema)
          /\ Continue(t, "g_lock", "depth")
          /\ UNCHANGED segment
    /\ UNCHANGED <<dir, loc>>

GetKey(t) ==
    /\ \/ Target(t).key[Slot(t)] = Key(t) /\ Continue(t, "g_key", "g_value") /\ UNCHANGED loc
       \/ Target(t).key[Slot(t)] # Key(t) /\ NextSlot(t, "g_key", "g_key", "g_unlock")
    /\ UNCHANGED <<segment, dir>>

GetValue(t) ==
    /\ Continue(t, "g_value", "g_unlock")
    /\ loc' = [loc EXCEPT ![t].old = Target(t).value[Slot(t)]]
    /\ UNCHANGED <<segment, dir>>

GetUnlock(t) ==
    /\ Return(t, "g_unlock", loc[t].old)
    /\ SetSema(t, Shared(Target(t).sema, -1))
    /\ UNCHANGED dir

-----------------------------------------------------------------------------
Insert(t) ==
    \/ LoadSema(t) \/ ReadShift(t) \/ CheckPattern(t) \/ LockShared(t)
    \/ InvalidateMoved(t) \/ ClearMoved(t) \/ ClaimSlot(t) \/ WriteValue(t)
    \/ PublishKey(t) \/ MatchKey(t) \/ Replace(t) \/ EraseKey(t) \/ UnlockShared(t)

Split(t) ==
    \/ TrySplit(t) \/ CopyPairs(t) \/ SetPatterns(t) \/ AcquireDirectory(t)
    \/ UpdateEntries(t) \/ DoubleDirectory(t) \/ ReleaseDirectory(t) \/ ReopenSegment(t)

Get(t) == GetLock(t) \/ GetKey(t) \/ GetValue(t) \/ GetUnlock(t)

Step(t) == ReadDepth(t) \/ ReadSegment(t) \/ Insert(t) \/ Split(t) \/ Get(t)

(* All programs have run: not a deadlock. *)
Finished ==
    /\ \A t \in Threads : pc[t] = "idle" /\ done[t] = Len(Program[t])
    /\ UNCHANGED vars

Next == (\E t \in Threads : Start(t) \/ Step(t)) \/ Finished

Spec == Init /\ [][Next]_vars

(* A thread in a call is running. *)
FairSpec == Spec /\ \A t \in Threads : WF_vars(Step(t))

-----------------------------------------------------------------------------
(* Properties.                                                             *)

SharedSteps == {"invalidate", "clear", "claim", "match", "write", "publish", "replace",
                "erase", "unlock", "g_key", "g_value", "g_unlock"}
SplitSteps == {"copy", "pattern", "acquire", "update", "release", "reopen"}
Labels == SharedSteps \cup SplitSteps \cup
          {"idle", "depth", "segment", "load", "shift", "check", "lock", "split", "g_lock"}

Inside(s) == {t \in Threads : pc[t] \in SharedSteps /\ loc[t].target = s}
Splitting(s) == {t \in Threads : pc[t] \in SplitSteps /\ loc[t].target = s}

TypeOK ==
    /\ \A s \in DOMAIN segment :
          /\ segment[s].local_depth \in InitDepth .. HashBits
          /\ segment[s].pattern \in 0 .. 2 ^ HashBits - 1
          /\ segment[s].sema.holders \in 0 .. Cardinality(Threads)
          /\ segment[s].key \in [Slots -> SlotKeys]
          /\ segment[s].value \in [Slots -> Offsets]
    /\ dir.depth \in InitDepth .. HashBits /\ dir.lock \in BOOLEAN
    /\ dir.entry \in [0 .. 2 ^ dir.depth - 1 -> DOMAIN segment]
    /\ pc \in [Threads -> Labels]
    /\ call \in [Threads -> Calls \cup {NoCall}]
    /\ \A t \in Threads :
          /\ loc[t].target \in DOMAIN segment /\ loc[t].i \in 0 .. Probe - 1
          /\ loc[t].old \in Offsets /\ loc[t].full \in BOOLEAN
    /\ result \in [Threads -> Offsets]

(* sema counts the inserts and gets inside a segment; a split runs alone   *)
(* in its segment, although inserts keep arriving and any of them may ask  *)
(* for the split; and splits of different segments that finish together    *)
(* change the directory one at a time, also when a doubling replaces it    *)
(* together with its lock.  (With the types.)                              *)
SplitIsAlone ==
    /\ TypeOK
    /\ \A s \in DOMAIN segment :
          /\ segment[s].sema.holders = Cardinality(Inside(s))
          /\ Cardinality(Splitting(s)) = IF segment[s].sema.exclusive THEN 1 ELSE 0
          /\ Splitting(s) # {} => Inside(s) = {}
    /\ Cardinality({t \in Threads : pc[t] \in {"update", "release"}}) <= 1

(* Every directory entry leads to the segment for its prefix, however many *)
(* entries share it, except while that segment is being split.             *)
DirectoryMatchesSegments ==
    \A x \in DOMAIN dir.entry :
        LET s == segment[dir.entry[x]]
        IN  ~s.sema.exclusive =>
                /\ s.local_depth <= dir.depth
                /\ s.pattern = x \div 2 ^ (dir.depth - s.local_depth)

(* The calls that a thread has begun so far are all gets. *)
Begun(t) == IF pc[t] = "idle" THEN done[t] ELSE done[t] + 1
OnlyGotSoFar(t) == \A n \in 1 .. Begun(t) : \A x \in Program[t][n] : x.name = "get"
OthersOnlyGot(w) == \A t \in Threads \ {w} : OnlyGotSoFar(t)

(* While one thread has inserted and any number of others have looked up,  *)
(* the directory matches the segments, through splits and doublings.  (A   *)
(* second inserter can put a pair where no lookup looks, between the loads *)
(* of depth, entry, local depth and pattern, and set an entry wrong.)      *)
OneInserterKeepsDirectory ==
    (\E w \in Threads : OthersOnlyGot(w)) => DirectoryMatchesSegments

(* What a lookup of k finds in segment s. *)
Find(s, k) ==
    LET at == {i \in 0 .. Probe - 1 : s.key[SlotOf(k, i)] = k}
    IN  IF at = {} THEN NONE ELSE s.value[SlotOf(k, CHOOSE i \in at : \A j \in at : i <= j)]

(* A pair of the new segment stands before the slot at which its probing   *)
(* began: it went round the end of the segment.                            *)
WentRound(s) ==
    \E m \in Slots : /\ s.key[m] \in Keys /\ NextBit(s.key[m], s.local_depth) = 1
                    /\ m < Loc[s.key[m]]
Twice(s, k) == \E m, n \in Slots : m # n /\ s.key[m] = k /\ s.key[n] = k
WindowFull(s, k) == \A i \in 0 .. Probe - 1 : s.key[SlotOf(k, i)] # INVALID

(* A split moves the pairs that belong to the new segment: a lookup finds  *)
(* there what it found in the old one, the first if there are two.  Only   *)
(* when some pair went round the end of the segment, so that pairs are     *)
(* copied in another order than they are probed in, is a pair dropped,     *)
(* for a window that others fill, or may the older of two come first.      *)
SplitKeepsPairs ==
    [][\A t \in Threads :
          pc[t] = "copy" /\ pc'[t] # "copy" =>
              \A k \in Keys :
                  Prefix(k, Target(t).local_depth + 1) = 2 * Target(t).pattern + 1
                  => LET old == Target(t)
                         new == segment'[loc'[t].split]
                     IN  \/ Find(new, k) = Find(old, k)
                         \/ WentRound(old) /\ (WindowFull(new, k) \/ Twice(old, k))]_vars

(* Client::get: "Returns true if the item was found or false if not."  A   *)
(* key that one thread alone inserts is found where it was put, from the   *)
(* return of the put to the thread's next call.                            *)
PutIsFound ==
    \A t \in Threads :
        pc[t] = "idle" /\ call[t].name = "put" =>
            Find(segment[dir.entry[Prefix(Key(t), dir.depth)]], Key(t)) = [by |-> t, n |-> done[t]]

(* Client::get: "Returns true if the item was found or false if not."      *)
(* Only a remove takes a key out of the table.                             *)
Present(k) == Find(segment[dir.entry[Prefix(k, dir.depth)]], k) # NONE
KeysStay ==
    [][\A k \in Keys : Present(k) /\ ~Present(k)' =>
          \E t \in Threads : call[t] = [name |-> "remove", key |-> k]]_vars

(* Every call returns: inserts that wait for a split, splits that wait for *)
(* the threads inside, and splits that wait for the directory.             *)
CallsReturn == \A t \in Threads : pc[t] # "idle" ~> pc[t] = "idle"
=============================================================================
