----------------------------- MODULE ViperStore -----------------------------
(***************************************************************************)
(* The clients of a Viper store (include/viper/viper.hpp): put, get,       *)
(* update and remove over persistent pages, the volatile index map_, and   *)
(* free_occupied_slot with the queue that resolves deadlocks between       *)
(* clients that each hold their own page and want the other's.             *)
(*                                                                         *)
(* Pages are named after the client that claims them: <<c, i>> is the i-th *)
(* page client c writes to (ViperPool is the protocol by which clients     *)
(* claim blocks).  The index is the atomic map CCEH offers: Insert         *)
(* exchanges the offset of a key.  Lock words are those of VersionLock;    *)
(* the compare-and-swap loop of lock() is one step here (PageLock has its  *)
(* steps), the one of free_occupied_slot is modelled attempt by attempt.   *)
(***************************************************************************)
EXTENDS VersionLock, Sequences, FiniteSets

CONSTANTS
    Clients,
    Keys,
    NumSlots,           \* VPage::num_slots_per_page
    NumRetries,         \* num_deadlock_retries (32 in the code)
    IndexReturnsOld,    \* Insert returns the offset it replaces (CCEH does)
    MaxPages,           \* bound: pages a client may claim
    Program,            \* Program[c][n]: the calls client c may make as its n-th
    NONE                \* IndexV::NONE(), the tombstone

Slots == 1 .. NumSlots
Pages == Clients \X (1 .. MaxPages)
Offsets == [page : Pages, slot : Slots]
OpNames == {"put", "get", "update", "remove"}
Calls == [name : OpNames, key : Keys]

(* The value of client c's n-th call, written for key k. *)
Values == [key : Keys, by : Clients, n : Nat]
Records == [key : Keys \cup {NONE}, value : Values \cup {NONE}]
NoRecord == [key |-> NONE, value |-> NONE]
NoCall == [name |-> "none", key |-> NONE]

ASSUME StoreAssumption ==
    /\ IsFiniteSet(Clients)
    /\ NumSlots \in Nat \ {0} /\ NumRetries \in Nat \ {0} /\ MaxPages \in Nat \ {0}
    /\ IndexReturnsOld \in BOOLEAN
    /\ Program \in [Clients -> Seq(SUBSET Calls)]
    /\ NONE \notin Offsets /\ NONE \notin Keys /\ NONE \notin Values

VARIABLES
    lock,       \* version_lock of every page
    free,       \* free_slots of every page
    data,       \* data of every page
    index,      \* map_: the offset of every key, or NONE
    deadlock_offsets,       \* the deadlock queue: how often each offset is in it
    deadlock_offset_lock,   \* the spin lock of the queue
    v_page,     \* the page each client writes to
    size,       \* current_size_ plus every client's size_delta_
    pc,         \* where each client is in its call
    call,       \* the call it makes
    loc,        \* the local variables of that call
    done,       \* how many calls it has completed
    result      \* what its last call returned

vars == <<lock, free, data, index, deadlock_offsets, deadlock_offset_lock,
          v_page, size, pc, call, loc, done, result>>

(***************************************************************************)
(* Local variables of a call: kv_offset is the new offset until it is in   *)
(* the index, then the old one; bits is the copy of free_slots of a        *)
(* read-modify-write done without the page's lock.                         *)
(***************************************************************************)
Locals == [kv_offset : Offsets \cup {NONE}, lock_value : Byte, retries : Nat,
           inserted : BOOLEAN, encountered : BOOLEAN, has_lock : BOOLEAN,
           is_new : BOOLEAN, bits : SUBSET Slots]
NoLocals == [kv_offset |-> NONE, lock_value |-> ZeroByte, retries |-> 0,
             inserted |-> FALSE, encountered |-> FALSE, has_lock |-> FALSE,
             is_new |-> FALSE, bits |-> {}]
Results == [ok : BOOLEAN, value : Values \cup {NONE}]
NoResult == [ok |-> FALSE, value |-> NONE]

Init ==
    /\ lock = [p \in Pages |-> IF p[2] = 1 THEN InitByte ELSE ZeroByte]
    /\ free = [p \in Pages |-> Slots]
    /\ data = [p \in Pages |-> [s \in Slots |-> NoRecord]]
    /\ index = [k \in Keys |-> NONE]
    /\ deadlock_offsets = [o \in Offsets |-> 0]
    /\ deadlock_offset_lock = FALSE
    /\ v_page = [c \in Clients |-> <<c, 1>>]
    /\ size = 0
    /\ pc = [c \in Clients |-> "idle"]
    /\ call = [c \in Clients |-> NoCall]
    /\ loc = [c \in Clients |-> NoLocals]
    /\ done = [c \in Clients |-> 0]
    /\ result = [c \in Clients |-> NoResult]

-----------------------------------------------------------------------------
GoTo(c, from, to) == pc[c] = from /\ pc' = [pc EXCEPT ![c] = to]
Is(c, name) == call[c].name = name
Offset(c) == loc[c].kv_offset
Value(c) == [key |-> call[c].key, by |-> c, n |-> done[c] + 1]

FirstStep == [put |-> "p_lock", get |-> "g_get", update |-> "u_get", remove |-> "r_get"]

Start(c) ==
    /\ done[c] < Len(Program[c])
    /\ \E x \in Program[c][done[c] + 1] :
          /\ call' = [call EXCEPT ![c] = x]
          /\ GoTo(c, "idle", FirstStep[x.name])
    /\ result' = [result EXCEPT ![c] = NoResult]
    /\ UNCHANGED <<lock, free, data, index, deadlock_offsets, deadlock_offset_lock,
                   v_page, size, loc, done>>

Return(c, from, ok, value) ==
    /\ GoTo(c, from, "idle")
    /\ result' = [result EXCEPT ![c] = [ok |-> ok, value |-> value]]
    /\ done' = [done EXCEPT ![c] = @ + 1]
    /\ loc' = [loc EXCEPT ![c] = NoLocals]
    /\ UNCHANGED call

Continue(c, from, to) == GoTo(c, from, to) /\ UNCHANGED <<call, done, result>>

(* invalidate_record: the slot is free again. *)
InvalidateOffByOne(fs, p, slots) == [fs EXCEPT ![p] = @ \cup {s - 1 : s \in slots}]
Invalidate(fs, p, slots) == [fs EXCEPT ![p] = @ \cup slots]

(* map_->Insert: exchanges the offset of the key.  Only CCEH returns the   *)
(* offset it replaced; the other wrappers return the tombstone.            *)
Insert(k, offset) == index' = [index EXCEPT ![k] = offset]
ReplacedUnknown(k) == NONE
Replaced(k) == IF IndexReturnsOld THEN index[k] ELSE NONE

-----------------------------------------------------------------------------
(* Client::put.                                                            *)

LockOwnPage(c) ==
    /\ Continue(c, "p_lock", "p_write")
    /\ ~IsLocked(lock[v_page[c]])
    /\ lock' = [lock EXCEPT ![v_page[c]] = LockedByte(@)]
    /\ UNCHANGED <<free, data, index, deadlock_offsets, deadlock_offset_lock,
                   v_page, size, loc>>

(* _Find_first: s is the first free slot of the page. *)
FirstSlot(p, s) == s = 1
FirstFree(p, s) == s \in free[p] /\ \A t \in free[p] : s <= t

(* The record is written, then its bit is cleared, both under the lock. *)
PutWrite(c) ==
    /\ Continue(c, "p_write", "p_insert")
    /\ free[v_page[c]] # {}
    /\ \E s \in Slots :
          LET p == v_page[c]
          IN  /\ FirstFree(p, s)
              /\ data' = [data EXCEPT ![p][s] = [key |-> call[c].key, value |-> Value(c)]]
              /\ free' = [free EXCEPT ![p] = @ \ {s}]
              /\ loc' = [loc EXCEPT ![c].kv_offset = [page |-> p, slot |-> s]]
    /\ UNCHANGED <<lock, index, deadlock_offsets, deadlock_offset_lock, v_page, size>>

(* The page is full: unlock it, take the next one, start over. *)
PageFull(c) ==
    /\ Continue(c, "p_write", "p_next")
    /\ free[v_page[c]] = {}
    /\ lock' = [lock EXCEPT ![v_page[c]] = UnlockByte(@)]
    /\ UNCHANGED <<free, data, index, deadlock_offsets, deadlock_offset_lock,
                   v_page, size, loc>>

(* update_access_information: the next page of the block, or the first one *)
(* of a new block; either way a page no other client writes to.            *)
TakeNextPage(c) ==
    /\ Continue(c, "p_next", "p_lock")
    /\ v_page[c][2] < MaxPages
    /\ LET p == <<c, v_page[c][2] + 1>>
       IN  /\ v_page' = [v_page EXCEPT ![c] = p]
           /\ lock' = [lock EXCEPT ![p] = InitByte]
           /\ free' = [free EXCEPT ![p] = Slots]
    /\ UNCHANGED <<data, index, deadlock_offsets, deadlock_offset_lock, size, loc>>

InsertIndex(c) ==
    /\ LET old == Replaced(call[c].key)
       IN  /\ Continue(c, "p_insert", IF old = NONE THEN "p_unlock" ELSE "f_start")
           /\ loc' = [loc EXCEPT ![c].kv_offset = old, ![c].is_new = (old = NONE)]
    /\ Insert(call[c].key, Offset(c))
    /\ UNCHANGED <<lock, free, data, deadlock_offsets, deadlock_offset_lock, v_page, size>>

(* size_delta_++ on every put, whether or not it replaced a record:         *)
(* free_occupied_slot takes the replaced one off again.                    *)
CountNewOnly(c) == size' = size + (IF loc[c].is_new THEN 1 ELSE 0)
CountPut(c) == size' = size + 1

UnlockOwnPage(c) ==
    /\ Return(c, "p_unlock", loc[c].is_new, NONE)
    /\ lock' = [lock EXCEPT ![v_page[c]] = UnlockByte(@)]
    /\ CountPut(c)
    /\ UNCHANGED <<free, data, index, deadlock_offsets, deadlock_offset_lock, v_page>>

-----------------------------------------------------------------------------
(* Client::free_occupied_slot, called by put while it holds its own page,  *)
(* and by remove, which holds no page and asks for the key to be removed   *)
(* from the index (delete_offset).                                         *)

OnOwnPage(c, offset) == offset.page = v_page[c]
AfterInvalidate(c, then) == IF Is(c, "remove") THEN "f_none" ELSE then

(* The old record is on the client's own page. *)
FreeOnOwnPage(c) ==
    /\ Continue(c, "f_start", "f_end")
    /\ OnOwnPage(c, Offset(c)) /\ Is(c, "put")
    /\ free' = Invalidate(free, v_page[c], {Offset(c).slot})
    /\ UNCHANGED <<lock, data, index, deadlock_offsets, deadlock_offset_lock,
                   v_page, size, loc>>

(* The same from remove: the read-modify-write of the bitset runs without  *)
(* the page's lock.                                                        *)
RemoveOnOwnPage(c) ==
    /\ Continue(c, "f_start", "r_store")
    /\ OnOwnPage(c, Offset(c)) /\ Is(c, "remove")
    /\ loc' = [loc EXCEPT ![c].bits = free[v_page[c]]]
    /\ UNCHANGED <<lock, free, data, index, deadlock_offsets, deadlock_offset_lock,
                   v_page, size>>

RemoveStoreBits(c) ==
    /\ Continue(c, "r_store", "f_none")
    /\ free' = [free EXCEPT ![v_page[c]] = loc[c].bits \cup {Offset(c).slot}]
    /\ UNCHANGED <<lock, data, index, deadlock_offsets, deadlock_offset_lock,
                   v_page, size, loc>>

FreeElsewhere(c) ==
    /\ Continue(c, "f_start", "f_cas")
    /\ ~OnOwnPage(c, Offset(c))
    /\ loc' = [loc EXCEPT ![c].lock_value = Unlocked(lock[Offset(c).page])]
    /\ UNCHANGED <<lock, free, data, index, deadlock_offsets, deadlock_offset_lock,
                   v_page, size>>

(* The compare-and-swap succeeds: invalidate the old record. *)
LeaveQueued(c) == "f_unlock"
AfterFreeLocked(c) ==
    IF loc[c].inserted /\ loc[c].encountered THEN "f_dequeue" ELSE "f_unlock"

FreeLock(c) ==
    /\ Continue(c, "f_cas", AfterInvalidate(c, AfterFreeLocked(c)))
    /\ lock[Offset(c).page] = loc[c].lock_value
    /\ lock' = [lock EXCEPT ![Offset(c).page] = LockedByte(@)]
    /\ free' = Invalidate(free, Offset(c).page, {Offset(c).slot})
    /\ loc' = [loc EXCEPT ![c].has_lock = TRUE, ![c].retries = 0]
    /\ UNCHANGED <<data, index, deadlock_offsets, deadlock_offset_lock, v_page, size>>

(* It fails: another attempt, or after NumRetries of them the queue. *)
NeverStuck(r) == FALSE
Stuck(r) == r = NumRetries

FreeRetry(c) ==
    /\ LET r == loc[c].retries + 1
       IN  /\ Continue(c, "f_cas", IF Stuck(r) THEN "f_queue" ELSE "f_cas")
           /\ loc' = [loc EXCEPT ![c].lock_value = Unlocked(lock[Offset(c).page]),
                                 ![c].retries = r % NumRetries]
    /\ lock[Offset(c).page] # loc[c].lock_value
    /\ UNCHANGED <<lock, free, data, index, deadlock_offsets, deadlock_offset_lock,
                   v_page, size>>

LockQueue(c, from, to) ==
    /\ Continue(c, from, to)
    /\ ~deadlock_offset_lock
    /\ deadlock_offset_lock' = TRUE
    /\ UNCHANGED <<lock, free, data, index, deadlock_offsets, v_page, size, loc>>

(* remove does not hold its own page here either: the bitset is read now   *)
(* and stored later.                                                       *)
ScanReadBits(c) ==
    /\ Continue(c, "f_scan", "f_clear")
    /\ Is(c, "remove")
    /\ loc' = [loc EXCEPT ![c].bits = free[v_page[c]]]
    /\ UNCHANGED <<lock, free, data, index, deadlock_offsets, deadlock_offset_lock,
                   v_page, size>>

(* With the queue locked: add the own offset the first time, invalidate    *)
(* every queued offset on the own page, keep the others.  If the own       *)
(* offset is gone, another client invalidated it.                          *)
ScanQueue(c) ==
    LET queue == IF loc[c].inserted THEN deadlock_offsets
                 ELSE [deadlock_offsets EXCEPT ![Offset(c)] = @ + 1]
        own == {s \in Slots : queue[[page |-> v_page[c], slot |-> s]] > 0}
        found == queue[Offset(c)] > 0
        bits == IF Is(c, "remove") /\ own # {} THEN loc[c].bits ELSE free[v_page[c]]
    IN  /\ Continue(c, IF Is(c, "remove") THEN "f_clear" ELSE "f_scan",
                    IF found THEN "f_cas" ELSE AfterInvalidate(c, "f_end"))
        /\ deadlock_offsets' = [o \in Offsets |-> IF OnOwnPage(c, o) THEN 0 ELSE queue[o]]
        /\ free' = Invalidate([free EXCEPT ![v_page[c]] = bits], v_page[c], own)
        /\ loc' = [loc EXCEPT ![c].inserted = TRUE, ![c].encountered = found]
        /\ deadlock_offset_lock' = FALSE
        /\ UNCHANGED <<lock, data, index, v_page, size>>

(* delete_offset: the key is removed from the index. *)
ClearIndex(c) ==
    /\ Continue(c, "f_none", IF loc[c].has_lock THEN AfterFreeLocked(c) ELSE "f_end")
    /\ Insert(call[c].key, NONE)
    /\ UNCHANGED <<lock, free, data, deadlock_offsets, deadlock_offset_lock,
                   v_page, size, loc>>

(* "We inserted into the queue but manually deleted." *)
Dequeue(c) ==
    /\ Continue(c, "f_erase", "f_unlock")
    /\ deadlock_offsets' = [deadlock_offsets EXCEPT ![Offset(c)] = IF @ > 0 THEN @ - 1 ELSE 0]
    /\ deadlock_offset_lock' = FALSE
    /\ UNCHANGED <<lock, free, data, index, v_page, size, loc>>

FreeUnlock(c) ==
    /\ Continue(c, "f_unlock", "f_end")
    /\ lock' = [lock EXCEPT ![Offset(c).page] = UnlockByte(@)]
    /\ UNCHANGED <<free, data, index, deadlock_offsets, deadlock_offset_lock,
                   v_page, size, loc>>

FreeEnd(c) ==
    /\ \/ Is(c, "put") /\ Continue(c, "f_end", "p_unlock") /\ UNCHANGED loc
       \/ Is(c, "remove") /\ Return(c, "f_end", TRUE, NONE)
    /\ size' = size - 1
    /\ UNCHANGED <<lock, free, data, index, deadlock_offsets, deadlock_offset_lock, v_page>>

-----------------------------------------------------------------------------
(* Client::remove, Client::get and Client::update begin with a lookup; a   *)
(* key that is not in the index ends the call.                             *)

Lookup(c, from, to) ==
    /\ pc[c] = from
    /\ \/ /\ index[call[c].key] = NONE
          /\ Return(c, from, FALSE, NONE)
       \/ /\ index[call[c].key] # NONE
          /\ Continue(c, from, to)
          /\ loc' = [loc EXCEPT ![c].kv_offset = index[call[c].key]]
    /\ UNCHANGED <<lock, free, data, index, deadlock_offsets, deadlock_offset_lock,
                   v_page, size>>

(* get_value_from_offset: a locked page is a failed attempt. *)
GetVersion(c) ==
    /\ Continue(c, "g_version", IF IsLocked(lock[Offset(c).page]) THEN "g_get" ELSE "g_read")
    /\ loc' = [loc EXCEPT ![c].lock_value = lock[Offset(c).page]]
    /\ UNCHANGED <<lock, free, data, index, deadlock_offsets, deadlock_offset_lock,
                   v_page, size>>

(* The value counts if the version has not changed.  (If it has not, the   *)
(* value read is the one on the page when the version is compared.)        *)
SameVersion(c) == lock[Offset(c).page] = loc[c].lock_value

GetRead(c) ==
    /\ pc[c] = "g_read"
    /\ \/ /\ SameVersion(c)
          /\ Return(c, "g_read", TRUE, data[Offset(c).page][Offset(c).slot].value)
       \/ ~SameVersion(c) /\ Continue(c, "g_read", "g_get") /\ UNCHANGED loc
    /\ UNCHANGED <<lock, free, data, index, deadlock_offsets, deadlock_offset_lock,
                   v_page, size>>

(* v_page.lock(false): one attempt; if it fails the offset is looked up    *)
(* again.                                                                  *)
UpdateLock(c) ==
    /\ pc[c] = "u_lock"
    /\ \/ /\ ~IsLocked(lock[Offset(c).page])
          /\ Continue(c, "u_lock", "u_write")
          /\ lock' = [lock EXCEPT ![Offset(c).page] = LockedByte(@)]
       \/ /\ IsLocked(lock[Offset(c).page])
          /\ Continue(c, "u_lock", "u_get")
          /\ UNCHANGED lock
    /\ UNCHANGED <<free, data, index, deadlock_offsets, deadlock_offset_lock,
                   v_page, size, loc>>

UpdateWrite(c) ==
    /\ Continue(c, "u_write", "u_unlock")
    /\ data' = [data EXCEPT ![Offset(c).page][Offset(c).slot].value = Value(c)]
    /\ UNCHANGED <<lock, free, index, deadlock_offsets, deadlock_offset_lock,
                   v_page, size, loc>>

UpdateUnlock(c) ==
    /\ Return(c, "u_unlock", TRUE, NONE)
    /\ lock' = [lock EXCEPT ![Offset(c).page] = UnlockByte(@)]
    /\ UNCHANGED <<free, data, index, deadlock_offsets, deadlock_offset_lock, v_page, size>>

-----------------------------------------------------------------------------
Put(c) ==
    \/ LockOwnPage(c) \/ PutWrite(c) \/ PageFull(c) \/ TakeNextPage(c)
    \/ InsertIndex(c) \/ UnlockOwnPage(c)

AcquireQueue(c) == LockQueue(c, "f_queue", "f_scan") \/ LockQueue(c, "f_dequeue", "f_erase")

FreeOccupiedSlot(c) ==
    \/ FreeOnOwnPage(c) \/ RemoveOnOwnPage(c) \/ RemoveStoreBits(c)
    \/ FreeElsewhere(c) \/ FreeLock(c) \/ FreeRetry(c)
    \/ AcquireQueue(c) \/ ScanReadBits(c) \/ ScanQueue(c) \/ ClearIndex(c) \/ Dequeue(c)
    \/ FreeUnlock(c) \/ FreeEnd(c)

Get(c) == Lookup(c, "g_get", "g_version") \/ GetVersion(c) \/ GetRead(c)

Update(c) ==
    \/ Lookup(c, "u_get", "u_lock") \/ UpdateLock(c)
    \/ UpdateWrite(c) \/ UpdateUnlock(c)

RemoveKey(c) == Lookup(c, "r_get", "f_start")

Step(c) == Put(c) \/ FreeOccupiedSlot(c) \/ Get(c) \/ Update(c) \/ RemoveKey(c)

(* All programs have run: not a deadlock. *)
Finished ==
    /\ \A c \in Clients : pc[c] = "idle" /\ done[c] = Len(Program[c])
    /\ UNCHANGED vars

Next == (\E c \in Clients : Start(c) \/ Step(c)) \/ Finished

Spec == Init /\ [][Next]_vars

(***************************************************************************)
(* A client in a call is a running thread.  A client that spins on the     *)
(* queue's lock, which others hold for a few instructions at a time, gets  *)
(* it in the end.                                                          *)
(***************************************************************************)
Fairness == \A c \in Clients : WF_vars(Step(c)) /\ SF_vars(AcquireQueue(c))

FairSpec == Spec /\ Fairness

-----------------------------------------------------------------------------
(* Properties.                                                             *)

PutSteps == {"p_lock", "p_write", "p_next", "p_insert", "p_unlock"}
FreeSteps == {"f_start", "r_store", "f_cas", "f_queue", "f_scan", "f_clear", "f_none",
              "f_dequeue", "f_erase", "f_unlock", "f_end"}
Labels == PutSteps \cup FreeSteps \cup
          {"idle", "g_get", "g_version", "g_read", "u_get", "u_lock", "u_write",
           "u_unlock", "r_get"}

(* The pages a client has locked. *)
Holding(c) ==
    (IF \/ pc[c] \in {"p_write", "p_insert", "p_unlock"}
        \/ Is(c, "put") /\ pc[c] \in FreeSteps
     THEN {v_page[c]} ELSE {})
    \cup
    (IF \/ pc[c] \in {"u_write", "u_unlock"}
        \/ loc[c].has_lock /\ pc[c] \in {"f_none", "f_dequeue", "f_erase", "f_unlock"}
     THEN {Offset(c).page} ELSE {})

Quiescent == \A c \in Clients : pc[c] = "idle"
Occupied(o) == o.slot \notin free[o.page]
RecordAt(o) == data[o.page][o.slot]

(* The type invariant. *)
TypeOK ==
    /\ lock \in [Pages -> Byte]
    /\ free \in [Pages -> SUBSET Slots]
    /\ data \in [Pages -> [Slots -> Records]]
    /\ index \in [Keys -> Offsets \cup {NONE}]
    /\ deadlock_offsets \in [Offsets -> Nat]
    /\ deadlock_offset_lock \in BOOLEAN
    /\ v_page \in [Clients -> Pages]
    /\ size \in Int
    /\ pc \in [Clients -> Labels]
    /\ call \in [Clients -> Calls \cup {NoCall}]
    /\ loc \in [Clients -> Locals]
    /\ done \in [Clients -> Nat]
    /\ result \in [Clients -> Results]

(* put, update and free_occupied_slot lock pages in three different ways:  *)
(* no two clients ever have the same page locked, and a page is locked     *)
(* exactly when some client has it.                                        *)
PageLockExclusive ==
    /\ \A c, d \in Clients : c # d => Holding(c) \cap Holding(d) = {}
    /\ \A p \in Pages : IsLocked(lock[p]) <=> \E c \in Clients : p \in Holding(c)

(* What the index points to is an occupied slot that holds a record of     *)
(* that key, written for that key: free_occupied_slot and the queue never  *)
(* free, put never overwrites and update never changes a slot that another *)
(* key's record lives in.  (remove frees the slot before it clears the     *)
(* index.)                                                                 *)
IndexPointsToItsRecord ==
    \A k \in Keys :
        index[k] # NONE =>
            /\ \/ Occupied(index[k])
               \/ \E c \in Clients : pc[c] = "f_none" /\ call[c].key = k
            /\ RecordAt(index[k]).key = k
            /\ RecordAt(index[k]).value.key = k

(* With every call returned, an occupied slot is the one the index has for *)
(* its key: replaced and removed records leave no slot behind.             *)
NoSlotLeaked ==
    Quiescent =>
        \A o \in Offsets : Occupied(o) => index[RecordAt(o).key] = o

(* With every call returned, the counter is the number of keys. *)
SizeIsNumberOfKeys ==
    Quiescent => size = Cardinality({k \in Keys : index[k] # NONE})

(* A client that gets the lock of the old record's page frees a slot in    *)
(* which a record of its key still is: it has noticed if another client    *)
(* freed the offset through the queue, and puts only replace records.      *)
FreesOccupiedSlot ==
    [][\A c \in Clients :
          FreeLock(c) => /\ Occupied(Offset(c))
                         /\ RecordAt(Offset(c)).key = call[c].key]_vars

(* A remove that goes on to answer that it deleted the key takes it out of *)
(* the index: no other remove has done so since it looked the key up.      *)
RemoveDeletesItsKey ==
    [][\A c \in Clients : ClearIndex(c) => index[call[c].key] # NONE]_vars

(* Every offset in the deadlock queue is there for a client that is still  *)
(* in free_occupied_slot to free it: none is left behind by a client that  *)
(* got its lock after all or whose offset another client freed.            *)
Awaits(c, o) ==
    /\ pc[c] \in {"f_cas", "f_queue", "f_scan", "f_clear", "f_none", "f_dequeue", "f_erase"}
    /\ loc[c].inserted /\ Offset(c) = o

QueuedOffsetsAreAwaited ==
    \A o \in Offsets : deadlock_offsets[o] <= Cardinality({c \in Clients : Awaits(c, o)})

(* Every call returns, although clients wait for pages that are held by    *)
(* clients that wait for theirs.                                           *)
CallsReturn == \A c \in Clients : pc[c] # "idle" ~> pc[c] = "idle"
=============================================================================
