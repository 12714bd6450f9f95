------------------------------ MODULE PageLock ------------------------------
(***************************************************************************)
(* One ViperPage under concurrent use (include/viper/viper.hpp): clients   *)
(* that lock the page to write a record (put, free_occupied_slot, compact  *)
(* lock it blocking, update tries once), clients that read a record with   *)
(* the version check of get_value_from_offset, and the client that owns    *)
(* the page's block and may leave it.  The page is page 0 of its block,    *)
(* the only one whose byte carries CLIENT_BIT.                             *)
(*                                                                         *)
(* A record is longer than a machine word: it is modelled as two halves    *)
(* written, and read, one at a time.  A half holds the number of the lock  *)
(* cycle that wrote it, so a read that mixes two writes is visible.        *)
(***************************************************************************)
EXTENDS VersionLock

CONSTANTS
    Writers,    \* clients that lock this page
    Readers,    \* clients that read a record of this page
    Owner,      \* the client whose block this is when the model starts
    MaxCycles   \* bound: lock cycles explored

ASSUME ThreadsAssumption == Writers \cap Readers = {} /\ Owner \in Writers
ASSUME BoundAssumption == MaxCycles \in Nat

VARIABLES
    version_lock,   \* the page's byte
    data,           \* the two halves of the record
    step,           \* where each client is
    lock_value,     \* each client's local copy of the byte
    copy,           \* what a reader has copied of the record
    result,         \* what the last get of a reader returned
    cycles,         \* history: lock cycles completed
    began,          \* history: cycles when a reader loaded the byte
    owned           \* history: Owner has not left the block

pageVars == <<version_lock, data, step, lock_value, copy, result, cycles, began, owned>>

NoResult == <<>>

PageInit ==
    /\ version_lock = SetClient(InitByte)
    /\ data = <<0, 0>>
    /\ step = [t \in Writers \cup Readers |-> "idle"]
    /\ lock_value = [t \in Writers \cup Readers |-> ZeroByte]
    /\ copy = [r \in Readers |-> <<0, 0>>]
    /\ result = [r \in Readers |-> NoResult]
    /\ cycles = 0
    /\ began = [r \in Readers |-> 0]
    /\ owned = TRUE

MoveTo(t, from, to) == step[t] = from /\ step' = [step EXCEPT ![t] = to]

(***************************************************************************)
(* ViperPage::lock.                                                        *)
(***************************************************************************)
(* The initial load.  blocking is the parameter of lock(). *)
LoadLock(w) ==
    /\ \E blocking \in BOOLEAN :
          MoveTo(w, "idle", IF blocking THEN "lock" ELSE "try_lock")
    /\ cycles < MaxCycles
    /\ lock_value' = [lock_value EXCEPT ![w] = Unlocked(version_lock)]
    /\ UNCHANGED <<version_lock, data, copy, result, cycles, began, owned>>

(* compare_exchange succeeds. *)
AcquireLock(w) ==
    /\ MoveTo(w, step[w], "write1")
    /\ step[w] \in {"lock", "try_lock"}
    /\ version_lock = lock_value[w]
    /\ version_lock' = LockedByte(version_lock)
    /\ UNCHANGED <<data, lock_value, copy, result, cycles, began, owned>>

(* compare_exchange fails: try again with the byte found, or give up. *)
RetryLock(w) ==
    /\ step[w] \in {"lock", "try_lock"}
    /\ version_lock # lock_value[w]
    /\ MoveTo(w, step[w], IF step[w] = "lock" THEN "lock" ELSE "idle")
    /\ lock_value' = [lock_value EXCEPT ![w] = Unlocked(version_lock)]
    /\ UNCHANGED <<version_lock, data, copy, result, cycles, began, owned>>

(***************************************************************************)
(* The critical section: the record is written in two steps.               *)
(***************************************************************************)
WriteFirstHalf(w) ==
    /\ MoveTo(w, "write1", "write2")
    /\ data' = [data EXCEPT ![1] = cycles + 1]
    /\ UNCHANGED <<version_lock, lock_value, copy, result, cycles, began, owned>>

WriteSecondHalf(w) ==
    /\ MoveTo(w, "write2", "unlock1")
    /\ data' = [data EXCEPT ![2] = cycles + 1]
    /\ UNCHANGED <<version_lock, lock_value, copy, result, cycles, began, owned>>

(***************************************************************************)
(* ViperPage::unlock: a load and a later store, not one atomic operation.  *)
(***************************************************************************)
UnlockLoad(w) ==
    /\ MoveTo(w, "unlock1", "unlock2")
    /\ lock_value' = [lock_value EXCEPT ![w] = version_lock]
    /\ UNCHANGED <<version_lock, data, copy, result, cycles, began, owned>>

UnlockStore(w) ==
    /\ MoveTo(w, "unlock2", "idle")
    /\ version_lock' = UnlockByte(lock_value[w])
    /\ cycles' = cycles + 1
    /\ UNCHANGED <<data, lock_value, copy, result, began, owned>>

(***************************************************************************)
(* get_value_from_offset, called by get until it succeeds.                 *)
(***************************************************************************)
(* The byte is loaded; a locked page is a failed attempt, which changes    *)
(* nothing.                                                                *)
ReadBegin(r) ==
    /\ step[r] \in {"idle", "retry"}
    /\ ~IsLocked(version_lock)
    /\ MoveTo(r, step[r], "read1")
    /\ lock_value' = [lock_value EXCEPT ![r] = version_lock]
    /\ began' = [began EXCEPT ![r] = cycles]
    /\ result' = [result EXCEPT ![r] = NoResult]
    /\ UNCHANGED <<version_lock, data, copy, cycles, owned>>

ReadFirstHalf(r) ==
    /\ MoveTo(r, "read1", "read2")
    /\ copy' = [copy EXCEPT ![r][1] = data[1]]
    /\ UNCHANGED <<version_lock, data, lock_value, result, cycles, began, owned>>

ReadSecondHalf(r) ==
    /\ MoveTo(r, "read2", "check")
    /\ copy' = [copy EXCEPT ![r][2] = data[2]]
    /\ UNCHANGED <<version_lock, data, lock_value, result, cycles, began, owned>>

(* return lock_val == page_lock.load(): the copy counts only if the byte   *)
(* has not changed.                                                        *)
NoVersionCheck(r) == TRUE
SameVersion(r) == lock_value[r] = version_lock

ReadReturn(r) ==
    /\ MoveTo(r, "check", "idle")
    /\ SameVersion(r)
    /\ result' = [result EXCEPT ![r] = copy[r]]
    /\ UNCHANGED <<version_lock, data, lock_value, copy, cycles, began, owned>>

ReadRetry(r) ==
    /\ MoveTo(r, "check", "retry")
    /\ ~SameVersion(r)
    /\ UNCHANGED <<version_lock, data, lock_value, copy, result, cycles, began, owned>>

(***************************************************************************)
(* The owner takes another block, or its Client is destroyed:              *)
(* v_block_->v_pages[0].version_lock &= NO_CLIENT_BIT.                     *)
(***************************************************************************)
OwnerLeaves ==
    /\ owned
    /\ step[Owner] = "idle"
    /\ owned' = FALSE
    /\ version_lock' = ClearClient(version_lock)
    /\ UNCHANGED <<data, step, lock_value, copy, result, cycles, began>>

Write(w) ==
    \/ LoadLock(w) \/ AcquireLock(w) \/ RetryLock(w)
    \/ WriteFirstHalf(w) \/ WriteSecondHalf(w)
    \/ UnlockLoad(w) \/ UnlockStore(w)

Read(r) ==
    \/ ReadBegin(r) \/ ReadFirstHalf(r) \/ ReadSecondHalf(r)
    \/ ReadReturn(r) \/ ReadRetry(r)

PageNext ==
    \/ \E w \in Writers : Write(w)
    \/ \E r \in Readers : Read(r)
    \/ OwnerLeaves

PageSpec == PageInit /\ [][PageNext]_pageVars

(***************************************************************************)
(* A client inside an operation is a running thread and keeps taking       *)
(* steps; nothing obliges it to start another operation.                   *)
(***************************************************************************)
InOperation(t) == step[t] # "idle"

FairPageSpec ==
    /\ PageSpec
    /\ \A w \in Writers : WF_pageVars(InOperation(w) /\ Write(w))
    /\ \A r \in Readers : WF_pageVars(InOperation(r) /\ Read(r))

(***************************************************************************)
(* Properties.                                                             *)
(***************************************************************************)
Holding(w) == step[w] \in {"write1", "write2", "unlock1", "unlock2"}

(* The type invariant. *)
PageTypeOK ==
    /\ version_lock \in Byte
    /\ data \in [1 .. 2 -> Nat]
    /\ step \in [Writers \cup Readers ->
                 {"idle", "lock", "try_lock", "write1", "write2", "unlock1",
                  "unlock2", "retry", "read1", "read2", "check"}]
    /\ lock_value \in [Writers \cup Readers -> Byte]
    /\ copy \in [Readers -> [1 .. 2 -> Nat]]
    /\ result \in [Readers -> {NoResult} \cup [1 .. 2 -> Nat]]
    /\ cycles \in Nat
    /\ began \in [Readers -> Nat]
    /\ owned \in BOOLEAN

(* ViperPage::lock admits one client at a time, although unlock() is a     *)
(* load and a store and the owner changes CLIENT_BIT between the two.      *)
MutualExclusion ==
    \A v, w \in Writers : Holding(v) /\ Holding(w) => v = w

(* A record that get() returned was written whole by one client            *)
(* (get_value_from_offset), provided fewer lock cycles than the six-bit    *)
(* version can count went by between its two loads of the byte.            *)
NoTornRead ==
    \A r \in Readers :
        /\ result[r] # NoResult
        /\ cycles - began[r] < USED_BIT \div 2
        => result[r][1] = result[r][2]

(* lock() and get(): a client that waits for the page gets it, and a       *)
(* reader whose attempts fail because of writers gets its record in the    *)
(* end.                                                                    *)
WaitersGetThrough ==
    /\ \A w \in Writers : step[w] = "lock" ~> Holding(w)
    /\ \A r \in Readers : step[r] = "read1" ~> step[r] = "idle"
=============================================================================
