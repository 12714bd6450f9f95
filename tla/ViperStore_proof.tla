-------------------------- MODULE ViperStore_proof --------------------------
(***************************************************************************)
(* Proofs about ViperStore, for any clients, keys, slots, retries and      *)
(* programs, and for indexes that return old offsets and that do not: its  *)
(* types, that page locks exclude each other although put, update and      *)
(* free_occupied_slot take them in three different ways, that the deadlock *)
(* queue holds only what some client waits for; then, from the second half *)
(* on, what holds of the records: no slot leaks, the size is the number of *)
(* keys, the index leads to records of the right key, and the store        *)
(* implements the map of KVStore.                                          *)
(***************************************************************************)
EXTENDS ViperStoreHistory, FiniteSetTheorems, TLAPS

-----------------------------------------------------------------------------
(* The version-lock byte of a page.                                        *)

(* Locking keeps a byte a byte: there is room for the lock bit above an    *)
(* even counter, and unlock() wraps within six bits.                       *)
LEMMA ByteOperators ==
    ASSUME NEW b \in Byte
    PROVE  /\ Unlocked(b) \in Byte
           /\ ~IsLocked(Unlocked(b))
           /\ ~IsLocked(b) => LockedByte(b) \in Byte /\ IsLocked(LockedByte(b))
           /\ UnlockByte(b) \in Byte
           /\ IsLocked(b) => ~IsLocked(UnlockByte(b))
           /\ SetClient(b) \in Byte
           /\ ClearClient(b) \in Byte
           /\ ClearClient(b).count = b.count
           /\ InitByte \in Byte /\ ~IsLocked(InitByte)
           /\ ZeroByte \in Byte /\ ~IsLocked(ZeroByte)
<1>1. PICK c \in BOOLEAN, u \in BOOLEAN, n \in 0 .. 63 :
        b = [client |-> c, used |-> u, count |-> n]
  BY DEF Byte, USED_BIT
<1>2. \A x \in BOOLEAN, y \in BOOLEAN, m \in 0 .. 63 :
         [client |-> x, used |-> y, count |-> m] \in Byte
  BY DEF Byte, USED_BIT
<1>3. b.client = c /\ b.used = u /\ b.count = n
  BY <1>1, Zenon
<1>4. /\ (n - (n % 2)) \in 0 .. 63 /\ (n - (n % 2)) % 2 # 1
      /\ n % 2 # 1 => n + 1 \in 0 .. 63 /\ (n + 1) % 2 = 1
      /\ (n + 1) % 64 \in 0 .. 63
      /\ n % 2 = 1 => ((n + 1) % 64) % 2 # 1
  BY SMT
<1>5. Unlocked(b) \in Byte /\ ~IsLocked(Unlocked(b))
  <2>1. Unlocked(b) = [client |-> c, used |-> u, count |-> n - (n % 2)]
    BY <1>1 DEF Unlocked
  <2>2. Unlocked(b) \in Byte
    BY <1>2, <1>4, <2>1, Zenon
  <2>3. Unlocked(b).count = n - (n % 2)
    BY <2>1
  <2> QED BY <1>4, <2>2, <2>3 DEF IsLocked
<1>6. ~IsLocked(b) => LockedByte(b) \in Byte /\ IsLocked(LockedByte(b))
  <2>1. LockedByte(b) = [client |-> c, used |-> u, count |-> n + 1]
    BY <1>1 DEF LockedByte
  <2>2. n % 2 # 1 => LockedByte(b) \in Byte
    BY <1>2, <1>4, <2>1, Zenon
  <2>3. LockedByte(b).count = n + 1
    BY <2>1
  <2> QED BY <1>3, <1>4, <2>2, <2>3 DEF IsLocked
<1>7. UnlockByte(b) \in Byte /\ (IsLocked(b) => ~IsLocked(UnlockByte(b)))
  <2>1. UnlockByte(b) = [client |-> c, used |-> TRUE, count |-> (n + 1) % 64]
    BY <1>3, Zenon DEF UnlockByte, USED_BIT
  <2>2. UnlockByte(b).count = (n + 1) % 64
    BY <2>1
  <2>3. UnlockByte(b) \in Byte
    BY <1>2, <1>4, <2>1, Zenon
  <2> QED BY <1>3, <1>4, <2>2, <2>3 DEF IsLocked
<1>8. SetClient(b) \in Byte /\ ClearClient(b) \in Byte /\ ClearClient(b).count = b.count
  <2>1. SetClient(b) = [client |-> TRUE, used |-> u, count |-> n]
    BY <1>3, Zenon DEF SetClient
  <2>2. ClearClient(b) = [client |-> FALSE, used |-> u, count |-> n]
    BY <1>3, Zenon DEF ClearClient
  <2>3. ClearClient(b).count = n
    BY <2>2
  <2>4. TRUE \in BOOLEAN /\ FALSE \in BOOLEAN
    OBVIOUS
  <2>5. SetClient(b) \in Byte
    BY <1>2, <2>1, <2>4, Zenon
  <2>6. ClearClient(b) \in Byte
    BY <1>2, <2>2, <2>4, Zenon
  <2> QED BY <1>3, <2>3, <2>5, <2>6
<1>9. InitByte \in Byte /\ ~IsLocked(InitByte) /\ ZeroByte \in Byte /\ ~IsLocked(ZeroByte)
  BY SMT DEF Byte, USED_BIT, IsLocked, InitByte, ZeroByte
<1> QED
  BY <1>5, <1>6, <1>7, <1>8, <1>9

-----------------------------------------------------------------------------
(* What each step of a call is a step of. *)
CallFits(c) ==
    /\ pc[c] # "idle" => call[c] \in Calls
    /\ pc[c] \in PutSteps => Is(c, "put")
    /\ pc[c] \in FreeSteps => Is(c, "put") \/ Is(c, "remove")
    /\ pc[c] \in {"r_get", "r_store", "f_clear", "f_none"} => Is(c, "remove")

(* The steps at which a client has an offset in hand. *)
WithOffset == {"p_insert", "g_version", "g_read", "u_lock", "u_write", "u_unlock"}
              \cup (FreeSteps \ {"f_end"})

(* What a client knows of the page it frees a slot on: it is not its own,  *)
(* and a compare-and-swap never expects a locked byte.                     *)
LocFits(c) ==
    /\ pc[c] \in WithOffset => Offset(c) \in Offsets
    /\ loc[c].has_lock =>
          pc[c] \in {"f_none", "f_dequeue", "f_erase", "f_unlock", "f_end", "p_unlock"}
    /\ pc[c] \in {"f_dequeue", "f_erase", "f_unlock"} => loc[c].has_lock
    /\ \/ pc[c] \in {"f_cas", "f_queue", "f_scan", "f_clear"}
       \/ loc[c].has_lock
       => Offset(c).page # v_page[c]
    /\ pc[c] \in {"f_cas", "f_queue", "f_scan", "f_clear"} => ~IsLocked(loc[c].lock_value)

CallInv == \A c \in Clients : CallFits(c)
LocInv == \A c \in Clients : LocFits(c)

(* Every offset anyone knows is on a page some client has written to.      *)
Claimed(p) == p[2] <= v_page[p[1]][2]

ClaimInv ==
    /\ \A c \in Clients : v_page[c][1] = c
    /\ \A k \in Keys : index[k] # NONE => Claimed(index[k].page)
    /\ \A c \in Clients : Offset(c) # NONE => Claimed(Offset(c).page)

StoreInv == TypeOK /\ CallInv /\ LocInv /\ ClaimInv /\ PageLockExclusive

-----------------------------------------------------------------------------
(* The fields of a client's locals can be set one at a time. *)
LEMMA LocalsUpdate ==
    ASSUME NEW l \in Locals
    PROVE  /\ \A o \in Offsets \cup {NONE} : [l EXCEPT !.kv_offset = o] \in Locals
           /\ \A b \in Byte : [l EXCEPT !.lock_value = b] \in Locals
           /\ \A n \in Nat : [l EXCEPT !.retries = n] \in Locals
           /\ \A x \in BOOLEAN : /\ [l EXCEPT !.inserted = x] \in Locals
                                 /\ [l EXCEPT !.encountered = x] \in Locals
                                 /\ [l EXCEPT !.has_lock = x] \in Locals
                                 /\ [l EXCEPT !.is_new = x] \in Locals
           /\ \A s \in SUBSET Slots : [l EXCEPT !.bits = s] \in Locals
           /\ \A o \in Offsets \cup {NONE}, x \in BOOLEAN :
                 [l EXCEPT !.kv_offset = o, !.is_new = x] \in Locals
           /\ \A x \in BOOLEAN, n \in Nat : [l EXCEPT !.has_lock = x, !.retries = n] \in Locals
           /\ \A b \in Byte, n \in Nat : [l EXCEPT !.lock_value = b, !.retries = n] \in Locals
           /\ \A x, y \in BOOLEAN : [l EXCEPT !.inserted = x, !.encountered = y] \in Locals
<1>1. \A o \in Offsets \cup {NONE} : [l EXCEPT !.kv_offset = o] \in Locals
  BY Zenon DEF Locals
<1>2. \A b \in Byte : [l EXCEPT !.lock_value = b] \in Locals
  BY Zenon DEF Locals
<1>3. \A n \in Nat : [l EXCEPT !.retries = n] \in Locals
  BY Zenon DEF Locals
<1>4. \A x \in BOOLEAN : [l EXCEPT !.inserted = x] \in Locals
  BY Zenon DEF Locals
<1>5. \A x \in BOOLEAN : [l EXCEPT !.encountered = x] \in Locals
  BY Zenon DEF Locals
<1>6. \A x \in BOOLEAN : [l EXCEPT !.has_lock = x] \in Locals
  BY Zenon DEF Locals
<1>7. \A x \in BOOLEAN : [l EXCEPT !.is_new = x] \in Locals
  BY Zenon DEF Locals
<1>8. \A s \in SUBSET Slots : [l EXCEPT !.bits = s] \in Locals
  BY Zenon DEF Locals
<1>9. \A o \in Offsets \cup {NONE}, x \in BOOLEAN :
         [l EXCEPT !.kv_offset = o, !.is_new = x] \in Locals
  BY Zenon DEF Locals
<1>10. \A x \in BOOLEAN, n \in Nat : [l EXCEPT !.has_lock = x, !.retries = n] \in Locals
  BY Zenon DEF Locals
<1>11. \A b \in Byte, n \in Nat : [l EXCEPT !.lock_value = b, !.retries = n] \in Locals
  BY Zenon DEF Locals
<1>12. \A x, y \in BOOLEAN : [l EXCEPT !.inserted = x, !.encountered = y] \in Locals
  BY Zenon DEF Locals
<1>13. QED
  BY <1>1, <1>2, <1>3, <1>4, <1>5, <1>6, <1>7, <1>8, <1>9, <1>10, <1>11, <1>12

LEMMA LocalsFields ==
    ASSUME NEW l \in Locals
    PROVE  /\ l.kv_offset \in Offsets \cup {NONE} /\ l.lock_value \in Byte
           /\ l.retries \in Nat /\ l.bits \in SUBSET Slots
           /\ l.inserted \in BOOLEAN /\ l.encountered \in BOOLEAN
           /\ l.has_lock \in BOOLEAN /\ l.is_new \in BOOLEAN
  BY DEF Locals

LEMMA NoLocalsTyped == NoLocals \in Locals
<1>1. ZeroByte \in Byte
  BY DEF Byte, ZeroByte, USED_BIT
<1>2. QED
  BY <1>1 DEF NoLocals, Locals

(* The parts that steps share: a step inside a call, the end of a call,    *)
(* locking, unlocking and freeing slots.                                   *)
LEMMA ContinueTypes ==
    ASSUME TypeOK, NEW c \in Clients, NEW from, NEW to \in Labels, Continue(c, from, to)
    PROVE  /\ pc' \in [Clients -> Labels] /\ call' \in [Clients -> Calls \cup {NoCall}]
           /\ done' \in [Clients -> Nat] /\ result' \in [Clients -> Results]
  BY DEF TypeOK, Continue, GoTo

LEMMA ReturnTypes ==
    ASSUME TypeOK, NEW c \in Clients, NEW from, NEW ok \in BOOLEAN,
           NEW value \in Values \cup {NONE}, Return(c, from, ok, value)
    PROVE  /\ pc' \in [Clients -> Labels] /\ call' \in [Clients -> Calls \cup {NoCall}]
           /\ done' \in [Clients -> Nat] /\ result' \in [Clients -> Results]
           /\ loc' \in [Clients -> Locals]
<1>1. [ok |-> ok, value |-> value] \in Results
  BY Zenon DEF Results
<1>2. result' \in [Clients -> Results]
  BY <1>1 DEF TypeOK, Return
<1>3. loc' \in [Clients -> Locals]
  BY NoLocalsTyped DEF TypeOK, Return
<1>4. done' \in [Clients -> Nat]
  BY DEF TypeOK, Return
<1>5. pc' \in [Clients -> Labels] /\ call' \in [Clients -> Calls \cup {NoCall}]
  BY DEF TypeOK, Return, GoTo, Labels
<1>6. QED
  BY <1>2, <1>3, <1>4, <1>5

LEMMA LockTypes ==
    ASSUME TypeOK, NEW p \in Pages
    PROVE  /\ ~IsLocked(lock[p]) => [lock EXCEPT ![p] = LockedByte(lock[p])] \in [Pages -> Byte]
           /\ [lock EXCEPT ![p] = UnlockByte(lock[p])] \in [Pages -> Byte]
<1>1. lock[p] \in Byte
  BY DEF TypeOK
<1>2. QED
  BY <1>1, ByteOperators DEF TypeOK

LEMMA FreeTypes ==
    ASSUME NEW fs \in [Pages -> SUBSET Slots], NEW p \in Pages, NEW slots \in SUBSET Slots
    PROVE  Invalidate(fs, p, slots) \in [Pages -> SUBSET Slots]
  BY DEF Invalidate

LEMMA OffsetFields ==
    ASSUME NEW o \in Offsets
    PROVE  o.page \in Pages /\ o.slot \in Slots
  BY DEF Offsets

(* A client's call writes values of its key. *)
LEMMA ValueTyped ==
    ASSUME TypeOK, CallInv, NEW c \in Clients, pc[c] # "idle"
    PROVE  Value(c) \in Values /\ call[c].key \in Keys
<1>1. call[c] \in Calls /\ done[c] + 1 \in Nat
  BY DEF TypeOK, CallInv, CallFits
<1>2. call[c].key \in Keys
  BY <1>1 DEF Calls
<1>3. QED
  BY <1>1, <1>2 DEF Value, Values

LEMMA StartsACall ==
    ASSUME TypeOK, NEW c \in Clients, Start(c)
    PROVE  \E x \in Calls : /\ call' = [call EXCEPT ![c] = x]
                            /\ pc' = [pc EXCEPT ![c] = FirstStep[x.name]]
<1>1. PICK x \in Program[c][done[c] + 1] :
         /\ call' = [call EXCEPT ![c] = x]
         /\ pc' = [pc EXCEPT ![c] = FirstStep[x.name]]
  BY DEF Start, GoTo
<1>2. done[c] + 1 \in 1 .. Len(Program[c])
  BY DEF TypeOK, Start
<1>3. Program[c] \in Seq(SUBSET Calls)
  BY StoreAssumption
<1>4. x \in Calls
  BY <1>2, <1>3
<1>5. QED
  BY <1>1, <1>4

-----------------------------------------------------------------------------
(* Every step keeps the types. *)
LEMMA TypeStep ==
    ASSUME TypeOK, CallInv, LocInv, [Next]_vars
    PROVE  TypeOK'
<1>1. ASSUME NEW c \in Clients, Start(c) PROVE TypeOK'
  <2>1. PICK x \in Calls :
           /\ call' = [call EXCEPT ![c] = x]
           /\ pc' = [pc EXCEPT ![c] = FirstStep[x.name]]
    BY <1>1, StartsACall
  <2>2. FirstStep[x.name] \in Labels
    BY DEF Calls, OpNames, FirstStep, Labels, PutSteps
  <2>3. NoResult \in Results
    BY Zenon DEF NoResult, Results
  <2>4. result' \in [Clients -> Results]
    BY <1>1, <2>3 DEF TypeOK, Start
  <2>5. QED
    BY <1>1, <2>1, <2>2, <2>3, <2>4 DEF TypeOK, Start
<1>2. ASSUME NEW c \in Clients, LockOwnPage(c) PROVE TypeOK'
  <2>1. "p_write" \in Labels
    BY DEF Labels, PutSteps, FreeSteps
  <2>2. /\ pc' \in [Clients -> Labels] /\ call' \in [Clients -> Calls \cup {NoCall}]
        /\ done' \in [Clients -> Nat] /\ result' \in [Clients -> Results]
    BY <1>2, <2>1, ContinueTypes DEF LockOwnPage
  <2>3. v_page[c] \in Pages
    BY DEF TypeOK
  <2>4. lock' \in [Pages -> Byte]
    BY <1>2, LockTypes DEF TypeOK, LockOwnPage
  <2>5. QED
    BY <1>2, <2>2, <2>3, <2>4 DEF TypeOK, LockOwnPage
<1>3. ASSUME NEW c \in Clients, PutWrite(c) PROVE TypeOK'
  <2>1. PICK s \in Slots :
           /\ data' = [data EXCEPT ![v_page[c]][s] =
                         [key |-> call[c].key, value |-> Value(c)]]
           /\ free' = [free EXCEPT ![v_page[c]] = @ \ {s}]
           /\ loc' = [loc EXCEPT ![c].kv_offset = [page |-> v_page[c], slot |-> s]]
    BY <1>3, Zenon DEF PutWrite
  <2>2. "p_insert" \in Labels
    BY DEF Labels, PutSteps
  <2>3. /\ pc' \in [Clients -> Labels] /\ call' \in [Clients -> Calls \cup {NoCall}]
        /\ done' \in [Clients -> Nat] /\ result' \in [Clients -> Results]
    BY <1>3, <2>2, ContinueTypes DEF PutWrite
  <2>4. v_page[c] \in Pages /\ loc[c] \in Locals
    BY DEF TypeOK
  <2>5. free' \in [Pages -> SUBSET Slots]
    BY <2>1 DEF TypeOK
  <2>6. data' \in [Pages -> [Slots -> Records]]
    <3>1. Value(c) \in Values /\ call[c].key \in Keys
      BY <1>3, ValueTyped DEF PutWrite, Continue, GoTo
    <3>2. [key |-> call[c].key, value |-> Value(c)] \in Records
      BY <3>1 DEF Records
    <3>3. QED
      BY <2>1, <2>4, <3>2 DEF TypeOK
  <2>7. loc' \in [Clients -> Locals]
    <3>1. [page |-> v_page[c], slot |-> s] \in Offsets
      BY <2>4 DEF Offsets
    <3>2. [loc[c] EXCEPT !.kv_offset = [page |-> v_page[c], slot |-> s]] \in Locals
      BY <2>4, <3>1, LocalsUpdate
    <3>3. QED
      BY <2>1, <3>2 DEF TypeOK
  <2>8. QED
    BY <1>3, <2>3, <2>5, <2>6, <2>7 DEF TypeOK, PutWrite
<1>4. ASSUME NEW c \in Clients, PageFull(c) PROVE TypeOK'
  <2>1. "p_next" \in Labels
    BY DEF Labels, PutSteps, FreeSteps
  <2>2. /\ pc' \in [Clients -> Labels] /\ call' \in [Clients -> Calls \cup {NoCall}]
        /\ done' \in [Clients -> Nat] /\ result' \in [Clients -> Results]
    BY <1>4, <2>1, ContinueTypes DEF PageFull
  <2>3. v_page[c] \in Pages
    BY DEF TypeOK
  <2>4. lock' \in [Pages -> Byte]
    BY <1>4, LockTypes DEF TypeOK, PageFull
  <2>5. QED
    BY <1>4, <2>2, <2>3, <2>4 DEF TypeOK, PageFull
<1>5. ASSUME NEW c \in Clients, TakeNextPage(c) PROVE TypeOK'
  <2>1. "p_lock" \in Labels
    BY DEF Labels, PutSteps, FreeSteps
  <2>2. /\ pc' \in [Clients -> Labels] /\ call' \in [Clients -> Calls \cup {NoCall}]
        /\ done' \in [Clients -> Nat] /\ result' \in [Clients -> Results]
    BY <1>5, <2>1, ContinueTypes DEF TakeNextPage
  <2>3. <<c, v_page[c][2] + 1>> \in Pages
    BY <1>5, StoreAssumption DEF TypeOK, TakeNextPage, Pages
  <2>4. InitByte \in Byte
    BY DEF InitByte, Byte, USED_BIT
  <2>5. QED
    BY <1>5, <2>2, <2>3, <2>4 DEF TypeOK, TakeNextPage
<1>6. ASSUME NEW c \in Clients, InsertIndex(c) PROVE TypeOK'
  <2>1. (IF Replaced(call[c].key) = NONE THEN "p_unlock" ELSE "f_start") \in Labels
    BY DEF Labels, PutSteps, FreeSteps
  <2>2. /\ pc' \in [Clients -> Labels] /\ call' \in [Clients -> Calls \cup {NoCall}]
        /\ done' \in [Clients -> Nat] /\ result' \in [Clients -> Results]
    BY <1>6, <2>1, ContinueTypes DEF InsertIndex
  <2>3. call[c].key \in Keys
    BY <1>6, ValueTyped DEF InsertIndex, Continue, GoTo
  <2>4. Replaced(call[c].key) \in Offsets \cup {NONE}
    BY <2>3 DEF TypeOK, Replaced
  <2>5. Offset(c) \in Offsets
    BY <1>6 DEF LocInv, LocFits, WithOffset, InsertIndex, Continue, GoTo
  <2>6. index' \in [Keys -> Offsets \cup {NONE}]
    BY <1>6, <2>5 DEF TypeOK, InsertIndex, Insert
  <2>7. loc[c] \in Locals
    BY DEF TypeOK
  <2>8. [loc[c] EXCEPT !.kv_offset = Replaced(call[c].key), !.is_new = (Replaced(call[c].key) = NONE)] \in Locals
    BY <2>4, <2>7, LocalsUpdate
  <2>9. loc' \in [Clients -> Locals]
    BY <1>6, <2>8 DEF TypeOK, InsertIndex
  <2>10. QED
    BY <1>6, <2>2, <2>3, <2>4, <2>5, <2>6, <2>7, <2>9 DEF TypeOK, InsertIndex
<1>7. ASSUME NEW c \in Clients, UnlockOwnPage(c) PROVE TypeOK'
  <2>1. v_page[c] \in Pages
    BY DEF TypeOK
  <2>2. lock' \in [Pages -> Byte]
    BY <1>7, LockTypes DEF TypeOK, UnlockOwnPage
  <2>3. loc[c] \in Locals
    BY DEF TypeOK
  <2>4. loc[c].is_new \in BOOLEAN
    BY <2>3, LocalsFields
  <2>5. /\ pc' \in [Clients -> Labels] /\ call' \in [Clients -> Calls \cup {NoCall}]
        /\ done' \in [Clients -> Nat] /\ result' \in [Clients -> Results]
        /\ loc' \in [Clients -> Locals]
    BY <1>7, <2>4, ReturnTypes DEF UnlockOwnPage
  <2>6. QED
    BY <1>7, <2>1, <2>2, <2>3, <2>4, <2>5 DEF TypeOK, UnlockOwnPage, CountPut
<1>8. ASSUME NEW c \in Clients, FreeOnOwnPage(c) PROVE TypeOK'
  <2>1. "f_end" \in Labels
    BY DEF Labels, PutSteps, FreeSteps
  <2>2. /\ pc' \in [Clients -> Labels] /\ call' \in [Clients -> Calls \cup {NoCall}]
        /\ done' \in [Clients -> Nat] /\ result' \in [Clients -> Results]
    BY <1>8, <2>1, ContinueTypes DEF FreeOnOwnPage
  <2>3. v_page[c] \in Pages
    BY DEF TypeOK
  <2>4. Offset(c) \in Offsets /\ Offset(c).page \in Pages /\ Offset(c).slot \in Slots
    BY <1>8, OffsetFields DEF LocInv, LocFits, WithOffset, FreeSteps, FreeOnOwnPage, Continue, GoTo, Return
  <2>5. free' \in [Pages -> SUBSET Slots]
    BY <1>8, <2>3, <2>4, FreeTypes DEF TypeOK, FreeOnOwnPage
  <2>6. QED
    BY <1>8, <2>2, <2>3, <2>4, <2>5 DEF TypeOK, FreeOnOwnPage
<1>9. ASSUME NEW c \in Clients, RemoveOnOwnPage(c) PROVE TypeOK'
  <2>1. "r_store" \in Labels
    BY DEF Labels, PutSteps, FreeSteps
  <2>2. /\ pc' \in [Clients -> Labels] /\ call' \in [Clients -> Calls \cup {NoCall}]
        /\ done' \in [Clients -> Nat] /\ result' \in [Clients -> Results]
    BY <1>9, <2>1, ContinueTypes DEF RemoveOnOwnPage
  <2>3. v_page[c] \in Pages
    BY DEF TypeOK
  <2>4. loc[c] \in Locals
    BY DEF TypeOK
  <2>5. free[v_page[c]] \in SUBSET Slots
    BY <2>3 DEF TypeOK
  <2>6. [loc[c] EXCEPT !.bits = free[v_page[c]]] \in Locals
    BY <2>4, <2>5, LocalsUpdate
  <2>7. loc' \in [Clients -> Locals]
    BY <1>9, <2>6 DEF TypeOK, RemoveOnOwnPage
  <2>8. QED
    BY <1>9, <2>2, <2>3, <2>4, <2>5, <2>7 DEF TypeOK, RemoveOnOwnPage
<1>10. ASSUME NEW c \in Clients, RemoveStoreBits(c) PROVE TypeOK'
  <2>1. "f_none" \in Labels
    BY DEF Labels, PutSteps, FreeSteps
  <2>2. /\ pc' \in [Clients -> Labels] /\ call' \in [Clients -> Calls \cup {NoCall}]
        /\ done' \in [Clients -> Nat] /\ result' \in [Clients -> Results]
    BY <1>10, <2>1, ContinueTypes DEF RemoveStoreBits
  <2>3. Offset(c) \in Offsets /\ Offset(c).page \in Pages /\ Offset(c).slot \in Slots
    BY <1>10, OffsetFields DEF LocInv, LocFits, WithOffset, FreeSteps, RemoveStoreBits, Continue, GoTo, Return
  <2>4. loc[c] \in Locals
    BY DEF TypeOK
  <2>5. loc[c].bits \in SUBSET Slots
    BY <2>4, LocalsFields
  <2>6. free' \in [Pages -> SUBSET Slots]
    BY <1>10, <2>3, <2>5 DEF TypeOK, RemoveStoreBits
  <2>7. QED
    BY <1>10, <2>2, <2>3, <2>4, <2>5, <2>6 DEF TypeOK, RemoveStoreBits
<1>11. ASSUME NEW c \in Clients, FreeElsewhere(c) PROVE TypeOK'
  <2>1. "f_cas" \in Labels
    BY DEF Labels, PutSteps, FreeSteps
  <2>2. /\ pc' \in [Clients -> Labels] /\ call' \in [Clients -> Calls \cup {NoCall}]
        /\ done' \in [Clients -> Nat] /\ result' \in [Clients -> Results]
    BY <1>11, <2>1, ContinueTypes DEF FreeElsewhere
  <2>3. Offset(c) \in Offsets /\ Offset(c).page \in Pages /\ Offset(c).slot \in Slots
    BY <1>11, OffsetFields DEF LocInv, LocFits, WithOffset, FreeSteps, FreeElsewhere, Continue, GoTo, Return
  <2>4. loc[c] \in Locals
    BY DEF TypeOK
  <2>5. Unlocked(lock[Offset(c).page]) \in Byte
    BY <2>3, ByteOperators DEF TypeOK
  <2>6. [loc[c] EXCEPT !.lock_value = Unlocked(lock[Offset(c).page])] \in Locals
    BY <2>4, <2>5, LocalsUpdate
  <2>7. loc' \in [Clients -> Locals]
    BY <1>11, <2>6 DEF TypeOK, FreeElsewhere
  <2>8. QED
    BY <1>11, <2>2, <2>3, <2>4, <2>5, <2>7 DEF TypeOK, FreeElsewhere
<1>12. ASSUME NEW c \in Clients, FreeLock(c) PROVE TypeOK'
  <2>1. AfterInvalidate(c, AfterFreeLocked(c)) \in Labels
    BY DEF Labels, PutSteps, FreeSteps, AfterInvalidate, AfterFreeLocked
  <2>2. /\ pc' \in [Clients -> Labels] /\ call' \in [Clients -> Calls \cup {NoCall}]
        /\ done' \in [Clients -> Nat] /\ result' \in [Clients -> Results]
    BY <1>12, <2>1, ContinueTypes DEF FreeLock
  <2>3. Offset(c) \in Offsets /\ Offset(c).page \in Pages /\ Offset(c).slot \in Slots
    BY <1>12, OffsetFields DEF LocInv, LocFits, WithOffset, FreeSteps, FreeLock, Continue, GoTo, Return
  <2>4. ~IsLocked(lock[Offset(c).page])
    BY <1>12 DEF LocInv, LocFits, FreeLock, Continue, GoTo
  <2>5. lock' \in [Pages -> Byte]
    BY <1>12, <2>3, <2>4, LockTypes DEF FreeLock
  <2>6. free' \in [Pages -> SUBSET Slots]
    BY <1>12, <2>3, FreeTypes DEF TypeOK, FreeLock
  <2>7. loc[c] \in Locals
    BY DEF TypeOK
  <2>8. [loc[c] EXCEPT !.has_lock = TRUE, !.retries = 0] \in Locals
    BY <2>7, LocalsUpdate
  <2>9. loc' \in [Clients -> Locals]
    BY <1>12, <2>8 DEF TypeOK, FreeLock
  <2>10. QED
    BY <1>12, <2>2, <2>3, <2>4, <2>5, <2>6, <2>7, <2>9 DEF TypeOK, FreeLock
<1>13. ASSUME NEW c \in Clients, FreeRetry(c) PROVE TypeOK'
  <2>1. (IF Stuck(loc[c].retries + 1) THEN "f_queue" ELSE "f_cas") \in Labels
    BY DEF Labels, PutSteps, FreeSteps
  <2>2. /\ pc' \in [Clients -> Labels] /\ call' \in [Clients -> Calls \cup {NoCall}]
        /\ done' \in [Clients -> Nat] /\ result' \in [Clients -> Results]
    BY <1>13, <2>1, ContinueTypes DEF FreeRetry
  <2>3. Offset(c) \in Offsets /\ Offset(c).page \in Pages /\ Offset(c).slot \in Slots
    BY <1>13, OffsetFields DEF LocInv, LocFits, WithOffset, FreeSteps, FreeRetry, Continue, GoTo, Return
  <2>4. loc[c] \in Locals
    BY DEF TypeOK
  <2>5. Unlocked(lock[Offset(c).page]) \in Byte
    BY <2>3, ByteOperators DEF TypeOK
  <2>6. (loc[c].retries + 1) % NumRetries \in Nat
    BY <2>4, LocalsFields, StoreAssumption
  <2>7. [loc[c] EXCEPT !.lock_value = Unlocked(lock[Offset(c).page]), !.retries = (loc[c].retries + 1) % NumRetries] \in Locals
    BY <2>4, <2>5, <2>6, LocalsUpdate
  <2>8. loc' \in [Clients -> Locals]
    BY <1>13, <2>7 DEF TypeOK, FreeRetry
  <2>9. QED
    BY <1>13, <2>2, <2>3, <2>4, <2>5, <2>6, <2>8 DEF TypeOK, FreeRetry
<1>14. ASSUME NEW c \in Clients, AcquireQueue(c) PROVE TypeOK'
  <2>1. \A from, to : LockQueue(c, from, to) /\ to \in Labels => TypeOK'
    <3>1. ASSUME NEW from, NEW to \in Labels, LockQueue(c, from, to) PROVE TypeOK'
      <4>1. /\ pc' \in [Clients -> Labels] /\ call' \in [Clients -> Calls \cup {NoCall}]
            /\ done' \in [Clients -> Nat] /\ result' \in [Clients -> Results]
        BY <3>1, ContinueTypes DEF LockQueue
      <4>2. QED
        BY <3>1, <4>1 DEF TypeOK, LockQueue
    <3>2. QED
      BY <3>1
  <2>2. "f_scan" \in Labels /\ "f_erase" \in Labels
    BY DEF Labels, FreeSteps
  <2>3. QED
    BY <1>14, <2>1, <2>2 DEF AcquireQueue
<1>15. ASSUME NEW c \in Clients, ScanReadBits(c) PROVE TypeOK'
  <2>1. "f_clear" \in Labels
    BY DEF Labels, PutSteps, FreeSteps
  <2>2. /\ pc' \in [Clients -> Labels] /\ call' \in [Clients -> Calls \cup {NoCall}]
        /\ done' \in [Clients -> Nat] /\ result' \in [Clients -> Results]
    BY <1>15, <2>1, ContinueTypes DEF ScanReadBits
  <2>3. v_page[c] \in Pages
    BY DEF TypeOK
  <2>4. loc[c] \in Locals
    BY DEF TypeOK
  <2>5. free[v_page[c]] \in SUBSET Slots
    BY <2>3 DEF TypeOK
  <2>6. [loc[c] EXCEPT !.bits = free[v_page[c]]] \in Locals
    BY <2>4, <2>5, LocalsUpdate
  <2>7. loc' \in [Clients -> Locals]
    BY <1>15, <2>6 DEF TypeOK, ScanReadBits
  <2>8. QED
    BY <1>15, <2>2, <2>3, <2>4, <2>5, <2>7 DEF TypeOK, ScanReadBits
<1>16. ASSUME NEW c \in Clients, ScanQueue(c) PROVE TypeOK'
  <2> DEFINE queue == IF loc[c].inserted THEN deadlock_offsets
                      ELSE [deadlock_offsets EXCEPT ![Offset(c)] = @ + 1]
             own == {s \in Slots : queue[[page |-> v_page[c], slot |-> s]] > 0}
             found == queue[Offset(c)] > 0
             bits == IF Is(c, "remove") /\ own # {} THEN loc[c].bits ELSE free[v_page[c]]
  <2>1. v_page[c] \in Pages /\ loc[c] \in Locals
    BY DEF TypeOK
  <2>2. queue \in [Offsets -> Nat]
    <3>1. Offset(c) \in Offsets
      BY <1>16 DEF LocInv, LocFits, WithOffset, FreeSteps, ScanQueue, Continue, GoTo
    <3>2. deadlock_offsets[Offset(c)] + 1 \in Nat
      BY <3>1 DEF TypeOK
    <3>3. QED
      BY <3>1, <3>2 DEF TypeOK
  <2>3. PICK from, to \in Labels : Continue(c, from, to)
    <3>1. (IF found THEN "f_cas" ELSE AfterInvalidate(c, "f_end")) \in Labels
      BY DEF Labels, FreeSteps, AfterInvalidate
    <3>2. (IF Is(c, "remove") THEN "f_clear" ELSE "f_scan") \in Labels
      BY DEF Labels, FreeSteps
    <3>3. QED
      BY <1>16, <3>1, <3>2 DEF ScanQueue
  <2>4. /\ pc' \in [Clients -> Labels] /\ call' \in [Clients -> Calls \cup {NoCall}]
        /\ done' \in [Clients -> Nat] /\ result' \in [Clients -> Results]
    BY <2>3, ContinueTypes
  <2>5. deadlock_offsets' \in [Offsets -> Nat]
    <3> HIDE DEF queue
    <3>1. deadlock_offsets' = [o \in Offsets |-> IF OnOwnPage(c, o) THEN 0 ELSE queue[o]]
      BY <1>16 DEF ScanQueue, queue
    <3>2. QED
      BY <2>2, <3>1
  <2>6. bits \in SUBSET Slots
    BY <2>1, LocalsFields DEF TypeOK
  <2>7. free' \in [Pages -> SUBSET Slots]
    <3> HIDE DEF queue, own, bits
    <3>1. free' = Invalidate([free EXCEPT ![v_page[c]] = bits], v_page[c], own)
      BY <1>16 DEF ScanQueue, bits, own, queue
    <3>2. own \in SUBSET Slots
      BY DEF own
    <3>3. [free EXCEPT ![v_page[c]] = bits] \in [Pages -> SUBSET Slots]
      BY <2>6 DEF TypeOK
    <3>4. QED
      BY <2>1, <3>1, <3>2, <3>3, FreeTypes
  <2>8. loc' \in [Clients -> Locals]
    <3>1. found \in BOOLEAN
      OBVIOUS
    <3> HIDE DEF found
    <3>2. [loc[c] EXCEPT !.inserted = TRUE, !.encountered = found] \in Locals
      BY <2>1, <3>1, LocalsUpdate
    <3>3. loc' = [loc EXCEPT ![c].inserted = TRUE, ![c].encountered = found]
      BY <1>16, Zenon DEF ScanQueue, found, queue
    <3>4. QED
      BY <3>2, <3>3 DEF TypeOK
  <2>9. QED
    BY <1>16, <2>4, <2>5, <2>7, <2>8 DEF TypeOK, ScanQueue
<1>17. ASSUME NEW c \in Clients, ClearIndex(c) PROVE TypeOK'
  <2>1. (IF loc[c].has_lock THEN AfterFreeLocked(c) ELSE "f_end") \in Labels
    BY DEF Labels, PutSteps, FreeSteps, AfterInvalidate, AfterFreeLocked
  <2>2. /\ pc' \in [Clients -> Labels] /\ call' \in [Clients -> Calls \cup {NoCall}]
        /\ done' \in [Clients -> Nat] /\ result' \in [Clients -> Results]
    BY <1>17, <2>1, ContinueTypes DEF ClearIndex
  <2>3. index' \in [Keys -> Offsets \cup {NONE}]
    BY <1>17 DEF TypeOK, ClearIndex, Insert
  <2>4. QED
    BY <1>17, <2>2, <2>3 DEF TypeOK, ClearIndex
<1>18. ASSUME NEW c \in Clients, Dequeue(c) PROVE TypeOK'
  <2>1. "f_unlock" \in Labels
    BY DEF Labels, PutSteps, FreeSteps
  <2>2. /\ pc' \in [Clients -> Labels] /\ call' \in [Clients -> Calls \cup {NoCall}]
        /\ done' \in [Clients -> Nat] /\ result' \in [Clients -> Results]
    BY <1>18, <2>1, ContinueTypes DEF Dequeue
  <2>3. Offset(c) \in Offsets /\ Offset(c).page \in Pages /\ Offset(c).slot \in Slots
    BY <1>18, OffsetFields DEF LocInv, LocFits, WithOffset, FreeSteps, Dequeue, Continue, GoTo, Return
  <2>4. deadlock_offsets' \in [Offsets -> Nat]
    <3> DEFINE n == deadlock_offsets[Offset(c)]
               m == IF n > 0 THEN n - 1 ELSE 0
    <3>1. n \in Nat
      BY <2>3 DEF TypeOK
    <3>2. m \in Nat
      BY <3>1
    <3>3. deadlock_offsets' = [deadlock_offsets EXCEPT ![Offset(c)] = m]
      BY <1>18 DEF Dequeue
    <3> HIDE DEF m, n
    <3>4. QED
      BY <3>2, <3>3 DEF TypeOK
  <2>5. QED
    BY <1>18, <2>2, <2>3, <2>4 DEF TypeOK, Dequeue
<1>19. ASSUME NEW c \in Clients, FreeUnlock(c) PROVE TypeOK'
  <2>1. "f_end" \in Labels
    BY DEF Labels, PutSteps, FreeSteps
  <2>2. /\ pc' \in [Clients -> Labels] /\ call' \in [Clients -> Calls \cup {NoCall}]
        /\ done' \in [Clients -> Nat] /\ result' \in [Clients -> Results]
    BY <1>19, <2>1, ContinueTypes DEF FreeUnlock
  <2>3. Offset(c) \in Offsets /\ Offset(c).page \in Pages /\ Offset(c).slot \in Slots
    BY <1>19, OffsetFields DEF LocInv, LocFits, WithOffset, FreeSteps, FreeUnlock, Continue, GoTo, Return
  <2>4. lock' \in [Pages -> Byte]
    BY <1>19, <2>3, LockTypes DEF FreeUnlock
  <2>5. QED
    BY <1>19, <2>2, <2>3, <2>4 DEF TypeOK, FreeUnlock
<1>20. ASSUME NEW c \in Clients, FreeEnd(c) PROVE TypeOK'
  <2>1. /\ pc' \in [Clients -> Labels] /\ call' \in [Clients -> Calls \cup {NoCall}]
        /\ done' \in [Clients -> Nat] /\ result' \in [Clients -> Results]
        /\ loc' \in [Clients -> Locals]
    <3>1. CASE Continue(c, "f_end", "p_unlock") /\ UNCHANGED loc
      <4>1. "p_unlock" \in Labels
        BY DEF Labels, PutSteps
      <4>2. QED
        BY <3>1, <4>1, ContinueTypes DEF TypeOK
    <3>2. CASE Return(c, "f_end", TRUE, NONE)
      BY <3>2, ReturnTypes
    <3>3. QED
      BY <1>20, <3>1, <3>2 DEF FreeEnd
  <2>2. QED
    BY <1>20, <2>1 DEF TypeOK, FreeEnd
<1>21. ASSUME NEW c \in Clients, NEW from, NEW to \in Labels, Lookup(c, from, to),
             from # "idle"
      PROVE  TypeOK'
  <2>1. CASE index[call[c].key] = NONE /\ Return(c, from, FALSE, NONE)
    <3>1. /\ pc' \in [Clients -> Labels] /\ call' \in [Clients -> Calls \cup {NoCall}]
          /\ done' \in [Clients -> Nat] /\ result' \in [Clients -> Results]
          /\ loc' \in [Clients -> Locals]
      BY <2>1, ReturnTypes
    <3>2. QED
      BY <1>21, <3>1 DEF TypeOK, Lookup
  <2>2. CASE /\ index[call[c].key] # NONE
             /\ Continue(c, from, to)
             /\ loc' = [loc EXCEPT ![c].kv_offset = index[call[c].key]]
    <3>1. /\ pc' \in [Clients -> Labels] /\ call' \in [Clients -> Calls \cup {NoCall}]
          /\ done' \in [Clients -> Nat] /\ result' \in [Clients -> Results]
      BY <1>21, <2>2, ContinueTypes
    <3>2. call[c].key \in Keys
      BY <1>21, ValueTyped DEF Lookup
    <3>3. [loc[c] EXCEPT !.kv_offset = index[call[c].key]] \in Locals
      BY <3>2, LocalsUpdate DEF TypeOK
    <3>4. loc' \in [Clients -> Locals]
      BY <2>2, <3>3 DEF TypeOK
    <3>5. QED
      BY <1>21, <3>1, <3>4 DEF TypeOK, Lookup
  <2>3. QED
    BY <1>21, <2>1, <2>2 DEF Lookup
<1>22. ASSUME NEW c \in Clients, GetVersion(c) PROVE TypeOK'
  <2>1. (IF IsLocked(lock[Offset(c).page]) THEN "g_get" ELSE "g_read") \in Labels
    BY DEF Labels, PutSteps, FreeSteps
  <2>2. /\ pc' \in [Clients -> Labels] /\ call' \in [Clients -> Calls \cup {NoCall}]
        /\ done' \in [Clients -> Nat] /\ result' \in [Clients -> Results]
    BY <1>22, <2>1, ContinueTypes DEF GetVersion
  <2>3. Offset(c) \in Offsets /\ Offset(c).page \in Pages /\ Offset(c).slot \in Slots
    BY <1>22, OffsetFields DEF LocInv, LocFits, WithOffset, FreeSteps, GetVersion, Continue, GoTo, Return
  <2>4. loc[c] \in Locals
    BY DEF TypeOK
  <2>5. lock[Offset(c).page] \in Byte
    BY <2>3 DEF TypeOK
  <2>6. [loc[c] EXCEPT !.lock_value = lock[Offset(c).page]] \in Locals
    BY <2>4, <2>5, LocalsUpdate
  <2>7. loc' \in [Clients -> Locals]
    BY <1>22, <2>6 DEF TypeOK, GetVersion
  <2>8. QED
    BY <1>22, <2>2, <2>3, <2>4, <2>5, <2>7 DEF TypeOK, GetVersion
<1>23. ASSUME NEW c \in Clients, GetRead(c) PROVE TypeOK'
  <2>1. Offset(c) \in Offsets /\ Offset(c).page \in Pages /\ Offset(c).slot \in Slots
    BY <1>23, OffsetFields DEF LocInv, LocFits, WithOffset, GetRead
  <2>2. data[Offset(c).page][Offset(c).slot].value \in Values \cup {NONE}
    BY <2>1 DEF TypeOK, Records
  <2>3. /\ pc' \in [Clients -> Labels] /\ call' \in [Clients -> Calls \cup {NoCall}]
        /\ done' \in [Clients -> Nat] /\ result' \in [Clients -> Results]
        /\ loc' \in [Clients -> Locals]
    <3>1. CASE Return(c, "g_read", TRUE, data[Offset(c).page][Offset(c).slot].value)
      BY <2>2, <3>1, ReturnTypes
    <3>2. CASE Continue(c, "g_read", "g_get") /\ UNCHANGED loc
      <4>1. "g_get" \in Labels
        BY DEF Labels
      <4>2. QED
        BY <3>2, <4>1, ContinueTypes DEF TypeOK
    <3>3. QED
      BY <1>23, <3>1, <3>2 DEF GetRead
  <2>4. QED
    BY <1>23, <2>3 DEF TypeOK, GetRead
<1>24. ASSUME NEW c \in Clients, UpdateLock(c) PROVE TypeOK'
  <2>1. Offset(c) \in Offsets /\ Offset(c).page \in Pages /\ Offset(c).slot \in Slots
    BY <1>24, OffsetFields DEF LocInv, LocFits, WithOffset, UpdateLock
  <2>2. "u_write" \in Labels /\ "u_get" \in Labels
    BY DEF Labels
  <2>3. /\ pc' \in [Clients -> Labels] /\ call' \in [Clients -> Calls \cup {NoCall}]
        /\ done' \in [Clients -> Nat] /\ result' \in [Clients -> Results]
    BY <1>24, <2>2, ContinueTypes DEF UpdateLock
  <2>4. lock' \in [Pages -> Byte]
    BY <1>24, <2>1, LockTypes, SMTT(30) DEF TypeOK, UpdateLock
  <2>5. QED
    BY <1>24, <2>3, <2>4 DEF TypeOK, UpdateLock
<1>25. ASSUME NEW c \in Clients, UpdateWrite(c) PROVE TypeOK'
  <2>1. Offset(c) \in Offsets /\ Offset(c).page \in Pages /\ Offset(c).slot \in Slots
    BY <1>25, OffsetFields DEF LocInv, LocFits, WithOffset, UpdateWrite, Continue, GoTo
  <2>2. "u_unlock" \in Labels
    BY DEF Labels
  <2>3. /\ pc' \in [Clients -> Labels] /\ call' \in [Clients -> Calls \cup {NoCall}]
        /\ done' \in [Clients -> Nat] /\ result' \in [Clients -> Results]
    BY <1>25, <2>2, ContinueTypes DEF UpdateWrite
  <2>4. Value(c) \in Values
    BY <1>25, ValueTyped DEF UpdateWrite, Continue, GoTo
  <2>5. [RecordAt(Offset(c)) EXCEPT !.value = Value(c)] \in Records
    <3>1. RecordAt(Offset(c)) \in Records
      BY <2>1 DEF TypeOK, RecordAt
    <3>2. QED
      BY <2>4, <3>1, Zenon DEF Records
  <2>6. data' \in [Pages -> [Slots -> Records]]
    BY <1>25, <2>1, <2>5 DEF TypeOK, UpdateWrite, RecordAt
  <2>7. QED
    BY <1>25, <2>3, <2>6 DEF TypeOK, UpdateWrite
<1>26. ASSUME NEW c \in Clients, UpdateUnlock(c) PROVE TypeOK'
  <2>1. Offset(c) \in Offsets /\ Offset(c).page \in Pages /\ Offset(c).slot \in Slots
    BY <1>26, OffsetFields DEF LocInv, LocFits, WithOffset, UpdateUnlock, Return, GoTo
  <2>2. /\ pc' \in [Clients -> Labels] /\ call' \in [Clients -> Calls \cup {NoCall}]
        /\ done' \in [Clients -> Nat] /\ result' \in [Clients -> Results]
        /\ loc' \in [Clients -> Locals]
    BY <1>26, ReturnTypes DEF UpdateUnlock
  <2>3. lock' \in [Pages -> Byte]
    BY <1>26, <2>1, LockTypes DEF UpdateUnlock
  <2>4. QED
    BY <1>26, <2>2, <2>3 DEF TypeOK, UpdateUnlock
<1>27. ASSUME UNCHANGED vars PROVE TypeOK'
  BY <1>27 DEF TypeOK, vars
<1>28. /\ "g_version" \in Labels /\ "u_lock" \in Labels /\ "f_start" \in Labels
       /\ "g_get" # "idle" /\ "u_get" # "idle" /\ "r_get" # "idle"
  BY DEF Labels, FreeSteps
<1>29. QED
  BY <1>1, <1>2, <1>3, <1>4, <1>5, <1>6, <1>7, <1>8, <1>9, <1>10, <1>11, <1>12, <1>13, <1>14, <1>15, <1>16, <1>17, <1>18, <1>19, <1>20, <1>21, <1>22, <1>23, <1>24, <1>25, <1>26, <1>27, <1>28
     DEF Next, Step, Put, FreeOccupiedSlot, Get, Update, RemoveKey, Finished

-----------------------------------------------------------------------------
(* A client's step leaves the others where they are. *)
LEMMA OthersStay ==
    ASSUME TypeOK, NEW c \in Clients, Start(c) \/ Step(c), NEW d \in Clients \ {c}
    PROVE  /\ pc'[d] = pc[d] /\ call'[d] = call[d]
           /\ loc'[d] = loc[d] /\ v_page'[d] = v_page[d]
<1>1. CASE Start(c)
  BY <1>1 DEF TypeOK, Start, Continue, Return, GoTo
<1>2. CASE LockOwnPage(c)
  BY <1>2 DEF TypeOK, LockOwnPage, Continue, Return, GoTo
<1>3. CASE PutWrite(c)
  BY <1>3 DEF TypeOK, PutWrite, Continue, Return, GoTo
<1>4. CASE PageFull(c)
  BY <1>4 DEF TypeOK, PageFull, Continue, Return, GoTo
<1>5. CASE TakeNextPage(c)
  BY <1>5 DEF TypeOK, TakeNextPage, Continue, Return, GoTo
<1>6. CASE InsertIndex(c)
  BY <1>6 DEF TypeOK, InsertIndex, Continue, Return, GoTo
<1>7. CASE UnlockOwnPage(c)
  BY <1>7 DEF TypeOK, UnlockOwnPage, Continue, Return, GoTo
<1>8. CASE FreeOnOwnPage(c)
  BY <1>8 DEF TypeOK, FreeOnOwnPage, Continue, Return, GoTo
<1>9. CASE RemoveOnOwnPage(c)
  BY <1>9 DEF TypeOK, RemoveOnOwnPage, Continue, Return, GoTo
<1>10. CASE RemoveStoreBits(c)
  BY <1>10 DEF TypeOK, RemoveStoreBits, Continue, Return, GoTo
<1>11. CASE FreeElsewhere(c)
  BY <1>11 DEF TypeOK, FreeElsewhere, Continue, Return, GoTo
<1>12. CASE FreeLock(c)
  BY <1>12 DEF TypeOK, FreeLock, Continue, Return, GoTo
<1>13. CASE FreeRetry(c)
  BY <1>13 DEF TypeOK, FreeRetry, Continue, Return, GoTo
<1>14. CASE LockQueue(c, "f_queue", "f_scan")
  BY <1>14 DEF TypeOK, LockQueue, Continue, Return, GoTo
<1>15. CASE LockQueue(c, "f_dequeue", "f_erase")
  BY <1>15 DEF TypeOK, LockQueue, Continue, Return, GoTo
<1>16. CASE ScanReadBits(c)
  BY <1>16 DEF TypeOK, ScanReadBits, Continue, Return, GoTo
<1>17. CASE ScanQueue(c)
  BY <1>17 DEF TypeOK, ScanQueue, Continue, Return, GoTo
<1>18. CASE ClearIndex(c)
  BY <1>18 DEF TypeOK, ClearIndex, Continue, Return, GoTo
<1>19. CASE Dequeue(c)
  BY <1>19 DEF TypeOK, Dequeue, Continue, Return, GoTo
<1>20. CASE FreeUnlock(c)
  BY <1>20 DEF TypeOK, FreeUnlock, Continue, Return, GoTo
<1>21. CASE FreeEnd(c)
  BY <1>21 DEF TypeOK, FreeEnd, Continue, Return, GoTo
<1>22. CASE Lookup(c, "g_get", "g_version")
  BY <1>22 DEF TypeOK, Lookup, Continue, Return, GoTo
<1>23. CASE Lookup(c, "u_get", "u_lock")
  BY <1>23 DEF TypeOK, Lookup, Continue, Return, GoTo
<1>24. CASE Lookup(c, "r_get", "f_start")
  BY <1>24 DEF TypeOK, Lookup, Continue, Return, GoTo
<1>25. CASE GetVersion(c)
  BY <1>25 DEF TypeOK, GetVersion, Continue, Return, GoTo
<1>26. CASE GetRead(c)
  BY <1>26 DEF TypeOK, GetRead, Continue, Return, GoTo
<1>27. CASE UpdateLock(c)
  BY <1>27 DEF TypeOK, UpdateLock, Continue, Return, GoTo
<1>28. CASE UpdateWrite(c)
  BY <1>28 DEF TypeOK, UpdateWrite, Continue, Return, GoTo
<1>29. CASE UpdateUnlock(c)
  BY <1>29 DEF TypeOK, UpdateUnlock, Continue, Return, GoTo
<1>30. QED
  BY <1>1, <1>2, <1>3, <1>4, <1>5, <1>6, <1>7, <1>8, <1>9, <1>10, <1>11, <1>12, <1>13, <1>14, <1>15, <1>16, <1>17, <1>18, <1>19, <1>20, <1>21, <1>22, <1>23, <1>24, <1>25, <1>26, <1>27, <1>28, <1>29
  DEF Step, Put, FreeOccupiedSlot, AcquireQueue, Get, Update, RemoveKey

(* Every step keeps what a client's place in a call says of the call. *)
LEMMA CallStep ==
    ASSUME TypeOK, CallInv, [Next]_vars
    PROVE  CallInv'
<1>1. ASSUME NEW c \in Clients, Start(c) \/ Step(c) PROVE CallInv'
  <2>1. ASSUME NEW d \in Clients \ {c} PROVE CallFits(d)'
    BY <1>1, <2>1, OthersStay DEF CallInv, CallFits, Is
  <2>2. CallFits(c)'
    <3>1. CASE Start(c)
      <4>1. PICK x \in Calls :
               /\ call' = [call EXCEPT ![c] = x]
               /\ pc' = [pc EXCEPT ![c] = FirstStep[x.name]]
        BY <3>1, StartsACall
      <4>2. pc'[c] = FirstStep[x.name] /\ call'[c] = x /\ x.name \in OpNames
        BY <4>1 DEF TypeOK, Calls
      <4>3. QED
        BY <4>1, <4>2 DEF CallFits, Is, FirstStep, OpNames, PutSteps, FreeSteps
    <3>2. CASE LockOwnPage(c)
      BY <3>2 DEF TypeOK, CallInv, CallFits, Is, PutSteps, FreeSteps, LockOwnPage, Continue, Return, GoTo
    <3>3. CASE PutWrite(c)
      BY <3>3 DEF TypeOK, CallInv, CallFits, Is, PutSteps, FreeSteps, PutWrite, Continue, Return, GoTo
    <3>4. CASE PageFull(c)
      BY <3>4 DEF TypeOK, CallInv, CallFits, Is, PutSteps, FreeSteps, PageFull, Continue, Return, GoTo
    <3>5. CASE TakeNextPage(c)
      BY <3>5 DEF TypeOK, CallInv, CallFits, Is, PutSteps, FreeSteps, TakeNextPage, Continue, Return, GoTo
    <3>6. CASE InsertIndex(c)
      BY <3>6 DEF TypeOK, CallInv, CallFits, Is, PutSteps, FreeSteps, InsertIndex, Continue, Return, GoTo
    <3>7. CASE UnlockOwnPage(c)
      BY <3>7 DEF TypeOK, CallInv, CallFits, Is, PutSteps, FreeSteps, UnlockOwnPage, Continue, Return, GoTo
    <3>8. CASE FreeOnOwnPage(c)
      BY <3>8 DEF TypeOK, CallInv, CallFits, Is, PutSteps, FreeSteps, FreeOnOwnPage, Continue, Return, GoTo
    <3>9. CASE RemoveOnOwnPage(c)
      BY <3>9 DEF TypeOK, CallInv, CallFits, Is, PutSteps, FreeSteps, RemoveOnOwnPage, Continue, Return, GoTo
    <3>10. CASE RemoveStoreBits(c)
      BY <3>10 DEF TypeOK, CallInv, CallFits, Is, PutSteps, FreeSteps, RemoveStoreBits, Continue, Return, GoTo
    <3>11. CASE FreeElsewhere(c)
      BY <3>11 DEF TypeOK, CallInv, CallFits, Is, PutSteps, FreeSteps, FreeElsewhere, Continue, Return, GoTo
    <3>12. CASE FreeLock(c)
      BY <3>12 DEF TypeOK, CallInv, CallFits, Is, PutSteps, FreeSteps, FreeLock, Continue, Return, GoTo, AfterInvalidate, AfterFreeLocked
    <3>13. CASE FreeRetry(c)
      BY <3>13 DEF TypeOK, CallInv, CallFits, Is, PutSteps, FreeSteps, FreeRetry, Continue, Return, GoTo
    <3>14. CASE LockQueue(c, "f_queue", "f_scan")
      BY <3>14 DEF TypeOK, CallInv, CallFits, Is, PutSteps, FreeSteps, LockQueue, Continue, Return, GoTo
    <3>15. CASE LockQueue(c, "f_dequeue", "f_erase")
      BY <3>15 DEF TypeOK, CallInv, CallFits, Is, PutSteps, FreeSteps, LockQueue, Continue, Return, GoTo
    <3>16. CASE ScanReadBits(c)
      BY <3>16 DEF TypeOK, CallInv, CallFits, Is, PutSteps, FreeSteps, ScanReadBits, Continue, Return, GoTo
    <3>17. CASE ScanQueue(c)
      BY <3>17 DEF TypeOK, CallInv, CallFits, Is, PutSteps, FreeSteps, ScanQueue, Continue, Return, GoTo, AfterInvalidate
    <3>18. CASE ClearIndex(c)
      BY <3>18 DEF TypeOK, CallInv, CallFits, Is, PutSteps, FreeSteps, ClearIndex, Continue, Return, GoTo, AfterFreeLocked
    <3>19. CASE Dequeue(c)
      BY <3>19 DEF TypeOK, CallInv, CallFits, Is, PutSteps, FreeSteps, Dequeue, Continue, Return, GoTo
    <3>20. CASE FreeUnlock(c)
      BY <3>20 DEF TypeOK, CallInv, CallFits, Is, PutSteps, FreeSteps, FreeUnlock, Continue, Return, GoTo
    <3>21. CASE FreeEnd(c)
      BY <3>21 DEF TypeOK, CallInv, CallFits, Is, PutSteps, FreeSteps, FreeEnd, Continue, Return, GoTo
    <3>22. CASE Lookup(c, "g_get", "g_version")
      BY <3>22 DEF TypeOK, CallInv, CallFits, Is, PutSteps, FreeSteps, Lookup, Continue, Return, GoTo
    <3>23. CASE Lookup(c, "u_get", "u_lock")
      BY <3>23 DEF TypeOK, CallInv, CallFits, Is, PutSteps, FreeSteps, Lookup, Continue, Return, GoTo
    <3>24. CASE Lookup(c, "r_get", "f_start")
      BY <3>24 DEF TypeOK, CallInv, CallFits, Is, PutSteps, FreeSteps, Lookup, Continue, Return, GoTo
    <3>25. CASE GetVersion(c)
      BY <3>25 DEF TypeOK, CallInv, CallFits, Is, PutSteps, FreeSteps, GetVersion, Continue, Return, GoTo
    <3>26. CASE GetRead(c)
      BY <3>26 DEF TypeOK, CallInv, CallFits, Is, PutSteps, FreeSteps, GetRead, Continue, Return, GoTo
    <3>27. CASE UpdateLock(c)
      BY <3>27 DEF TypeOK, CallInv, CallFits, Is, PutSteps, FreeSteps, UpdateLock, Continue, Return, GoTo
    <3>28. CASE UpdateWrite(c)
      BY <3>28 DEF TypeOK, CallInv, CallFits, Is, PutSteps, FreeSteps, UpdateWrite, Continue, Return, GoTo
    <3>29. CASE UpdateUnlock(c)
      BY <3>29 DEF TypeOK, CallInv, CallFits, Is, PutSteps, FreeSteps, UpdateUnlock, Continue, Return, GoTo
    <3>30. QED
      BY <1>1, <3>1, <3>2, <3>3, <3>4, <3>5, <3>6, <3>7, <3>8, <3>9, <3>10, <3>11, <3>12, <3>13, <3>14, <3>15, <3>16, <3>17, <3>18, <3>19, <3>20, <3>21, <3>22, <3>23, <3>24, <3>25, <3>26, <3>27, <3>28, <3>29
      DEF Step, Put, FreeOccupiedSlot, AcquireQueue, Get, Update, RemoveKey
  <2>3. QED
    BY <2>1, <2>2 DEF CallInv
<1>2. CASE UNCHANGED vars
  BY <1>2 DEF CallInv, CallFits, Is, vars
<1>3. QED
  BY <1>1, <1>2 DEF Next, Finished

LEMMA LookupFits ==
    ASSUME TypeOK, CallInv, LocInv, NEW c \in Clients,
           NEW from \in {"g_get", "u_get", "r_get"},
           NEW to \in {"g_version", "u_lock", "f_start"},
           Lookup(c, from, to)
    PROVE  LocFits(c)'
<1>1. pc[c] = from /\ v_page' = v_page /\ loc[c] \in Locals /\ ~loc[c].has_lock
  BY DEF TypeOK, Lookup, LocInv, LocFits
<1>2. CASE Return(c, from, FALSE, NONE)
  <2>1. pc'[c] = "idle" /\ loc'[c] = NoLocals
    BY <1>2 DEF TypeOK, Return, GoTo
  <2>2. QED
    BY <2>1 DEF LocFits, NoLocals, WithOffset, FreeSteps
<1>3. CASE /\ index[call[c].key] # NONE
           /\ Continue(c, from, to)
           /\ loc' = [loc EXCEPT ![c].kv_offset = index[call[c].key]]
  <2>1. call[c].key \in Keys
    BY <1>1, ValueTyped
  <2>2. index[call[c].key] \in Offsets
    BY <1>3, <2>1 DEF TypeOK
  <2>3. Offset(c)' = index[call[c].key] /\ ~loc'[c].has_lock
    BY <1>1, <1>3 DEF TypeOK, Offset, Locals
  <2>4. pc'[c] = to
    BY <1>3 DEF TypeOK, Continue, GoTo
  <2>5. QED
    BY <2>2, <2>3, <2>4 DEF LocFits
<1>4. QED
  BY <1>2, <1>3 DEF Lookup


(* Every step keeps what a client knows of the page it frees a slot on. *)
LEMMA LocStep ==
    ASSUME TypeOK, CallInv, LocInv, [Next]_vars
    PROVE  LocInv'
<1>1. ASSUME NEW c \in Clients, Start(c) \/ Step(c) PROVE LocInv'
  <2>1. ASSUME NEW d \in Clients \ {c} PROVE LocFits(d)'
    BY <1>1, <2>1, OthersStay DEF LocInv, LocFits, Offset
  <2>2. LocFits(c)'
    <3>1. CASE Start(c)
      <4>1. PICK x \in Calls : pc'[c] = FirstStep[x.name]
        BY <3>1, StartsACall DEF TypeOK
      <4>2. loc' = loc /\ v_page' = v_page /\ pc[c] = "idle"
        BY <3>1 DEF Start, GoTo
      <4>3. x.name \in OpNames
        BY DEF Calls
      <4>4. QED
        BY <4>1, <4>2, <4>3 DEF LocInv, LocFits, Offset, FirstStep, OpNames, WithOffset, FreeSteps
    <3>2. CASE LockOwnPage(c)
      BY <3>2 DEF TypeOK, CallInv, CallFits, LocInv, LocFits, Is, Offset, WithOffset, PutSteps, FreeSteps, LockOwnPage, Continue, Return, GoTo, NoLocals, Locals
    <3>3. CASE PutWrite(c)
      <4>1. PICK s \in Slots : loc' = [loc EXCEPT ![c].kv_offset = [page |-> v_page[c], slot |-> s]]
        BY <3>3, Zenon DEF PutWrite
      <4>2. [page |-> v_page[c], slot |-> s] \in Offsets
        BY DEF TypeOK, Offsets
      <4>3. loc[c] \in Locals
        BY DEF TypeOK
      <4>4. Offset(c)' \in Offsets /\ loc'[c].has_lock = loc[c].has_lock
        BY <4>1, <4>2, <4>3 DEF TypeOK, Offset, Locals
      <4>5. QED
        BY <3>3, <4>4 DEF TypeOK, CallInv, CallFits, LocInv, LocFits, Is, Offset, WithOffset, PutSteps, FreeSteps, PutWrite, Continue, Return, GoTo, NoLocals
    <3>4. CASE PageFull(c)
      BY <3>4 DEF TypeOK, CallInv, CallFits, LocInv, LocFits, Is, Offset, WithOffset, PutSteps, FreeSteps, PageFull, Continue, Return, GoTo, NoLocals, Locals
    <3>5. CASE TakeNextPage(c)
      BY <3>5 DEF TypeOK, CallInv, CallFits, LocInv, LocFits, Is, Offset, WithOffset, PutSteps, FreeSteps, TakeNextPage, Continue, Return, GoTo, NoLocals, Locals
    <3>6. CASE InsertIndex(c)
      <4>1. call[c].key \in Keys
        BY <3>6, ValueTyped DEF InsertIndex, Continue, GoTo
      <4>2. index[call[c].key] \in Offsets \cup {NONE} /\ loc[c] \in Locals
        BY <4>1 DEF TypeOK
      <4>3. QED
        BY <3>6, <4>2 DEF TypeOK, CallInv, CallFits, LocInv, LocFits, Is, Offset, WithOffset, PutSteps, FreeSteps, InsertIndex, Continue, Return, GoTo, NoLocals, Locals, Replaced
    <3>7. CASE UnlockOwnPage(c)
      BY <3>7 DEF TypeOK, CallInv, CallFits, LocInv, LocFits, Is, Offset, WithOffset, PutSteps, FreeSteps, UnlockOwnPage, Continue, Return, GoTo, NoLocals, Locals
    <3>8. CASE FreeOnOwnPage(c)
      BY <3>8 DEF TypeOK, CallInv, CallFits, LocInv, LocFits, Is, Offset, WithOffset, PutSteps, FreeSteps, FreeOnOwnPage, Continue, Return, GoTo, NoLocals, Locals
    <3>9. CASE RemoveOnOwnPage(c)
      <4>1. loc'[c] = [loc[c] EXCEPT !.bits = free[v_page[c]]] /\ loc[c] \in Locals
        BY <3>9 DEF TypeOK, RemoveOnOwnPage
      <4>2. /\ loc'[c].kv_offset = loc[c].kv_offset /\ loc'[c].has_lock = loc[c].has_lock
            /\ loc'[c].lock_value = loc[c].lock_value
        BY <4>1, Zenon DEF Locals
      <4>3. pc[c] = "f_start" /\ pc'[c] = "r_store" /\ v_page' = v_page
        BY <3>9 DEF TypeOK, RemoveOnOwnPage, Continue, GoTo
      <4>4. QED
        BY <4>2, <4>3 DEF LocInv, LocFits, Offset, WithOffset, FreeSteps
    <3>10. CASE RemoveStoreBits(c)
      BY <3>10 DEF TypeOK, CallInv, CallFits, LocInv, LocFits, Is, Offset, WithOffset, PutSteps, FreeSteps, RemoveStoreBits, Continue, Return, GoTo, NoLocals, Locals
    <3>11. CASE FreeElsewhere(c)
      <4>1. Offset(c) \in Offsets /\ loc[c] \in Locals
        BY <3>11 DEF TypeOK, CallInv, CallFits, LocInv, LocFits, Is, Offset, WithOffset, PutSteps, FreeSteps, FreeElsewhere, Continue, Return, GoTo, NoLocals
      <4>2. lock[Offset(c).page] \in Byte
        BY <4>1, OffsetFields DEF TypeOK
      <4>3. ~IsLocked(Unlocked(lock[Offset(c).page]))
        BY <4>2, ByteOperators
      <4>4. QED
        BY <3>11, <4>1, <4>3 DEF TypeOK, CallInv, CallFits, LocInv, LocFits, Is, Offset, WithOffset, PutSteps, FreeSteps, FreeElsewhere, Continue, Return, GoTo, NoLocals, OnOwnPage, Locals
    <3>12. CASE FreeLock(c)
      BY <3>12 DEF TypeOK, CallInv, CallFits, LocInv, LocFits, Is, Offset, WithOffset, PutSteps, FreeSteps, FreeLock, Continue, Return, GoTo, NoLocals, AfterInvalidate, AfterFreeLocked, Locals
    <3>13. CASE FreeRetry(c)
      <4>1. Offset(c) \in Offsets /\ loc[c] \in Locals
        BY <3>13 DEF TypeOK, CallInv, CallFits, LocInv, LocFits, Is, Offset, WithOffset, PutSteps, FreeSteps, FreeRetry, Continue, Return, GoTo, NoLocals
      <4>2. lock[Offset(c).page] \in Byte
        BY <4>1, OffsetFields DEF TypeOK
      <4>3. ~IsLocked(Unlocked(lock[Offset(c).page]))
        BY <4>2, ByteOperators
      <4>4. QED
        BY <3>13, <4>1, <4>3 DEF TypeOK, CallInv, CallFits, LocInv, LocFits, Is, Offset, WithOffset, PutSteps, FreeSteps, FreeRetry, Continue, Return, GoTo, NoLocals, Locals
    <3>14. CASE LockQueue(c, "f_queue", "f_scan")
      BY <3>14 DEF TypeOK, CallInv, CallFits, LocInv, LocFits, Is, Offset, WithOffset, PutSteps, FreeSteps, LockQueue, Continue, Return, GoTo, NoLocals, Locals
    <3>15. CASE LockQueue(c, "f_dequeue", "f_erase")
      BY <3>15 DEF TypeOK, CallInv, CallFits, LocInv, LocFits, Is, Offset, WithOffset, PutSteps, FreeSteps, LockQueue, Continue, Return, GoTo, NoLocals, Locals
    <3>16. CASE ScanReadBits(c)
      <4>1. loc'[c] = [loc[c] EXCEPT !.bits = free[v_page[c]]] /\ loc[c] \in Locals
        BY <3>16 DEF TypeOK, ScanReadBits
      <4>2. /\ loc'[c].kv_offset = loc[c].kv_offset /\ loc'[c].has_lock = loc[c].has_lock
            /\ loc'[c].lock_value = loc[c].lock_value
        BY <4>1, Zenon DEF Locals
      <4>3. pc[c] = "f_scan" /\ pc'[c] = "f_clear" /\ v_page' = v_page
        BY <3>16 DEF TypeOK, ScanReadBits, Continue, GoTo
      <4>4. QED
        BY <4>2, <4>3 DEF LocInv, LocFits, Offset, WithOffset, FreeSteps
    <3>17. CASE ScanQueue(c)
      <4> DEFINE queue == IF loc[c].inserted THEN deadlock_offsets
                          ELSE [deadlock_offsets EXCEPT ![Offset(c)] = @ + 1]
                 found == queue[Offset(c)] > 0
      <4>1. loc' = [loc EXCEPT ![c].inserted = TRUE, ![c].encountered = found]
        BY <3>17, Zenon DEF ScanQueue
      <4> HIDE DEF found
      <4>2. loc[c] \in Locals
        BY DEF TypeOK
      <4>3. /\ loc'[c].kv_offset = loc[c].kv_offset /\ loc'[c].has_lock = loc[c].has_lock
            /\ loc'[c].lock_value = loc[c].lock_value
        BY <4>1, <4>2 DEF TypeOK, Locals
      <4>4. pc[c] \in {"f_scan", "f_clear"} /\ v_page' = v_page
        BY <3>17 DEF ScanQueue, Continue, GoTo
      <4>5. pc'[c] \in {"f_cas", "f_none", "f_end"}
        BY <3>17 DEF TypeOK, ScanQueue, AfterInvalidate, Continue, GoTo
      <4>6. QED
        BY <4>3, <4>4, <4>5 DEF LocInv, LocFits, Offset, WithOffset, FreeSteps
    <3>18. CASE ClearIndex(c)
      BY <3>18 DEF TypeOK, CallInv, CallFits, LocInv, LocFits, Is, Offset, WithOffset, PutSteps, FreeSteps, ClearIndex, Continue, Return, GoTo, NoLocals, AfterFreeLocked, Locals
    <3>19. CASE Dequeue(c)
      BY <3>19 DEF TypeOK, CallInv, CallFits, LocInv, LocFits, Is, Offset, WithOffset, PutSteps, FreeSteps, Dequeue, Continue, Return, GoTo, NoLocals, Locals
    <3>20. CASE FreeUnlock(c)
      BY <3>20 DEF TypeOK, CallInv, CallFits, LocInv, LocFits, Is, Offset, WithOffset, PutSteps, FreeSteps, FreeUnlock, Continue, Return, GoTo, NoLocals, Locals
    <3>21. CASE FreeEnd(c)
      BY <3>21 DEF TypeOK, CallInv, CallFits, LocInv, LocFits, Is, Offset, WithOffset, PutSteps, FreeSteps, FreeEnd, Continue, Return, GoTo, NoLocals, Locals
    <3>22. CASE Lookup(c, "g_get", "g_version")
      BY <3>22, LookupFits DEF LocInv
    <3>23. CASE Lookup(c, "u_get", "u_lock")
      BY <3>23, LookupFits DEF LocInv
    <3>24. CASE Lookup(c, "r_get", "f_start")
      BY <3>24, LookupFits DEF LocInv
    <3>25. CASE GetVersion(c)
      <4>1. loc[c] \in Locals /\ NoLocals \in Locals /\ NoLocals.has_lock = FALSE
        BY NoLocalsTyped DEF TypeOK, NoLocals
      <4>2. pc[c] \in {"g_version", "g_read"} /\ v_page' = v_page
        BY <3>25 DEF GetVersion, Continue, Return, GoTo
      <4>3. \/ Offset(c)' = Offset(c) /\ loc'[c].has_lock = loc[c].has_lock
            \/ loc'[c].has_lock = FALSE /\ pc'[c] = "idle"
        BY <3>25, <4>1 DEF TypeOK, GetVersion, Continue, Return, GoTo, Offset, Locals
      <4>4. pc'[c] \in {"idle", "g_get", "g_read"}
        BY <3>25 DEF TypeOK, GetVersion, Continue, Return, GoTo
      <4>5. QED
        BY <4>2, <4>3, <4>4 DEF LocInv, LocFits, WithOffset, FreeSteps
    <3>26. CASE GetRead(c)
      <4>1. loc[c] \in Locals /\ NoLocals \in Locals /\ NoLocals.has_lock = FALSE
        BY NoLocalsTyped DEF TypeOK, NoLocals
      <4>2. pc[c] \in {"g_version", "g_read"} /\ v_page' = v_page
        BY <3>26 DEF GetRead, Continue, Return, GoTo
      <4>3. \/ Offset(c)' = Offset(c) /\ loc'[c].has_lock = loc[c].has_lock
            \/ loc'[c].has_lock = FALSE /\ pc'[c] = "idle"
        BY <3>26, <4>1 DEF TypeOK, GetRead, Continue, Return, GoTo, Offset, Locals
      <4>4. pc'[c] \in {"idle", "g_get", "g_read"}
        BY <3>26 DEF TypeOK, GetRead, Continue, Return, GoTo
      <4>5. QED
        BY <4>2, <4>3, <4>4 DEF LocInv, LocFits, WithOffset, FreeSteps
    <3>27. CASE UpdateLock(c)
      BY <3>27, ZenonT(30)
      DEF TypeOK, CallInv, CallFits, LocInv, LocFits, Is, Offset, WithOffset, PutSteps,
          FreeSteps, UpdateLock, Continue, Return, GoTo, NoLocals, Locals
    <3>28. CASE UpdateWrite(c)
      BY <3>28 DEF TypeOK, CallInv, CallFits, LocInv, LocFits, Is, Offset, WithOffset, PutSteps, FreeSteps, UpdateWrite, Continue, Return, GoTo, NoLocals, Locals
    <3>29. CASE UpdateUnlock(c)
      BY <3>29 DEF TypeOK, CallInv, CallFits, LocInv, LocFits, Is, Offset, WithOffset, PutSteps, FreeSteps, UpdateUnlock, Continue, Return, GoTo, NoLocals, Locals
    <3>30. QED
      BY <1>1, <3>1, <3>2, <3>3, <3>4, <3>5, <3>6, <3>7, <3>8, <3>9, <3>10, <3>11, <3>12, <3>13, <3>14, <3>15, <3>16, <3>17, <3>18, <3>19, <3>20, <3>21, <3>22, <3>23, <3>24, <3>25, <3>26, <3>27, <3>28, <3>29
      DEF Step, Put, FreeOccupiedSlot, AcquireQueue, Get, Update, RemoveKey
  <2>3. QED
    BY <2>1, <2>2 DEF LocInv
<1>2. CASE UNCHANGED vars
  BY <1>2 DEF LocInv, LocFits, Offset, vars
<1>3. QED
  BY <1>1, <1>2 DEF Next, Finished


(* Every step keeps offsets on pages that have been claimed. *)
LEMMA ClaimStep ==
    ASSUME TypeOK, CallInv, LocInv, ClaimInv, [Next]_vars
    PROVE  ClaimInv'
<1>1. ASSUME NEW c \in Clients, Start(c) \/ Step(c),
             v_page' = v_page, index' = index, Offset(c)' \in {Offset(c), NONE}
      PROVE  ClaimInv'
  <2>1. ASSUME NEW d \in Clients \ {c} PROVE Offset(d)' = Offset(d)
    BY <1>1, OthersStay DEF Offset
  <2>2. QED
    BY <1>1, <2>1 DEF ClaimInv, Claimed

<1>2. ASSUME NEW c \in Clients PROVE loc[c] \in Locals /\ v_page[c] \in Pages
  BY DEF TypeOK

<1>3. ASSUME NEW c \in Clients, Start(c)
      PROVE  v_page' = v_page /\ index' = index /\ Offset(c)' \in {Offset(c), NONE}
  BY <1>2, <1>3 DEF TypeOK, Offset, Locals, Start, Continue, Return, NoLocals
<1>4. ASSUME NEW c \in Clients, LockOwnPage(c)
      PROVE  v_page' = v_page /\ index' = index /\ Offset(c)' \in {Offset(c), NONE}
  BY <1>2, <1>4 DEF TypeOK, Offset, Locals, LockOwnPage, Continue, Return, NoLocals
<1>5. ASSUME NEW c \in Clients, PutWrite(c), Step(c) PROVE ClaimInv'
  <2>1. PICK s \in Slots : loc' = [loc EXCEPT ![c].kv_offset = [page |-> v_page[c], slot |-> s]]
    BY <1>5, Zenon DEF PutWrite
  <2>2. Offset(c)'.page = v_page[c] /\ v_page' = v_page /\ index' = index
    BY <1>2, <1>5, <2>1 DEF TypeOK, Offset, Locals, PutWrite
  <2>3. Claimed(v_page[c])
    BY <1>2 DEF ClaimInv, Claimed, Pages
  <2>4. ASSUME NEW d \in Clients \ {c} PROVE Offset(d)' = Offset(d)
    BY <1>5, OthersStay DEF Offset
  <2>5. QED
    BY <2>2, <2>3, <2>4 DEF ClaimInv, Claimed
<1>6. ASSUME NEW c \in Clients, PageFull(c)
      PROVE  v_page' = v_page /\ index' = index /\ Offset(c)' \in {Offset(c), NONE}
  BY <1>2, <1>6 DEF TypeOK, Offset, Locals, PageFull, Continue, Return, NoLocals
<1>7. ASSUME NEW c \in Clients, TakeNextPage(c), Step(c) PROVE ClaimInv'
  <2>1. v_page' = [v_page EXCEPT ![c] = <<c, v_page[c][2] + 1>>] /\ index' = index /\ loc' = loc
    BY <1>7 DEF TakeNextPage
  <2>2. \A p \in Pages : Claimed(p) => Claimed(p)'
    BY <1>2, <2>1 DEF Claimed, Pages, TypeOK
  <2>3. \A o \in Offsets : Claimed(o.page) => Claimed(o.page)'
    BY <2>2, OffsetFields
  <2>4. \A k \in Keys : index[k] \in Offsets \cup {NONE}
    BY DEF TypeOK
  <2>5. \A d \in Clients : Offset(d) \in Offsets \cup {NONE}
    BY <1>2, LocalsFields DEF Offset
  <2>6. \A d \in Clients : Offset(d)' = Offset(d)
    BY <2>1 DEF Offset
  <2>7. \A d \in Clients : v_page'[d][1] = d
    BY <2>1 DEF ClaimInv, TypeOK
  <2>8. QED
    BY <2>1, <2>3, <2>4, <2>5, <2>6, <2>7 DEF ClaimInv
<1>8. ASSUME NEW c \in Clients, InsertIndex(c), Step(c) PROVE ClaimInv'
  <2>1. call[c].key \in Keys /\ Offset(c) \in Offsets
    BY <1>8, ValueTyped DEF InsertIndex, Continue, GoTo, LocInv, LocFits, WithOffset
  <2>2. Offset(c)' \in {NONE, index[call[c].key]} /\ v_page' = v_page
    BY <1>2, <1>8 DEF TypeOK, Offset, Locals, InsertIndex, Replaced
  <2>3. index' = [index EXCEPT ![call[c].key] = Offset(c)]
    BY <1>8 DEF InsertIndex, Insert
  <2>4. Claimed(Offset(c)'.page) \/ Offset(c)' = NONE
    BY <2>1, <2>2 DEF ClaimInv
  <2>5. ASSUME NEW k \in Keys PROVE index'[k] # NONE => Claimed(index'[k].page)
    BY <2>1, <2>3, StoreAssumption DEF ClaimInv, TypeOK
  <2>6. ASSUME NEW d \in Clients \ {c} PROVE Offset(d)' = Offset(d)
    BY <1>8, OthersStay DEF Offset
  <2>7. QED
    BY <2>2, <2>4, <2>5, <2>6 DEF ClaimInv, Claimed
<1>9. ASSUME NEW c \in Clients, UnlockOwnPage(c)
      PROVE  v_page' = v_page /\ index' = index /\ Offset(c)' \in {Offset(c), NONE}
  BY <1>2, <1>9 DEF TypeOK, Offset, Locals, UnlockOwnPage, Continue, Return, NoLocals
<1>10. ASSUME NEW c \in Clients, FreeOnOwnPage(c)
      PROVE  v_page' = v_page /\ index' = index /\ Offset(c)' \in {Offset(c), NONE}
  BY <1>2, <1>10 DEF TypeOK, Offset, Locals, FreeOnOwnPage, Continue, Return, NoLocals
<1>11. ASSUME NEW c \in Clients, RemoveOnOwnPage(c)
      PROVE  v_page' = v_page /\ index' = index /\ Offset(c)' \in {Offset(c), NONE}
  BY <1>2, <1>11 DEF TypeOK, Offset, Locals, RemoveOnOwnPage, Continue, Return, NoLocals
<1>12. ASSUME NEW c \in Clients, RemoveStoreBits(c)
      PROVE  v_page' = v_page /\ index' = index /\ Offset(c)' \in {Offset(c), NONE}
  BY <1>2, <1>12 DEF TypeOK, Offset, Locals, RemoveStoreBits, Continue, Return, NoLocals
<1>13. ASSUME NEW c \in Clients, FreeElsewhere(c)
      PROVE  v_page' = v_page /\ index' = index /\ Offset(c)' \in {Offset(c), NONE}
  BY <1>2, <1>13 DEF TypeOK, Offset, Locals, FreeElsewhere, Continue, Return, NoLocals
<1>14. ASSUME NEW c \in Clients, FreeLock(c)
      PROVE  v_page' = v_page /\ index' = index /\ Offset(c)' \in {Offset(c), NONE}
  BY <1>2, <1>14 DEF TypeOK, Offset, Locals, FreeLock, Continue, Return, NoLocals
<1>15. ASSUME NEW c \in Clients, FreeRetry(c)
      PROVE  v_page' = v_page /\ index' = index /\ Offset(c)' \in {Offset(c), NONE}
  BY <1>2, <1>15 DEF TypeOK, Offset, Locals, FreeRetry, Continue, Return, NoLocals
<1>16. ASSUME NEW c \in Clients, LockQueue(c, "f_queue", "f_scan")
      PROVE  v_page' = v_page /\ index' = index /\ Offset(c)' \in {Offset(c), NONE}
  BY <1>2, <1>16 DEF TypeOK, Offset, Locals, LockQueue, Continue, Return, NoLocals
<1>17. ASSUME NEW c \in Clients, LockQueue(c, "f_dequeue", "f_erase")
      PROVE  v_page' = v_page /\ index' = index /\ Offset(c)' \in {Offset(c), NONE}
  BY <1>2, <1>17 DEF TypeOK, Offset, Locals, LockQueue, Continue, Return, NoLocals
<1>18. ASSUME NEW c \in Clients, ScanReadBits(c)
      PROVE  v_page' = v_page /\ index' = index /\ Offset(c)' \in {Offset(c), NONE}
  BY <1>2, <1>18 DEF TypeOK, Offset, Locals, ScanReadBits, Continue, Return, NoLocals
<1>19. ASSUME NEW c \in Clients, ScanQueue(c)
      PROVE  v_page' = v_page /\ index' = index /\ Offset(c)' \in {Offset(c), NONE}
  BY <1>2, <1>19 DEF TypeOK, Offset, Locals, ScanQueue, Continue, Return, NoLocals
<1>20. ASSUME NEW c \in Clients, ClearIndex(c) PROVE ClaimInv'
  <2>1. index' = [index EXCEPT ![call[c].key] = NONE] /\ v_page' = v_page /\ loc' = loc
    BY <1>20 DEF ClearIndex, Insert
  <2>2. ASSUME NEW k \in Keys PROVE index'[k] # NONE => index'[k] = index[k]
    BY <2>1 DEF TypeOK
  <2>3. QED
    BY <2>1, <2>2 DEF ClaimInv, Claimed, Offset
<1>21. ASSUME NEW c \in Clients, Dequeue(c)
      PROVE  v_page' = v_page /\ index' = index /\ Offset(c)' \in {Offset(c), NONE}
  BY <1>2, <1>21 DEF TypeOK, Offset, Locals, Dequeue, Continue, Return, NoLocals
<1>22. ASSUME NEW c \in Clients, FreeUnlock(c)
      PROVE  v_page' = v_page /\ index' = index /\ Offset(c)' \in {Offset(c), NONE}
  BY <1>2, <1>22 DEF TypeOK, Offset, Locals, FreeUnlock, Continue, Return, NoLocals
<1>23. ASSUME NEW c \in Clients, FreeEnd(c)
      PROVE  v_page' = v_page /\ index' = index /\ Offset(c)' \in {Offset(c), NONE}
  BY <1>2, <1>23 DEF TypeOK, Offset, Locals, FreeEnd, Continue, Return, NoLocals
<1>24. ASSUME NEW c \in Clients, NEW from, NEW to, from # "idle", Lookup(c, from, to), Step(c)
      PROVE  ClaimInv'
  <2>1. call[c].key \in Keys
    BY <1>24, ValueTyped DEF Lookup
  <2>2. Offset(c)' \in {NONE, index[call[c].key]} /\ v_page' = v_page /\ index' = index
    BY <1>2, <1>24 DEF TypeOK, Offset, Locals, Lookup, Return, NoLocals
  <2>3. Claimed(Offset(c)'.page) \/ Offset(c)' = NONE
    BY <2>1, <2>2 DEF ClaimInv
  <2>4. ASSUME NEW d \in Clients \ {c} PROVE Offset(d)' = Offset(d)
    BY <1>24, OthersStay DEF Offset
  <2>5. QED
    BY <2>2, <2>3, <2>4 DEF ClaimInv, Claimed
<1>25. ASSUME NEW c \in Clients, GetVersion(c)
      PROVE  v_page' = v_page /\ index' = index /\ Offset(c)' \in {Offset(c), NONE}
  BY <1>2, <1>25 DEF TypeOK, Offset, Locals, GetVersion, Continue, Return, NoLocals
<1>26. ASSUME NEW c \in Clients, GetRead(c)
      PROVE  v_page' = v_page /\ index' = index /\ Offset(c)' \in {Offset(c), NONE}
  BY <1>2, <1>26 DEF TypeOK, Offset, Locals, GetRead, Continue, Return, NoLocals
<1>27. ASSUME NEW c \in Clients, UpdateLock(c)
      PROVE  v_page' = v_page /\ index' = index /\ Offset(c)' \in {Offset(c), NONE}
  BY <1>2, <1>27 DEF TypeOK, Offset, Locals, UpdateLock, Continue, Return, NoLocals
<1>28. ASSUME NEW c \in Clients, UpdateWrite(c)
      PROVE  v_page' = v_page /\ index' = index /\ Offset(c)' \in {Offset(c), NONE}
  BY <1>2, <1>28 DEF TypeOK, Offset, Locals, UpdateWrite, Continue, Return, NoLocals
<1>29. ASSUME NEW c \in Clients, UpdateUnlock(c)
      PROVE  v_page' = v_page /\ index' = index /\ Offset(c)' \in {Offset(c), NONE}
  BY <1>2, <1>29 DEF TypeOK, Offset, Locals, UpdateUnlock, Continue, Return, NoLocals
<1>30. CASE UNCHANGED vars
  BY <1>30 DEF ClaimInv, Claimed, Offset, vars
<1>31. /\ "g_get" # "idle" /\ "u_get" # "idle" /\ "r_get" # "idle"
  OBVIOUS
<1>32. QED
  BY <1>1, <1>3, <1>4, <1>5, <1>6, <1>7, <1>8, <1>9, <1>10, <1>11, <1>12, <1>13, <1>14, <1>15, <1>16, <1>17, <1>18, <1>19, <1>20, <1>21, <1>22, <1>23, <1>24, <1>25, <1>26, <1>27, <1>28, <1>29, <1>30, <1>31
     DEF Next, Step, Put, FreeOccupiedSlot, AcquireQueue, Get, Update, RemoveKey, Finished


-----------------------------------------------------------------------------
(* What happens to the pages that are locked: nothing, one more page, or   *)
(* one page less.  In each case locks still exclude each other.            *)
LEMMA OthersHold ==
    ASSUME TypeOK, NEW c \in Clients, Start(c) \/ Step(c), NEW d \in Clients \ {c}
    PROVE  Holding(d)' = Holding(d)
  BY OthersStay DEF Holding, Is, Offset

LEMMA KeepLocks ==
    ASSUME PageLockExclusive, lock' = lock,
           \A d \in Clients : Holding(d)' = Holding(d)
    PROVE  PageLockExclusive'
  BY DEF PageLockExclusive

LEMMA AcquireLock ==
    ASSUME TypeOK, PageLockExclusive, NEW c \in Clients, NEW p \in Pages,
           ~IsLocked(lock[p]), lock' = [lock EXCEPT ![p] = LockedByte(lock[p])],
           Holding(c)' = Holding(c) \cup {p},
           \A d \in Clients \ {c} : Holding(d)' = Holding(d)
    PROVE  PageLockExclusive'
<1>1. lock[p] \in Byte
  BY DEF TypeOK
<1>2. IsLocked(lock'[p])
  BY <1>1, ByteOperators DEF TypeOK
<1>3. \A d \in Clients : p \notin Holding(d)
  BY DEF PageLockExclusive
<1>4. \A q \in Pages \ {p} : lock'[q] = lock[q]
  BY DEF TypeOK
<1>5. QED
  BY <1>2, <1>3, <1>4 DEF PageLockExclusive

LEMMA ReleaseLock ==
    ASSUME TypeOK, PageLockExclusive, NEW c \in Clients, NEW p \in Pages,
           p \in Holding(c), lock' = [lock EXCEPT ![p] = UnlockByte(lock[p])],
           Holding(c)' = Holding(c) \ {p},
           \A d \in Clients \ {c} : Holding(d)' = Holding(d)
    PROVE  PageLockExclusive'
<1>1. lock[p] \in Byte /\ IsLocked(lock[p])
  BY DEF TypeOK, PageLockExclusive
<1>2. ~IsLocked(lock'[p])
  BY <1>1, ByteOperators DEF TypeOK
<1>3. \A d \in Clients \ {c} : p \notin Holding(d)
  BY DEF PageLockExclusive
<1>4. \A q \in Pages \ {p} : lock'[q] = lock[q]
  BY DEF TypeOK
<1>5. QED
  BY <1>2, <1>3, <1>4 DEF PageLockExclusive

(* A page that a client has just claimed is locked by nobody. *)
LEMMA HoldingClaimed ==
    ASSUME TypeOK, LocInv, ClaimInv, NEW d \in Clients, NEW p \in Holding(d)
    PROVE  Claimed(p)
<1>1. Claimed(v_page[d])
  <2>1. v_page[d][1] = d /\ v_page[d] \in Pages
    BY DEF ClaimInv, TypeOK
  <2>2. QED
    BY <2>1 DEF Claimed, Pages
<1>2. pc[d] \in WithOffset => Claimed(Offset(d).page)
  BY StoreAssumption DEF LocInv, LocFits, ClaimInv
<1>3. p = v_page[d] \/ (pc[d] \in WithOffset /\ p = Offset(d).page)
  <2>1. \/ p = v_page[d]
        \/ /\ pc[d] \in {"u_write", "u_unlock", "f_none", "f_dequeue", "f_erase", "f_unlock"}
           /\ p = Offset(d).page
    BY DEF Holding
  <2>2. {"u_write", "u_unlock", "f_none", "f_dequeue", "f_erase", "f_unlock"}
           \subseteq WithOffset
    BY DEF WithOffset, FreeSteps
  <2>3. QED
    BY <2>1, <2>2
<1>4. QED
  BY <1>1, <1>2, <1>3

(* Every step keeps page locks exclusive. *)
LEMMA ExclusionStep ==
    ASSUME TypeOK, CallInv, LocInv, ClaimInv, PageLockExclusive, [Next]_vars
    PROVE  PageLockExclusive'
<1>1. ASSUME NEW c \in Clients, Start(c) \/ Step(c) PROVE PageLockExclusive'
  <2>1. \A d \in Clients \ {c} : Holding(d)' = Holding(d)
    BY <1>1, OthersHold
  <2>2. ASSUME lock' = lock, Holding(c)' = Holding(c) PROVE PageLockExclusive'
    BY <2>1, <2>2, KeepLocks
  <2>3. CallFits(c) /\ LocFits(c) /\ v_page[c] \in Pages /\ loc[c] \in Locals
    BY DEF CallInv, LocInv, TypeOK
  <2>4. CASE Start(c)
    <3>1. PICK x \in Calls : pc'[c] = FirstStep[x.name]
      BY <2>4, StartsACall DEF TypeOK
    <3>2. pc'[c] \in {"p_lock", "g_get", "u_get", "r_get"} /\ pc[c] = "idle"
      BY <3>1, <2>4 DEF Start, GoTo, Calls, OpNames, FirstStep
    <3>3. lock' = lock /\ loc' = loc
      BY <2>4 DEF Start
    <3>4. Holding(c) = {} /\ Holding(c)' = {}
      BY <2>3, <3>2, <3>3 DEF Holding, FreeSteps
    <3>5. QED
      BY <2>2, <3>3, <3>4
  <2>5. CASE LockOwnPage(c)
    <3>1. Holding(c)' = Holding(c) \cup {v_page[c]}
      BY <2>3, <2>5 DEF TypeOK, LockOwnPage, Continue, GoTo, Holding, Is, Offset, PutSteps, FreeSteps, CallFits, LocFits
    <3>2. QED
      BY <2>1, <2>3, <3>1, <2>5, AcquireLock DEF LockOwnPage
  <2>6. CASE PutWrite(c)
    <3>1. loc'[c].has_lock = loc[c].has_lock
      BY <2>3, <2>6 DEF TypeOK, PutWrite, Locals
    <3>2. lock' = lock /\ v_page' = v_page /\ call' = call
      BY <2>6 DEF PutWrite, Continue
    <3>3. QED
      BY <2>2, <2>3, <3>1, <3>2, <2>6 DEF TypeOK, PutWrite, Continue, GoTo, Holding, Is, Offset, PutSteps, FreeSteps, CallFits, LocFits
  <2>7. CASE PageFull(c)
    <3>1. v_page[c] \in Holding(c) /\ Holding(c)' = Holding(c) \ {v_page[c]}
      BY <2>3, <2>7 DEF TypeOK, PageFull, Continue, Return, GoTo, NoLocals, Holding, Is, Offset, PutSteps, FreeSteps, CallFits, LocFits
    <3>2. QED
      BY <2>1, <2>3, <3>1, <2>7, ReleaseLock DEF PageFull
  <2>8. CASE TakeNextPage(c)
    <3> DEFINE p == <<c, v_page[c][2] + 1>>
    <3>1. p \in Pages /\ ~Claimed(p)
      BY <2>3, <2>8, StoreAssumption DEF TakeNextPage, Pages, Claimed
    <3>2. \A d \in Clients : p \notin Holding(d)
      BY <3>1, HoldingClaimed
    <3>3. lock' = [lock EXCEPT ![p] = InitByte]
      BY <2>8 DEF TakeNextPage
    <3> HIDE DEF p
    <3>4. Holding(c)' = Holding(c)
      BY <2>3, <2>8 DEF TypeOK, TakeNextPage, Continue, GoTo, Holding, Is, Offset, PutSteps, FreeSteps, CallFits, LocFits
    <3>5. ~IsLocked(lock'[p]) /\ \A q \in Pages \ {p} : lock'[q] = lock[q]
      BY <3>1, <3>3 DEF TypeOK, IsLocked, InitByte
    <3>6. QED
      BY <2>1, <3>2, <3>4, <3>5 DEF PageLockExclusive
  <2>9. CASE InsertIndex(c)
    <3>1. loc'[c].has_lock = loc[c].has_lock
      BY <2>3, <2>9 DEF TypeOK, InsertIndex, Locals
    <3>2. lock' = lock /\ v_page' = v_page /\ call' = call
      BY <2>9 DEF InsertIndex, Continue
    <3>3. QED
      BY <2>2, <2>3, <3>1, <3>2, <2>9 DEF TypeOK, InsertIndex, Continue, GoTo, Holding, Is, Offset, PutSteps, FreeSteps, CallFits, LocFits
  <2>10. CASE UnlockOwnPage(c)
    <3>1. v_page[c] \in Holding(c) /\ Holding(c)' = Holding(c) \ {v_page[c]}
      BY <2>3, <2>10 DEF TypeOK, UnlockOwnPage, Continue, Return, GoTo, NoLocals, Holding, Is, Offset, PutSteps, FreeSteps, CallFits, LocFits
    <3>2. QED
      BY <2>1, <2>3, <3>1, <2>10, ReleaseLock DEF UnlockOwnPage
  <2>11. CASE FreeOnOwnPage(c)
    BY <2>2, <2>3, <2>11 DEF TypeOK, FreeOnOwnPage, Continue, Return, GoTo, NoLocals, Holding, Is, Offset, PutSteps, FreeSteps, CallFits, LocFits
  <2>12. CASE RemoveOnOwnPage(c)
    <3>1. loc'[c].has_lock = loc[c].has_lock
      BY <2>3, <2>12 DEF TypeOK, RemoveOnOwnPage, Locals
    <3>2. lock' = lock /\ v_page' = v_page /\ call' = call
      BY <2>12 DEF RemoveOnOwnPage, Continue
    <3>3. QED
      BY <2>2, <2>3, <3>1, <3>2, <2>12 DEF TypeOK, RemoveOnOwnPage, Continue, GoTo, Holding, Is, Offset, PutSteps, FreeSteps, CallFits, LocFits
  <2>13. CASE RemoveStoreBits(c)
    BY <2>2, <2>3, <2>13 DEF TypeOK, RemoveStoreBits, Continue, Return, GoTo, NoLocals, Holding, Is, Offset, PutSteps, FreeSteps, CallFits, LocFits
  <2>14. CASE FreeElsewhere(c)
    <3>1. loc'[c].has_lock = loc[c].has_lock
      BY <2>3, <2>14 DEF TypeOK, FreeElsewhere, Locals
    <3>2. lock' = lock /\ v_page' = v_page /\ call' = call
      BY <2>14 DEF FreeElsewhere, Continue
    <3>3. QED
      BY <2>2, <2>3, <3>1, <3>2, <2>14 DEF TypeOK, FreeElsewhere, Continue, GoTo, Holding, Is, Offset, PutSteps, FreeSteps, CallFits, LocFits, OnOwnPage
  <2>15. CASE FreeLock(c)
    <3>1. Offset(c).page \in Pages /\ ~IsLocked(lock[Offset(c).page])
      BY <2>3, <2>15, OffsetFields DEF FreeLock, LocFits, WithOffset, FreeSteps, Continue, GoTo
    <3>2. loc'[c].has_lock /\ Offset(c)' = Offset(c)
      BY <2>3, <2>15 DEF TypeOK, FreeLock, Offset, Locals
    <3>3. /\ pc[c] = "f_cas" /\ pc'[c] \in {"f_none", "f_dequeue", "f_unlock"}
          /\ call' = call /\ v_page' = v_page
      BY <2>15 DEF TypeOK, FreeLock, AfterInvalidate, AfterFreeLocked, Continue, GoTo
    <3>4. Holding(c)' = Holding(c) \cup {Offset(c).page}
      BY <2>3, <3>2, <3>3 DEF Holding, Is, FreeSteps, LocFits
    <3>5. QED
      BY <2>1, <3>1, <3>4, <2>15, AcquireLock DEF FreeLock
  <2>16. CASE FreeRetry(c)
    <3>1. loc'[c].has_lock = loc[c].has_lock
      BY <2>3, <2>16 DEF TypeOK, FreeRetry, Locals
    <3>2. lock' = lock /\ v_page' = v_page /\ call' = call
      BY <2>16 DEF FreeRetry, Continue
    <3>3. QED
      BY <2>2, <2>3, <3>1, <3>2, <2>16 DEF TypeOK, FreeRetry, Continue, GoTo, Holding, Is, Offset, PutSteps, FreeSteps, CallFits, LocFits
  <2>17. CASE LockQueue(c, "f_queue", "f_scan")
    BY <2>2, <2>3, <2>17 DEF TypeOK, LockQueue, Continue, Return, GoTo, NoLocals, Holding, Is, Offset, PutSteps, FreeSteps, CallFits, LocFits
  <2>18. CASE LockQueue(c, "f_dequeue", "f_erase")
    BY <2>2, <2>3, <2>18 DEF TypeOK, LockQueue, Continue, Return, GoTo, NoLocals, Holding, Is, Offset, PutSteps, FreeSteps, CallFits, LocFits
  <2>19. CASE ScanReadBits(c)
    <3>1. loc'[c].has_lock = loc[c].has_lock
      BY <2>3, <2>19 DEF TypeOK, ScanReadBits, Locals
    <3>2. lock' = lock /\ v_page' = v_page /\ call' = call
      BY <2>19 DEF ScanReadBits, Continue
    <3>3. QED
      BY <2>2, <2>3, <3>1, <3>2, <2>19 DEF TypeOK, ScanReadBits, Continue, GoTo, Holding, Is, Offset, PutSteps, FreeSteps, CallFits, LocFits
  <2>20. CASE ScanQueue(c)
    <3>1. loc'[c].has_lock = loc[c].has_lock
      BY <2>3, <2>20 DEF TypeOK, ScanQueue, Locals
    <3>2. lock' = lock /\ v_page' = v_page /\ call' = call
      BY <2>20 DEF ScanQueue, Continue
    <3>3. QED
      BY <2>2, <2>3, <3>1, <3>2, <2>20 DEF TypeOK, ScanQueue, Continue, GoTo, Holding, Is, Offset, PutSteps, FreeSteps, CallFits, LocFits, AfterInvalidate
  <2>21. CASE ClearIndex(c)
    BY <2>2, <2>3, <2>21 DEF TypeOK, ClearIndex, Continue, Return, GoTo, NoLocals, Holding, Is, Offset, PutSteps, FreeSteps, CallFits, LocFits, AfterFreeLocked
  <2>22. CASE Dequeue(c)
    BY <2>2, <2>3, <2>22 DEF TypeOK, Dequeue, Continue, Return, GoTo, NoLocals, Holding, Is, Offset, PutSteps, FreeSteps, CallFits, LocFits
  <2>23. CASE FreeUnlock(c)
    <3>1. Offset(c).page \in Pages
      BY <2>3, <2>23, OffsetFields DEF FreeUnlock, LocFits, WithOffset, FreeSteps, Continue, Return, GoTo
    <3>2. Offset(c).page \in Holding(c) /\ Holding(c)' = Holding(c) \ {Offset(c).page}
      BY <2>3, <2>23 DEF TypeOK, FreeUnlock, Continue, Return, GoTo, NoLocals, Holding, Is, Offset, PutSteps, FreeSteps, CallFits, LocFits
    <3>3. QED
      BY <2>1, <3>1, <3>2, <2>23, ReleaseLock DEF FreeUnlock
  <2>24. CASE FreeEnd(c)
    BY <2>2, <2>3, <2>24 DEF TypeOK, FreeEnd, Continue, Return, GoTo, NoLocals, Holding, Is, Offset, PutSteps, FreeSteps, CallFits, LocFits
  <2>25. CASE Lookup(c, "g_get", "g_version")
    <3>1. ~loc[c].has_lock /\ ~loc'[c].has_lock
      <4>1. ~loc[c].has_lock
        BY <2>3, <2>25 DEF Lookup, LocFits
      <4>2. loc'[c].has_lock = loc[c].has_lock \/ loc'[c] = NoLocals
        BY <2>3, <2>25 DEF TypeOK, Lookup, Return, Locals
      <4>3. QED
        BY <4>1, <4>2 DEF NoLocals
    <3>2. lock' = lock /\ v_page' = v_page /\ call' = call
      BY <2>25 DEF Lookup, Continue, Return
    <3>3. QED
      BY <2>2, <2>3, <3>1, <3>2, <2>25 DEF TypeOK, Lookup, Continue, Return, GoTo, Holding, Is, Offset, PutSteps, FreeSteps, CallFits, LocFits
  <2>26. CASE Lookup(c, "u_get", "u_lock")
    <3>1. ~loc[c].has_lock /\ ~loc'[c].has_lock
      <4>1. ~loc[c].has_lock
        BY <2>3, <2>26 DEF Lookup, LocFits
      <4>2. loc'[c].has_lock = loc[c].has_lock \/ loc'[c] = NoLocals
        BY <2>3, <2>26 DEF TypeOK, Lookup, Return, Locals
      <4>3. QED
        BY <4>1, <4>2 DEF NoLocals
    <3>2. lock' = lock /\ v_page' = v_page /\ call' = call
      BY <2>26 DEF Lookup, Continue, Return
    <3>3. QED
      BY <2>2, <2>3, <3>1, <3>2, <2>26 DEF TypeOK, Lookup, Continue, Return, GoTo, Holding, Is, Offset, PutSteps, FreeSteps, CallFits, LocFits
  <2>27. CASE Lookup(c, "r_get", "f_start")
    <3>1. ~loc[c].has_lock /\ ~loc'[c].has_lock
      <4>1. ~loc[c].has_lock
        BY <2>3, <2>27 DEF Lookup, LocFits
      <4>2. loc'[c].has_lock = loc[c].has_lock \/ loc'[c] = NoLocals
        BY <2>3, <2>27 DEF TypeOK, Lookup, Return, Locals
      <4>3. QED
        BY <4>1, <4>2 DEF NoLocals
    <3>2. lock' = lock /\ v_page' = v_page /\ call' = call
      BY <2>27 DEF Lookup, Continue, Return
    <3>3. QED
      BY <2>2, <2>3, <3>1, <3>2, <2>27 DEF TypeOK, Lookup, Continue, Return, GoTo, Holding, Is, Offset, PutSteps, FreeSteps, CallFits, LocFits
  <2>28. CASE GetVersion(c)
    <3>1. loc'[c].has_lock = loc[c].has_lock
      BY <2>3, <2>28 DEF TypeOK, GetVersion, Locals
    <3>2. lock' = lock /\ v_page' = v_page /\ call' = call
      BY <2>28 DEF GetVersion, Continue
    <3>3. QED
      BY <2>2, <2>3, <3>1, <3>2, <2>28 DEF TypeOK, GetVersion, Continue, GoTo, Holding, Is, Offset, PutSteps, FreeSteps, CallFits, LocFits
  <2>29. CASE GetRead(c)
    BY <2>2, <2>3, <2>29 DEF TypeOK, GetRead, Continue, Return, GoTo, NoLocals, Holding, Is, Offset, PutSteps, FreeSteps, CallFits, LocFits
  <2>30. CASE UpdateLock(c)
    <3>1. Offset(c).page \in Pages
      BY <2>3, <2>30, OffsetFields DEF UpdateLock, LocFits, WithOffset
    <3>2. CASE ~IsLocked(lock[Offset(c).page])
      <4>1. Holding(c)' = Holding(c) \cup {Offset(c).page}
        BY <2>3, <3>2, <2>30 DEF TypeOK, UpdateLock, Continue, GoTo, Holding, Is, Offset, PutSteps, FreeSteps, CallFits, LocFits
      <4>2. QED
        BY <2>1, <3>1, <3>2, <4>1, <2>30, AcquireLock DEF UpdateLock
    <3>3. CASE IsLocked(lock[Offset(c).page])
      BY <2>2, <2>3, <3>3, <2>30 DEF TypeOK, UpdateLock, Continue, GoTo, Holding, Is, Offset, PutSteps, FreeSteps, CallFits, LocFits
    <3>4. QED
      BY <3>2, <3>3
  <2>31. CASE UpdateWrite(c)
    BY <2>2, <2>3, <2>31 DEF TypeOK, UpdateWrite, Continue, Return, GoTo, NoLocals, Holding, Is, Offset, PutSteps, FreeSteps, CallFits, LocFits
  <2>32. CASE UpdateUnlock(c)
    <3>1. Offset(c).page \in Pages
      BY <2>3, <2>32, OffsetFields DEF UpdateUnlock, LocFits, WithOffset, FreeSteps, Continue, Return, GoTo
    <3>2. Offset(c).page \in Holding(c) /\ Holding(c)' = Holding(c) \ {Offset(c).page}
      BY <2>3, <2>32 DEF TypeOK, UpdateUnlock, Continue, Return, GoTo, NoLocals, Holding, Is, Offset, PutSteps, FreeSteps, CallFits, LocFits
    <3>3. QED
      BY <2>1, <3>1, <3>2, <2>32, ReleaseLock DEF UpdateUnlock
  <2>33. QED
    BY <1>1, <2>4, <2>5, <2>6, <2>7, <2>8, <2>9, <2>10, <2>11, <2>12, <2>13, <2>14, <2>15, <2>16, <2>17, <2>18, <2>19, <2>20, <2>21, <2>22, <2>23, <2>24, <2>25, <2>26, <2>27, <2>28, <2>29, <2>30, <2>31, <2>32
    DEF Step, Put, FreeOccupiedSlot, AcquireQueue, Get, Update, RemoveKey
<1>2. CASE UNCHANGED vars
  BY <1>2, KeepLocks DEF Holding, Is, Offset, vars
<1>3. QED
  BY <1>1, <1>2 DEF Next, Finished

-----------------------------------------------------------------------------
LEMMA StoreInit == Init => StoreInv
<1> SUFFICES ASSUME Init PROVE StoreInv
  OBVIOUS
<1>1. TypeOK
  <2>1. InitByte \in Byte /\ ZeroByte \in Byte
    BY DEF Byte, InitByte, ZeroByte, USED_BIT
  <2>2. NoRecord \in Records /\ NoResult \in Results /\ NoLocals \in Locals
    BY NoLocalsTyped, Zenon DEF NoRecord, Records, NoResult, Results
  <2>3. v_page \in [Clients -> Pages]
    BY StoreAssumption DEF Init, Pages
  <2>4. "idle" \in Labels
    BY DEF Labels
  <2>5. data \in [Pages -> [Slots -> Records]]
    BY <2>2 DEF Init
  <2>6. lock \in [Pages -> Byte] /\ free \in [Pages -> SUBSET Slots]
    BY <2>1 DEF Init
  <2>7. call \in [Clients -> Calls \cup {NoCall}] /\ loc \in [Clients -> Locals]
    BY <2>2 DEF Init
  <2>8. pc \in [Clients -> Labels] /\ done \in [Clients -> Nat]
    BY <2>4 DEF Init
  <2>9. result \in [Clients -> Results] /\ size \in Int /\ deadlock_offset_lock \in BOOLEAN
    <3>1. result = [c \in Clients |-> NoResult]
      BY DEF Init
    <3>2. result \in [Clients -> Results]
      BY <2>2, <3>1
    <3>3. size = 0 /\ deadlock_offset_lock = FALSE
      BY DEF Init
    <3>4. size \in Int
      BY <3>3
    <3>5. deadlock_offset_lock \in BOOLEAN
      BY <3>3, Zenon
    <3>6. QED
      BY <3>2, <3>4, <3>5
  <2>10. index \in [Keys -> Offsets \cup {NONE}] /\ deadlock_offsets \in [Offsets -> Nat]
    BY DEF Init
  <2>11. QED
    BY <2>3, <2>5, <2>6, <2>7, <2>8, <2>9, <2>10 DEF TypeOK
<1>2. CallInv
  BY DEF Init, CallInv, CallFits, PutSteps, FreeSteps
<1>3. LocInv
  BY DEF Init, LocInv, LocFits, NoLocals, WithOffset, FreeSteps
<1>4. ClaimInv
  BY DEF Init, ClaimInv, Offset, NoLocals
<1>5. PageLockExclusive
  <2>1. \A c \in Clients : Holding(c) = {}
    BY DEF Init, Holding, FreeSteps, NoLocals
  <2>2. \A p \in Pages : ~IsLocked(lock[p])
    BY DEF Init, IsLocked, InitByte, ZeroByte
  <2>3. QED
    BY <2>1, <2>2 DEF PageLockExclusive
<1>6. QED
  BY <1>1, <1>2, <1>3, <1>4, <1>5 DEF StoreInv

(* The inductive invariant holds in every reachable state, for any number  *)
(* of clients, keys, slots, pages and retries, any programs, and whether   *)
(* or not the index returns the offset it replaces.                        *)
THEOREM StoreInvariant == Spec => []StoreInv
<1>1. StoreInv /\ [Next]_vars => StoreInv'
  BY TypeStep, CallStep, LocStep, ClaimStep, ExclusionStep DEF StoreInv
<1>2. QED
  BY <1>1, StoreInit, PTL DEF Spec

(* put, get, update, remove and free_occupied_slot leave lock bytes,       *)
(* bitsets, records, index and queue well-formed.                          *)
THEOREM StoreTypes == Spec => []TypeOK
<1>1. StoreInv => TypeOK
  BY DEF StoreInv
<1>2. QED
  BY <1>1, StoreInvariant, PTL

(* ViperPage::lock in put, v_page.lock(false) in update and the            *)
(* compare-and-swap of free_occupied_slot take the same lock: no two       *)
(* clients have a page locked at once, and a page whose lock bit is set    *)
(* has a client that will unlock it.                                       *)
THEOREM PageLocksExclude == Spec => []PageLockExclusive
<1>1. StoreInv => PageLockExclusive
  BY DEF StoreInv
<1>2. QED
  BY <1>1, StoreInvariant, PTL
-----------------------------------------------------------------------------
(* A client that has put its offset into the deadlock queue and found it   *)
(* there when it last looked.                                              *)
Waiters(o) == {c \in Clients : Awaits(c, o) /\ loc[c].encountered}

(* What a client knows of the queue: once it is in, it goes on trying only *)
(* after it saw its offset there, and it takes the offset out only then.   *)
QueueFits(c) ==
    /\ loc[c].inserted => pc[c] \in (FreeSteps \cup {"p_unlock"}) \ {"f_start", "r_store"}
    /\ loc[c].inserted /\ pc[c] \in {"f_cas", "f_queue", "f_scan", "f_clear"}
          => loc[c].encountered
    /\ pc[c] \in {"f_dequeue", "f_erase"} => loc[c].inserted /\ loc[c].encountered
    /\ loc[c].inserted /\ loc[c].encountered /\ pc[c] = "f_none" => loc[c].has_lock

QueueInv ==
    /\ \A c \in Clients : QueueFits(c)
    /\ \A o \in Offsets : deadlock_offsets[o] <= Cardinality(Waiters(o))

(* The locals by which the queue knows a client are the same.              *)
SameFlags(l, m) ==
    /\ m.kv_offset = l.kv_offset /\ m.has_lock = l.has_lock
    /\ m.inserted = l.inserted /\ m.encountered = l.encountered

LEMMA WaitersAreFinite ==
    ASSUME NEW o
    PROVE  IsFiniteSet(Waiters(o)) /\ Cardinality(Waiters(o)) \in Nat
<1>1. Waiters(o) \in SUBSET Clients
  BY DEF Waiters
<1>2. QED
  BY <1>1, StoreAssumption, FS_Subset, FS_CardinalityType

(* An offset nobody puts into the queue or takes out of it, and that no    *)
(* client stops waiting for.                                               *)
LEMMA MoreWait ==
    ASSUME NEW o \in Offsets, deadlock_offsets \in [Offsets -> Nat],
           deadlock_offsets[o] <= Cardinality(Waiters(o)),
           deadlock_offsets'[o] = deadlock_offsets[o],
           \A d \in Clients : d \in Waiters(o) => d \in Waiters(o)'
    PROVE  deadlock_offsets'[o] <= Cardinality(Waiters(o)')
<1>1. PICK W : W = Waiters(o)'
  OBVIOUS
<1>2. W \in SUBSET Clients
  BY <1>1 DEF Waiters
<1>3. IsFiniteSet(W) /\ Cardinality(W) \in Nat
  BY <1>2, StoreAssumption, FS_Subset, FS_CardinalityType
<1>4. Waiters(o) \in SUBSET W
  BY <1>1 DEF Waiters
<1>5. Cardinality(Waiters(o)) <= Cardinality(W)
  BY <1>3, <1>4, FS_Subset
<1>6. deadlock_offsets[o] \in Nat /\ Cardinality(Waiters(o)) \in Nat
  BY WaitersAreFinite
<1>7. deadlock_offsets'[o] <= Cardinality(W)
  BY <1>3, <1>5, <1>6
<1>8. QED
  BY <1>1, <1>7

LEMMA QueueStep ==
    ASSUME TypeOK, CallInv, LocInv, QueueInv, [Next]_vars
    PROVE  QueueInv'
<1>1. ASSUME NEW c \in Clients, Start(c) \/ Step(c) PROVE QueueInv'
  <2>1. ASSUME NEW d \in Clients \ {c}
        PROVE  /\ QueueFits(d)'
               /\ \A o \in Offsets : d \in Waiters(o)' <=> d \in Waiters(o)
    BY <1>1, <2>1, OthersStay DEF QueueInv, QueueFits, Waiters, Awaits, Offset
  <2>2. QueueFits(c) /\ CallFits(c) /\ LocFits(c)
    BY DEF QueueInv, CallInv, LocInv
  <2>3. loc[c] \in Locals
    BY DEF TypeOK
  <2>4. ASSUME QueueFits(c)', deadlock_offsets' = deadlock_offsets,
               \A o \in Offsets : (Awaits(c, o) /\ loc[c].encountered)
                                     => (Awaits(c, o) /\ loc[c].encountered)'
        PROVE  QueueInv'
    <3>1. \A d \in Clients : QueueFits(d)'
      BY <2>1, <2>4
    <3>2. ASSUME NEW o \in Offsets
          PROVE  deadlock_offsets'[o] <= Cardinality(Waiters(o)')
      <4>1. \A d \in Clients : d \in Waiters(o) => d \in Waiters(o)'
        BY <2>1, <2>4 DEF Waiters
      <4>2. QED
        BY <2>4, <4>1, MoreWait DEF QueueInv, TypeOK
    <3>3. QED
      BY <3>1, <3>2 DEF QueueInv
  <2>5. CASE Start(c)
    <3>1. PICK x \in Calls : pc'[c] = FirstStep[x.name]
      BY <2>5, StartsACall DEF TypeOK
    <3>2. pc'[c] \in {"p_lock", "g_get", "u_get", "r_get"} /\ pc[c] = "idle"
      BY <3>1, <2>5 DEF Start, GoTo, Calls, OpNames, FirstStep
    <3>3. loc' = loc /\ deadlock_offsets' = deadlock_offsets
      BY <2>5 DEF Start
    <3>4. QED
      BY <2>2, <2>4, <3>2, <3>3 DEF QueueFits, Awaits, Offset, FreeSteps
  <2>6. CASE LockOwnPage(c)
    <3>1. deadlock_offsets' = deadlock_offsets
      BY <2>6 DEF LockOwnPage
    <3>2. QED
      BY <2>2, <2>3, <2>4, <3>1, <2>6 DEF LockOwnPage, TypeOK, QueueFits, Awaits, Offset, FreeSteps, Continue, Return, GoTo, NoLocals
  <2>7. CASE PutWrite(c)
    <3>1. deadlock_offsets' = deadlock_offsets
      BY <2>7 DEF PutWrite
    <3>2. ~loc[c].inserted
      BY <2>2, <2>7 DEF PutWrite, QueueFits, Continue, Return, GoTo, FreeSteps
    <3>3. ~loc'[c].inserted
      BY <2>3, <3>2, <2>7 DEF TypeOK, Locals, NoLocals, Return, PutWrite
    <3>4. pc'[c] \notin {"f_dequeue", "f_erase"}
      BY <2>7 DEF TypeOK, PutWrite, Continue, Return, GoTo
    <3>5. QED
      BY <2>4, <3>1, <3>2, <3>3, <3>4 DEF QueueFits, Awaits
  <2>8. CASE PageFull(c)
    <3>1. deadlock_offsets' = deadlock_offsets
      BY <2>8 DEF PageFull
    <3>2. QED
      BY <2>2, <2>3, <2>4, <3>1, <2>8 DEF PageFull, TypeOK, QueueFits, Awaits, Offset, FreeSteps, Continue, Return, GoTo, NoLocals
  <2>9. CASE TakeNextPage(c)
    <3>1. deadlock_offsets' = deadlock_offsets
      BY <2>9 DEF TakeNextPage
    <3>2. QED
      BY <2>2, <2>3, <2>4, <3>1, <2>9 DEF TakeNextPage, TypeOK, QueueFits, Awaits, Offset, FreeSteps, Continue, Return, GoTo, NoLocals
  <2>10. CASE InsertIndex(c)
    <3>1. deadlock_offsets' = deadlock_offsets
      BY <2>10 DEF InsertIndex
    <3>2. ~loc[c].inserted
      BY <2>2, <2>10 DEF InsertIndex, QueueFits, Continue, Return, GoTo, FreeSteps
    <3>3. ~loc'[c].inserted
      BY <2>3, <3>2, <2>10 DEF TypeOK, Locals, NoLocals, Return, InsertIndex
    <3>4. pc'[c] \notin {"f_dequeue", "f_erase"}
      BY <2>10 DEF TypeOK, InsertIndex, Continue, Return, GoTo
    <3>5. QED
      BY <2>4, <3>1, <3>2, <3>3, <3>4 DEF QueueFits, Awaits
  <2>11. CASE UnlockOwnPage(c)
    <3>1. deadlock_offsets' = deadlock_offsets
      BY <2>11 DEF UnlockOwnPage
    <3>2. QED
      BY <2>2, <2>3, <2>4, <3>1, <2>11 DEF UnlockOwnPage, TypeOK, QueueFits, Awaits, Offset, FreeSteps, Continue, Return, GoTo, NoLocals
  <2>12. CASE FreeOnOwnPage(c)
    <3>1. deadlock_offsets' = deadlock_offsets
      BY <2>12 DEF FreeOnOwnPage
    <3>2. QED
      BY <2>2, <2>3, <2>4, <3>1, <2>12 DEF FreeOnOwnPage, TypeOK, QueueFits, Awaits, Offset, FreeSteps, Continue, Return, GoTo, NoLocals
  <2>13. CASE RemoveOnOwnPage(c)
    <3>1. deadlock_offsets' = deadlock_offsets
      BY <2>13 DEF RemoveOnOwnPage
    <3>2. SameFlags(loc[c], loc'[c])
      BY <2>3, <2>13 DEF TypeOK, SameFlags, Locals, RemoveOnOwnPage
    <3>3. QED
      BY <2>2, <2>4, <3>1, <3>2, <2>13 DEF SameFlags, TypeOK, QueueFits, Awaits, Offset, FreeSteps, Continue, GoTo, RemoveOnOwnPage
  <2>14. CASE RemoveStoreBits(c)
    <3>1. deadlock_offsets' = deadlock_offsets
      BY <2>14 DEF RemoveStoreBits
    <3>2. QED
      BY <2>2, <2>3, <2>4, <3>1, <2>14 DEF RemoveStoreBits, TypeOK, QueueFits, Awaits, Offset, FreeSteps, Continue, Return, GoTo, NoLocals
  <2>15. CASE FreeElsewhere(c)
    <3>1. deadlock_offsets' = deadlock_offsets
      BY <2>15 DEF FreeElsewhere
    <3>2. SameFlags(loc[c], loc'[c])
      BY <2>3, <2>15 DEF TypeOK, SameFlags, Locals, FreeElsewhere
    <3>3. QED
      BY <2>2, <2>4, <3>1, <3>2, <2>15 DEF SameFlags, TypeOK, QueueFits, Awaits, Offset, FreeSteps, Continue, GoTo, FreeElsewhere
  <2>16. CASE FreeLock(c)
    <3>1. deadlock_offsets' = deadlock_offsets
      BY <2>16 DEF FreeLock
    <3>2. /\ loc'[c].inserted = loc[c].inserted /\ loc'[c].encountered = loc[c].encountered
          /\ Offset(c)' = Offset(c) /\ loc'[c].has_lock
      BY <2>3, <2>16 DEF TypeOK, FreeLock, Offset, Locals
    <3>3. /\ pc[c] = "f_cas" /\ pc'[c] \in {"f_none", "f_dequeue", "f_unlock"}
          /\ loc[c].inserted /\ loc[c].encountered => pc'[c] \in {"f_none", "f_dequeue"}
          /\ pc'[c] = "f_dequeue" => loc[c].inserted /\ loc[c].encountered
      BY <2>16 DEF TypeOK, FreeLock, AfterInvalidate, AfterFreeLocked, Continue, GoTo
    <3>4. QED
      BY <2>2, <2>4, <3>1, <3>2, <3>3 DEF QueueFits, Awaits, FreeSteps
  <2>17. CASE FreeRetry(c)
    <3>1. deadlock_offsets' = deadlock_offsets
      BY <2>17 DEF FreeRetry
    <3>2. SameFlags(loc[c], loc'[c])
      BY <2>3, <2>17 DEF TypeOK, SameFlags, Locals, FreeRetry
    <3>3. QED
      BY <2>2, <2>4, <3>1, <3>2, <2>17 DEF SameFlags, TypeOK, QueueFits, Awaits, Offset, FreeSteps, Continue, GoTo, FreeRetry
  <2>18. CASE LockQueue(c, "f_queue", "f_scan")
    <3>1. deadlock_offsets' = deadlock_offsets
      BY <2>18 DEF LockQueue
    <3>2. QED
      BY <2>2, <2>3, <2>4, <3>1, <2>18 DEF LockQueue, TypeOK, QueueFits, Awaits, Offset, FreeSteps, Continue, Return, GoTo, NoLocals
  <2>19. CASE LockQueue(c, "f_dequeue", "f_erase")
    <3>1. deadlock_offsets' = deadlock_offsets
      BY <2>19 DEF LockQueue
    <3>2. QED
      BY <2>2, <2>3, <2>4, <3>1, <2>19 DEF LockQueue, TypeOK, QueueFits, Awaits, Offset, FreeSteps, Continue, Return, GoTo, NoLocals
  <2>20. CASE ScanReadBits(c)
    <3>1. deadlock_offsets' = deadlock_offsets
      BY <2>20 DEF ScanReadBits
    <3>2. SameFlags(loc[c], loc'[c])
      BY <2>3, <2>20 DEF TypeOK, SameFlags, Locals, ScanReadBits
    <3>3. QED
      BY <2>2, <2>4, <3>1, <3>2, <2>20 DEF SameFlags, TypeOK, QueueFits, Awaits, Offset, FreeSteps, Continue, GoTo, ScanReadBits
  <2>21. CASE ScanQueue(c)
    <3> DEFINE o == Offset(c)
               queue == IF loc[c].inserted THEN deadlock_offsets
                        ELSE [deadlock_offsets EXCEPT ![o] = @ + 1]
               found == queue[o] > 0
    <3>1. pc[c] \in {"f_scan", "f_clear"}
      BY <2>21 DEF ScanQueue, Continue, GoTo
    <3>2. o \in Offsets /\ o.page # v_page[c]
      BY <2>2, <3>1 DEF LocFits, WithOffset, FreeSteps
    <3>3. deadlock_offsets \in [Offsets -> Nat] /\ queue \in [Offsets -> Nat]
      BY <3>2 DEF TypeOK
    <3>4. loc' = [loc EXCEPT ![c].inserted = TRUE, ![c].encountered = found]
      BY <2>21, Zenon DEF ScanQueue
    <3>5. deadlock_offsets' = [x \in Offsets |-> IF x.page = v_page[c] THEN 0 ELSE queue[x]]
      BY <2>21, Zenon DEF ScanQueue, OnOwnPage
    <3>6. /\ found => pc'[c] = "f_cas"
          /\ ~found => pc'[c] \in {"f_none", "f_end"}
      BY <2>21 DEF TypeOK, ScanQueue, AfterInvalidate, Continue, GoTo
    <3>7. found \in BOOLEAN /\ (~loc[c].inserted => found)
      BY <3>2, <3>3 DEF TypeOK
    <3>8. /\ \A x \in Offsets \ {o} : deadlock_offsets'[x] <= deadlock_offsets[x]
          /\ deadlock_offsets'[o] = queue[o]
          /\ \A x \in Offsets : deadlock_offsets'[x] \in Nat
      BY <3>2, <3>3, <3>5 DEF TypeOK
    <3>9. queue[o] = IF loc[c].inserted THEN deadlock_offsets[o] ELSE deadlock_offsets[o] + 1
      BY <3>2, <3>3
    <3>10. found => queue[o] > 0
      OBVIOUS
    <3>11. ~found => queue[o] = 0
      BY <3>2, <3>3
    <3> HIDE DEF found, queue
    <3>12. /\ loc'[c].inserted /\ loc'[c].encountered = found
           /\ loc'[c].kv_offset = o /\ loc'[c].has_lock = loc[c].has_lock
      BY <2>3, <3>4, <3>7 DEF TypeOK, Locals, Offset
    <3>13. QueueFits(c)'
      BY <3>6, <3>7, <3>12 DEF QueueFits, FreeSteps
    <3>14. \A x \in Offsets : c \in Waiters(x)' <=> x = o /\ found
      BY <3>6, <3>7, <3>12 DEF Waiters, Awaits, Offset
    <3>15. \A x \in Offsets : c \in Waiters(x) => x = o
      BY DEF Waiters, Awaits
    <3>16. c \in Waiters(o) <=> loc[c].inserted
      BY <2>2, <2>3, <3>1 DEF Waiters, Awaits, QueueFits, Locals
    <3>17. ASSUME NEW x \in Offsets PROVE deadlock_offsets'[x] <= Cardinality(Waiters(x)')
      <4>1. /\ deadlock_offsets[x] <= Cardinality(Waiters(x))
            /\ deadlock_offsets[x] \in Nat
        BY <3>3 DEF QueueInv
      <4>2. Waiters(x)' \subseteq Clients /\ Waiters(x) \subseteq Clients
        BY DEF Waiters
      <4>3. IsFiniteSet(Waiters(x)) /\ Cardinality(Waiters(x)) \in Nat
        BY WaitersAreFinite
      <4>4. PICK W : W = Waiters(x)'
        OBVIOUS
      <4>5. IsFiniteSet(W) /\ Cardinality(W) \in Nat
        BY <4>2, <4>4, StoreAssumption, FS_Subset, FS_CardinalityType
      <4>6. CASE x # o
        <5>1. W = Waiters(x)
          BY <2>1, <3>14, <3>15, <4>2, <4>4, <4>6
        <5>2. QED
          BY <3>8, <4>1, <4>3, <4>4, <4>6, <5>1
      <4>7. CASE x = o /\ loc[c].inserted /\ found
        <5>1. W = Waiters(x)
          BY <2>1, <3>14, <3>16, <4>2, <4>4, <4>7
        <5>2. QED
          BY <3>8, <3>9, <4>1, <4>4, <4>7, <5>1
      <4>8. CASE x = o /\ ~loc[c].inserted
        <5>1. W = Waiters(x) \cup {c}
          BY <2>1, <3>7, <3>14, <4>2, <4>4, <4>8
        <5>2. Cardinality(W) = Cardinality(Waiters(x)) + 1
          BY <3>16, <4>3, <4>8, <5>1, FS_AddElement
        <5>3. deadlock_offsets'[x] = deadlock_offsets[x] + 1
          BY <3>8, <3>9, <4>8
        <5>4. QED
          BY <4>1, <4>3, <4>4, <5>2, <5>3
      <4>9. CASE x = o /\ ~found
        BY <3>8, <3>11, <4>4, <4>5, <4>9
      <4>10. QED
        BY <4>6, <4>7, <4>8, <4>9
    <3>18. QED
      BY <2>1, <3>13, <3>17 DEF QueueInv
  <2>22. CASE ClearIndex(c)
    <3>1. deadlock_offsets' = deadlock_offsets
      BY <2>22 DEF ClearIndex
    <3>2. QED
      BY <2>2, <2>3, <2>4, <3>1, <2>22 DEF ClearIndex, TypeOK, QueueFits, Awaits, Offset, FreeSteps, Continue, Return, GoTo, NoLocals, AfterFreeLocked, LocFits
  <2>23. CASE Dequeue(c)
    <3> DEFINE o == Offset(c)
    <3>1. pc[c] = "f_erase" /\ pc'[c] = "f_unlock" /\ loc' = loc
      BY <2>23 DEF TypeOK, Dequeue, Continue, GoTo
    <3>2. o \in Offsets /\ c \in Waiters(o)
      BY <2>2, <3>1 DEF LocFits, WithOffset, FreeSteps, QueueFits, Waiters, Awaits
    <3>3. deadlock_offsets' =
            [deadlock_offsets EXCEPT ![o] = IF @ > 0 THEN @ - 1 ELSE 0]
      BY <2>23 DEF Dequeue
    <3>4. QueueFits(c)'
      BY <2>2, <3>1 DEF QueueFits, FreeSteps
    <3>5. \A x \in Offsets : c \in Waiters(x) => x = o
      BY DEF Waiters, Awaits
    <3>6. \A x \in Offsets : c \notin Waiters(x)'
      BY <3>1 DEF Waiters, Awaits
    <3> HIDE DEF o
    <3>7. ASSUME NEW x \in Offsets PROVE deadlock_offsets'[x] <= Cardinality(Waiters(x)')
      <4>1. /\ deadlock_offsets[x] <= Cardinality(Waiters(x))
            /\ deadlock_offsets[x] \in Nat
        BY DEF QueueInv, TypeOK
      <4>2. Waiters(x)' \subseteq Clients /\ Waiters(x) \subseteq Clients
        BY DEF Waiters
      <4>3. IsFiniteSet(Waiters(x)) /\ Cardinality(Waiters(x)) \in Nat
        BY WaitersAreFinite
      <4>4. PICK W : W = Waiters(x)'
        OBVIOUS
      <4>5. W = Waiters(x) \ {c}
        BY <2>1, <3>6, <4>2, <4>4
      <4>6. /\ Cardinality(W) = IF c \in Waiters(x) THEN Cardinality(Waiters(x)) - 1
                                ELSE Cardinality(Waiters(x))
            /\ Cardinality(W) \in Nat
        BY <4>3, <4>5, FS_RemoveElement, FS_CardinalityType
      <4>7. deadlock_offsets'[x] = IF x = o THEN IF deadlock_offsets[x] > 0 THEN deadlock_offsets[x] - 1 ELSE 0
                                   ELSE deadlock_offsets[x]
        BY <3>2, <3>3 DEF TypeOK
      <4>8. CASE x = o
        BY <3>2, <4>1, <4>3, <4>4, <4>6, <4>7, <4>8
      <4>9. CASE x # o
        BY <3>5, <4>1, <4>4, <4>6, <4>7, <4>9
      <4>10. QED
        BY <4>8, <4>9
    <3>8. QED
      BY <2>1, <3>4, <3>7 DEF QueueInv
  <2>24. CASE FreeUnlock(c)
    <3>1. deadlock_offsets' = deadlock_offsets
      BY <2>24 DEF FreeUnlock
    <3>2. QED
      BY <2>2, <2>3, <2>4, <3>1, <2>24 DEF FreeUnlock, TypeOK, QueueFits, Awaits, Offset, FreeSteps, Continue, Return, GoTo, NoLocals
  <2>25. CASE FreeEnd(c)
    <3>1. deadlock_offsets' = deadlock_offsets
      BY <2>25 DEF FreeEnd
    <3>2. QED
      BY <2>2, <2>3, <2>4, <3>1, <2>25 DEF FreeEnd, TypeOK, QueueFits, Awaits, Offset, FreeSteps, Continue, Return, GoTo, NoLocals
  <2>26. CASE Lookup(c, "g_get", "g_version")
    <3>1. deadlock_offsets' = deadlock_offsets
      BY <2>26 DEF Lookup
    <3>2. ~loc[c].inserted
      BY <2>2, <2>26 DEF Lookup, QueueFits, FreeSteps
    <3>3. loc'[c].inserted = loc[c].inserted \/ loc'[c] = NoLocals
      BY <2>3, <2>26 DEF TypeOK, Lookup, Return, Locals
    <3>4. ~loc'[c].inserted
      BY <3>2, <3>3 DEF NoLocals
    <3>5. pc'[c] \notin {"f_dequeue", "f_erase"}
      BY <2>26 DEF TypeOK, Lookup, Continue, Return, GoTo
    <3>6. QED
      BY <2>4, <3>1, <3>2, <3>4, <3>5 DEF QueueFits, Awaits
  <2>27. CASE Lookup(c, "u_get", "u_lock")
    <3>1. deadlock_offsets' = deadlock_offsets
      BY <2>27 DEF Lookup
    <3>2. ~loc[c].inserted
      BY <2>2, <2>27 DEF Lookup, QueueFits, FreeSteps
    <3>3. loc'[c].inserted = loc[c].inserted \/ loc'[c] = NoLocals
      BY <2>3, <2>27 DEF TypeOK, Lookup, Return, Locals
    <3>4. ~loc'[c].inserted
      BY <3>2, <3>3 DEF NoLocals
    <3>5. pc'[c] \notin {"f_dequeue", "f_erase"}
      BY <2>27 DEF TypeOK, Lookup, Continue, Return, GoTo
    <3>6. QED
      BY <2>4, <3>1, <3>2, <3>4, <3>5 DEF QueueFits, Awaits
  <2>28. CASE Lookup(c, "r_get", "f_start")
    <3>1. deadlock_offsets' = deadlock_offsets
      BY <2>28 DEF Lookup
    <3>2. ~loc[c].inserted
      BY <2>2, <2>28 DEF Lookup, QueueFits, FreeSteps
    <3>3. loc'[c].inserted = loc[c].inserted \/ loc'[c] = NoLocals
      BY <2>3, <2>28 DEF TypeOK, Lookup, Return, Locals
    <3>4. ~loc'[c].inserted
      BY <3>2, <3>3 DEF NoLocals
    <3>5. pc'[c] \notin {"f_dequeue", "f_erase"}
      BY <2>28 DEF TypeOK, Lookup, Continue, Return, GoTo
    <3>6. QED
      BY <2>4, <3>1, <3>2, <3>4, <3>5 DEF QueueFits, Awaits
  <2>29. CASE GetVersion(c)
    <3>1. deadlock_offsets' = deadlock_offsets
      BY <2>29 DEF GetVersion
    <3>2. SameFlags(loc[c], loc'[c])
      BY <2>3, <2>29 DEF TypeOK, SameFlags, Locals, GetVersion
    <3>3. QED
      BY <2>2, <2>4, <3>1, <3>2, <2>29 DEF SameFlags, TypeOK, QueueFits, Awaits, Offset, FreeSteps, Continue, GoTo, GetVersion
  <2>30. CASE GetRead(c)
    <3>1. deadlock_offsets' = deadlock_offsets
      BY <2>30 DEF GetRead
    <3>2. ~loc[c].inserted
      BY <2>2, <2>30 DEF GetRead, QueueFits, Continue, Return, GoTo, FreeSteps
    <3>3. ~loc'[c].inserted
      BY <2>3, <3>2, <2>30 DEF TypeOK, Locals, NoLocals, Return, GetRead
    <3>4. pc'[c] \notin {"f_dequeue", "f_erase"}
      BY <2>30 DEF TypeOK, GetRead, Continue, Return, GoTo
    <3>5. QED
      BY <2>4, <3>1, <3>2, <3>3, <3>4 DEF QueueFits, Awaits
  <2>31. CASE UpdateLock(c)
    <3>1. deadlock_offsets' = deadlock_offsets
      BY <2>31 DEF UpdateLock
    <3>2. QED
      BY <2>2, <2>3, <2>4, <3>1, <2>31 DEF UpdateLock, TypeOK, QueueFits, Awaits, Offset, FreeSteps, Continue, Return, GoTo, NoLocals
  <2>32. CASE UpdateWrite(c)
    <3>1. deadlock_offsets' = deadlock_offsets
      BY <2>32 DEF UpdateWrite
    <3>2. QED
      BY <2>2, <2>3, <2>4, <3>1, <2>32 DEF UpdateWrite, TypeOK, QueueFits, Awaits, Offset, FreeSteps, Continue, Return, GoTo, NoLocals
  <2>33. CASE UpdateUnlock(c)
    <3>1. deadlock_offsets' = deadlock_offsets
      BY <2>33 DEF UpdateUnlock
    <3>2. QED
      BY <2>2, <2>3, <2>4, <3>1, <2>33 DEF UpdateUnlock, TypeOK, QueueFits, Awaits, Offset, FreeSteps, Continue, Return, GoTo, NoLocals
  <2>34. QED
    BY <1>1, <2>5, <2>6, <2>7, <2>8, <2>9, <2>10, <2>11, <2>12, <2>13, <2>14, <2>15, <2>16, <2>17, <2>18, <2>19, <2>20, <2>21, <2>22, <2>23, <2>24, <2>25, <2>26, <2>27, <2>28, <2>29, <2>30, <2>31, <2>32, <2>33
    DEF Step, Put, FreeOccupiedSlot, AcquireQueue, Get, Update, RemoveKey
<1>2. CASE UNCHANGED vars
  <2>1. \A o \in Offsets : Waiters(o)' = Waiters(o)
    BY <1>2 DEF vars, Waiters, Awaits, Offset
  <2>2. \A c \in Clients : QueueFits(c)'
    BY <1>2 DEF QueueInv, vars, QueueFits
  <2>3. deadlock_offsets' = deadlock_offsets
    BY <1>2 DEF vars
  <2>4. QED
    BY <2>1, <2>2, <2>3 DEF QueueInv
<1>3. QED
  BY <1>1, <1>2 DEF Next, Finished

LEMMA QueueInit == Init => QueueInv
<1> SUFFICES ASSUME Init PROVE QueueInv
  OBVIOUS
<1>1. \A c \in Clients : QueueFits(c)
  BY DEF Init, QueueFits, NoLocals
<1>2. \A o \in Offsets : deadlock_offsets[o] = 0 /\ Cardinality(Waiters(o)) \in Nat
  BY WaitersAreFinite DEF Init
<1>3. QED
  BY <1>1, <1>2 DEF QueueInv

(* Every entry of the deadlock queue (viper.hpp:1645-1695) is accounted    *)
(* for by a client in free_occupied_slot that still has to free the        *)
(* offset: the put that gets its lock after all takes its entry out, and   *)
(* one whose entry another client served has none left to take.  Holds for *)
(* any finite set of clients and any programs, and whether or not the      *)
(* index returns the offset it replaces.                                   *)
THEOREM QueueIsAwaited == Spec => []QueuedOffsetsAreAwaited
<1>1. Init => QueueInv
  BY QueueInit
<1>2. StoreInv /\ QueueInv /\ [Next]_vars => QueueInv'
  BY QueueStep DEF StoreInv
<1>3. StoreInv /\ QueueInv => QueuedOffsetsAreAwaited
  <2> SUFFICES ASSUME StoreInv, QueueInv, NEW o \in Offsets
               PROVE  deadlock_offsets[o] <= Cardinality({c \in Clients : Awaits(c, o)})
    BY DEF QueuedOffsetsAreAwaited
  <2> DEFINE A == {c \in Clients : Awaits(c, o)}
  <2>1. IsFiniteSet(A) /\ Cardinality(A) \in Nat
    BY StoreAssumption, FS_Subset, FS_CardinalityType
  <2>2. Waiters(o) \in SUBSET A
    BY DEF Waiters
  <2>3. Cardinality(Waiters(o)) <= Cardinality(A) /\ Cardinality(Waiters(o)) \in Nat
    BY <2>1, <2>2, FS_Subset, WaitersAreFinite
  <2>4. deadlock_offsets[o] <= Cardinality(Waiters(o)) /\ deadlock_offsets[o] \in Nat
    BY DEF QueueInv, StoreInv, TypeOK
  <2> HIDE DEF A
  <2>5. deadlock_offsets[o] <= Cardinality(A)
    BY <2>1, <2>3, <2>4
  <2>6. QED
    BY <2>5 DEF A
<1>4. QED
  BY <1>1, <1>2, <1>3, StoreInvariant, PTL DEF Spec

-----------------------------------------------------------------------------
(* What the steps of a call do, in the terms of the invariants below.      *)
SameLocals(c) ==
    /\ loc'[c].kv_offset = loc[c].kv_offset /\ loc'[c].inserted = loc[c].inserted
    /\ loc'[c].is_new = loc[c].is_new

(* A step that touches neither records nor slots, neither index nor queue. *)
QuietMoves ==
    {<<"p_lock", "p_write">>, <<"p_write", "p_next">>, <<"f_start", "f_cas">>,
     <<"f_cas", "f_cas">>, <<"f_cas", "f_queue">>, <<"f_queue", "f_scan">>,
     <<"f_dequeue", "f_erase">>, <<"f_unlock", "f_end">>, <<"f_end", "p_unlock">>,
     <<"g_version", "g_get">>, <<"g_version", "g_read">>, <<"g_read", "g_get">>,
     <<"u_lock", "u_write">>, <<"u_lock", "u_get">>}

Quiet(c) ==
    /\ UNCHANGED <<free, data, index, deadlock_offsets, v_page, call, done, result>>
    /\ \/ <<pc[c], pc'[c]>> \in QuietMoves
       \/ <<pc[c], pc'[c]>> = <<"f_scan", "f_clear">> /\ Is(c, "remove")
    /\ SameLocals(c)

(* The call returns. *)
Ends(c) ==
    /\ UNCHANGED <<free, data, index, deadlock_offsets, v_page, call>>
    /\ pc[c] \in {"p_unlock", "u_unlock", "f_end", "g_get", "u_get", "r_get", "g_read"}
    /\ pc'[c] = "idle" /\ loc'[c] = NoLocals
    /\ done' = [done EXCEPT ![c] = @ + 1]

(* A lookup finds the key. *)
Finds(c) ==
    /\ UNCHANGED <<free, data, index, deadlock_offsets, v_page, call, done, result>>
    /\ <<pc[c], pc'[c]>> \in {<<"g_get", "g_version">>, <<"u_get", "u_lock">>,
                              <<"r_get", "f_start">>}
    /\ index[call[c].key] # NONE /\ loc'[c].kv_offset = index[call[c].key]
    /\ loc'[c].inserted = loc[c].inserted

LEMMA StepKinds ==
    ASSUME TypeOK, CallInv, LocInv, NEW c \in Clients, Step(c)
    PROVE  \/ Quiet(c) \/ Ends(c) \/ Finds(c)
           \/ PutWrite(c) \/ TakeNextPage(c) \/ InsertIndex(c)
           \/ FreeOnOwnPage(c) \/ RemoveOnOwnPage(c) \/ RemoveStoreBits(c)
           \/ FreeLock(c) \/ ScanQueue(c) \/ ClearIndex(c) \/ Dequeue(c) \/ UpdateWrite(c)
<1>1. loc[c] \in Locals /\ CallFits(c) /\ LocFits(c)
  BY DEF TypeOK, CallInv, LocInv
<1>2. ASSUME LockOwnPage(c) \/ PageFull(c) \/ AcquireQueue(c) \/ FreeUnlock(c) \/ UpdateLock(c)
      PROVE  Quiet(c)
  <2>1. loc' = loc /\ UNCHANGED <<free, data, index, deadlock_offsets, v_page>>
    BY <1>2 DEF LockOwnPage, PageFull, AcquireQueue, LockQueue, FreeUnlock, UpdateLock
  <2>2. /\ <<pc[c], pc'[c]>> \in QuietMoves
        /\ UNCHANGED <<call, done, result>>
    BY <1>2 DEF TypeOK, LockOwnPage, PageFull, AcquireQueue, LockQueue, FreeUnlock, UpdateLock, Continue, GoTo, QuietMoves
  <2>3. SameLocals(c)
    BY <1>1, <2>1 DEF SameLocals, Locals
  <2>4. QED
    BY <2>1, <2>2, <2>3 DEF Quiet
<1>3. ASSUME FreeElsewhere(c) \/ FreeRetry(c) \/ GetVersion(c)
      PROVE  Quiet(c)
  <2>1. UNCHANGED <<free, data, index, deadlock_offsets, v_page>>
    BY <1>3 DEF FreeElsewhere, FreeRetry, GetVersion
  <2>2. /\ <<pc[c], pc'[c]>> \in QuietMoves
        /\ UNCHANGED <<call, done, result>>
    BY <1>3 DEF TypeOK, FreeElsewhere, FreeRetry, GetVersion, Continue, GoTo, QuietMoves
  <2>3. SameLocals(c)
    BY <1>1, <1>3 DEF TypeOK, SameLocals, Locals, FreeElsewhere, FreeRetry, GetVersion
  <2>4. QED
    BY <2>1, <2>2, <2>3 DEF Quiet
<1>4. ASSUME ScanReadBits(c) PROVE Quiet(c)
  <2>1. UNCHANGED <<free, data, index, deadlock_offsets, v_page>>
    BY <1>4 DEF ScanReadBits
  <2>2. /\ <<pc[c], pc'[c]>> = <<"f_scan", "f_clear">> /\ Is(c, "remove")
        /\ UNCHANGED <<call, done, result>>
    BY <1>4 DEF TypeOK, ScanReadBits, Continue, GoTo
  <2>3. loc'[c] = [loc[c] EXCEPT !.bits = free[v_page[c]]]
    BY <1>4 DEF TypeOK, ScanReadBits
  <2>4. SameLocals(c)
    BY <1>1, <2>3, Zenon DEF SameLocals, Locals
  <2>5. QED
    BY <2>1, <2>2, <2>4 DEF Quiet
<1>5. ASSUME UnlockOwnPage(c) \/ UpdateUnlock(c) PROVE Ends(c)
  BY <1>5 DEF TypeOK, UnlockOwnPage, UpdateUnlock, Return, GoTo, Ends
<1>6. ASSUME FreeEnd(c) PROVE Ends(c) \/ Quiet(c)
  <2>1. CASE Return(c, "f_end", TRUE, NONE)
    BY <1>6, <2>1 DEF TypeOK, FreeEnd, Return, GoTo, Ends
  <2>2. CASE Continue(c, "f_end", "p_unlock") /\ UNCHANGED loc
    BY <1>1, <1>6, <2>2 DEF TypeOK, FreeEnd, Continue, GoTo, Quiet, QuietMoves, SameLocals, Locals
  <2>3. QED
    BY <1>6, <2>1, <2>2 DEF FreeEnd
<1>7. ASSUME GetRead(c) PROVE Ends(c) \/ Quiet(c)
  <2>1. UNCHANGED <<free, data, index, deadlock_offsets, v_page>>
    BY <1>7 DEF GetRead
  <2>2. CASE ~SameVersion(c) /\ Continue(c, "g_read", "g_get") /\ UNCHANGED loc
    BY <1>1, <2>1, <2>2 DEF TypeOK, Continue, GoTo, Quiet, QuietMoves, SameLocals, Locals
  <2>3. CASE Return(c, "g_read", TRUE, data[Offset(c).page][Offset(c).slot].value)
    BY <2>1, <2>3 DEF TypeOK, Return, GoTo, Ends
  <2>4. QED
    BY <1>7, <2>2, <2>3 DEF GetRead
<1>8. ASSUME NEW from, NEW to, Lookup(c, from, to),
             <<from, to>> \in {<<"g_get", "g_version">>, <<"u_get", "u_lock">>, <<"r_get", "f_start">>}
      PROVE  Ends(c) \/ Finds(c)
  <2>1. UNCHANGED <<free, data, index, deadlock_offsets, v_page>>
    BY <1>8 DEF Lookup
  <2>2. CASE Return(c, from, FALSE, NONE)
    BY <1>8, <2>1, <2>2 DEF TypeOK, Return, GoTo, Ends
  <2>3. CASE /\ index[call[c].key] # NONE /\ Continue(c, from, to)
             /\ loc' = [loc EXCEPT ![c].kv_offset = index[call[c].key]]
    <3>1. loc'[c].kv_offset = index[call[c].key] /\ loc'[c].inserted = loc[c].inserted
      BY <1>1, <2>3 DEF TypeOK, Locals
    <3>2. QED
      BY <1>8, <2>1, <2>3, <3>1 DEF TypeOK, Continue, GoTo, Finds
  <2>4. QED
    BY <1>8, <2>2, <2>3 DEF Lookup
<1>9. QED
  BY <1>2, <1>3, <1>4, <1>5, <1>6, <1>7, <1>8 DEF Step, Put, FreeOccupiedSlot, Get, Update, RemoveKey

LEMMA OffsetsDiffer ==
    ASSUME NEW o \in Offsets, NEW x \in Offsets
    PROVE  x = o <=> x.page = o.page /\ x.slot = o.slot
  BY DEF Offsets

(* The effects on slots and records. *)
LEMMA PutWriteEffect ==
    ASSUME TypeOK, CallInv, NEW c \in Clients, PutWrite(c)
    PROVE  /\ UNCHANGED <<index, deadlock_offsets, v_page, call, done, result>>
           /\ pc[c] = "p_write" /\ pc'[c] = "p_insert"
           /\ Offset(c)' \in Offsets /\ Offset(c)'.page = v_page[c]
           /\ ~Occupied(Offset(c)')
           /\ \A x \in Offsets :
                 /\ Occupied(x)' <=> (Occupied(x) \/ x = Offset(c)')
                 /\ RecordAt(x)' = IF x = Offset(c)' THEN [key |-> call[c].key, value |-> Value(c)]
                                   ELSE RecordAt(x)
           /\ loc'[c].inserted = loc[c].inserted
<1>1. PICK s \in Slots :
         /\ FirstFree(v_page[c], s)
         /\ data' = [data EXCEPT ![v_page[c]][s] = [key |-> call[c].key, value |-> Value(c)]]
         /\ free' = [free EXCEPT ![v_page[c]] = @ \ {s}]
         /\ loc' = [loc EXCEPT ![c].kv_offset = [page |-> v_page[c], slot |-> s]]
  BY Zenon DEF PutWrite
<1>2. PICK r : r = [key |-> call[c].key, value |-> Value(c)]
  OBVIOUS
<1>3. PICK o : o = [page |-> v_page[c], slot |-> s]
  OBVIOUS
<1>4. o \in Offsets /\ o.page = v_page[c] /\ o.slot = s /\ v_page[c] \in Pages
  BY <1>3 DEF TypeOK, Offsets
<1>5. loc[c] \in Locals
  BY DEF TypeOK
<1>6. loc'[c].kv_offset = o /\ loc'[c].inserted = loc[c].inserted
  BY <1>1, <1>3, <1>5 DEF TypeOK, Locals
<1>7. s \in free[v_page[c]]
  BY <1>1 DEF FirstFree
<1>8. \A x \in Offsets : RecordAt(x)' = IF x = o THEN r ELSE RecordAt(x)
  BY <1>1, <1>2, <1>4, OffsetFields, OffsetsDiffer DEF TypeOK, RecordAt
<1>9. \A x \in Offsets : Occupied(x)' <=> (Occupied(x) \/ x = o)
  BY <1>1, <1>4, OffsetFields, OffsetsDiffer DEF TypeOK, Occupied
<1>10. /\ UNCHANGED <<index, deadlock_offsets, v_page, call, done, result>>
       /\ pc[c] = "p_write" /\ pc'[c] = "p_insert"
  BY DEF TypeOK, PutWrite, Continue, GoTo
<1>11. Offset(c)' = o
  BY <1>6 DEF Offset
<1>12. ~Occupied(o)
  BY <1>4, <1>7 DEF Occupied
<1>13. QED
  BY <1>2, <1>4, <1>6, <1>8, <1>9, <1>10, <1>11, <1>12

LEMMA TakeNextPageEffect ==
    ASSUME TypeOK, ClaimInv, NEW c \in Clients, TakeNextPage(c)
    PROVE  /\ UNCHANGED <<data, index, deadlock_offsets, call, done, result, loc>>
           /\ pc[c] = "p_next" /\ pc'[c] = "p_lock" /\ v_page'[c][1] = c
           /\ \A x \in Offsets : /\ Occupied(x)' => Occupied(x)
                                 /\ Claimed(x.page) => (Occupied(x)' <=> Occupied(x))
                                 /\ x.page # v_page'[c] => (Occupied(x)' <=> Occupied(x))
<1>1. PICK p : p = <<c, v_page[c][2] + 1>>
  OBVIOUS
<1>2. v_page' = [v_page EXCEPT ![c] = p] /\ free' = [free EXCEPT ![p] = Slots]
  BY <1>1 DEF TakeNextPage
<1>3. ~Claimed(p) /\ p[1] = c
  BY <1>1 DEF Claimed, TypeOK, Pages
<1>4. \A x \in Offsets : /\ Occupied(x)' => Occupied(x)
                         /\ x.page # p => (Occupied(x)' <=> Occupied(x))
  BY <1>2, OffsetFields DEF TypeOK, Occupied
<1>5. v_page'[c] = p
  BY <1>2 DEF TypeOK
<1>6. /\ UNCHANGED <<data, index, deadlock_offsets, call, done, result, loc>>
      /\ pc[c] = "p_next" /\ pc'[c] = "p_lock"
  BY DEF TypeOK, TakeNextPage, Continue, GoTo
<1>7. QED
  BY <1>3, <1>4, <1>5, <1>6

LEMMA InsertIndexEffect ==
    ASSUME TypeOK, CallInv, LocInv, NEW c \in Clients, InsertIndex(c)
    PROVE  /\ UNCHANGED <<free, data, deadlock_offsets, v_page, call, done, result>>
           /\ call[c].key \in Keys /\ Offset(c) \in Offsets /\ Is(c, "put")
           /\ pc[c] = "p_insert"
           /\ pc'[c] = IF Replaced(call[c].key) = NONE THEN "p_unlock" ELSE "f_start"
           /\ loc'[c].kv_offset = Replaced(call[c].key)
           /\ loc'[c].is_new = (Replaced(call[c].key) = NONE)
           /\ loc'[c].inserted = loc[c].inserted
           /\ index' = [index EXCEPT ![call[c].key] = Offset(c)]
<1>1. pc[c] = "p_insert" /\ pc'[c] = IF Replaced(call[c].key) = NONE THEN "p_unlock" ELSE "f_start"
  BY DEF TypeOK, InsertIndex, Continue, GoTo
<1>2. call[c].key \in Keys /\ Is(c, "put")
  BY <1>1, ValueTyped DEF CallInv, CallFits, PutSteps
<1>3. Offset(c) \in Offsets
  BY <1>1 DEF LocInv, LocFits, WithOffset
<1>4. loc[c] \in Locals
  BY DEF TypeOK
<1>5. PICK old : old = Replaced(call[c].key)
  OBVIOUS
<1>6. loc' = [loc EXCEPT ![c].kv_offset = old, ![c].is_new = (old = NONE)]
  BY <1>5 DEF InsertIndex
<1>7. /\ loc'[c].kv_offset = old /\ loc'[c].is_new = (old = NONE)
      /\ loc'[c].inserted = loc[c].inserted
  BY <1>4, <1>6 DEF TypeOK, Locals
<1>8. /\ UNCHANGED <<free, data, deadlock_offsets, v_page, call, done, result>>
      /\ index' = [index EXCEPT ![call[c].key] = Offset(c)]
  BY DEF InsertIndex, Insert, Continue
<1>9. QED
  BY <1>1, <1>2, <1>3, <1>5, <1>7, <1>8

(* The slot of the client's offset is free afterwards, and no other slot   *)
(* has changed.                                                            *)
Freed(c) == \A x \in Offsets : Occupied(x)' <=> (Occupied(x) /\ x # Offset(c))

LEMMA FreeEffect ==
    ASSUME TypeOK, CallInv, LocInv, NEW c \in Clients, FreeOnOwnPage(c) \/ FreeLock(c)
    PROVE  /\ UNCHANGED <<data, index, deadlock_offsets, v_page, call, done, result>>
           /\ Freed(c) /\ Offset(c) \in Offsets /\ SameLocals(c)
           /\ FreeOnOwnPage(c) =>
                 /\ Is(c, "put") /\ pc[c] = "f_start" /\ pc'[c] = "f_end"
                 /\ Offset(c).page = v_page[c]
           /\ FreeLock(c) =>
                 /\ pc[c] = "f_cas"
                 /\ Is(c, "remove") => pc'[c] = "f_none"
                 /\ Is(c, "put") => pc'[c] \in {"f_dequeue", "f_unlock"}
<1>1. CallFits(c) /\ LocFits(c) /\ loc[c] \in Locals
  BY DEF CallInv, LocInv, TypeOK
<1>2. pc[c] \in {"f_start", "f_cas"} /\ call' = call
  BY DEF FreeOnOwnPage, FreeLock, Continue, GoTo
<1>3. Offset(c) \in Offsets
  BY <1>1, <1>2 DEF LocFits, WithOffset, FreeSteps
<1>4. free' = [free EXCEPT ![Offset(c).page] = @ \cup {Offset(c).slot}]
  BY DEF FreeOnOwnPage, FreeLock, OnOwnPage, Invalidate
<1>5. Freed(c)
  BY <1>3, <1>4, OffsetFields, OffsetsDiffer DEF TypeOK, Freed, Occupied
<1>6. SameLocals(c)
  BY <1>1 DEF TypeOK, FreeOnOwnPage, FreeLock, SameLocals, Locals
<1>7. UNCHANGED <<data, index, deadlock_offsets, v_page, call, done, result>>
  BY DEF FreeOnOwnPage, FreeLock, Continue
<1>8. FreeOnOwnPage(c) =>
         /\ Is(c, "put") /\ pc[c] = "f_start" /\ pc'[c] = "f_end"
         /\ Offset(c).page = v_page[c]
  BY DEF TypeOK, FreeOnOwnPage, OnOwnPage, Continue, GoTo
<1>9. FreeLock(c) =>
         /\ pc[c] = "f_cas"
         /\ Is(c, "remove") => pc'[c] = "f_none"
         /\ Is(c, "put") => pc'[c] \in {"f_dequeue", "f_unlock"}
  BY DEF TypeOK, FreeLock, AfterInvalidate, AfterFreeLocked, Is, Continue, GoTo
<1>10. QED
  BY <1>3, <1>5, <1>6, <1>7, <1>8, <1>9

(* The client's copy of its page's bitset is the bitset. *)
BitsCurrent(c) ==
    \A x \in Offsets : x.page = v_page[c] => (x.slot \in loc[c].bits <=> ~Occupied(x))

LEMMA RemoveOnOwnPageEffect ==
    ASSUME TypeOK, CallInv, LocInv, NEW c \in Clients, RemoveOnOwnPage(c)
    PROVE  /\ UNCHANGED <<free, data, index, deadlock_offsets, v_page, call, done, result>>
           /\ pc[c] = "f_start" /\ pc'[c] = "r_store" /\ Is(c, "remove")
           /\ SameLocals(c) /\ BitsCurrent(c)'
           /\ Offset(c).page = v_page[c]
<1>1. loc'[c] = [loc[c] EXCEPT !.bits = free[v_page[c]]] /\ loc[c] \in Locals
  BY DEF TypeOK, RemoveOnOwnPage
<1>2. SameLocals(c) /\ loc'[c].bits = free[v_page[c]]
  BY <1>1, Zenon DEF SameLocals, Locals
<1>3. free' = free /\ v_page' = v_page
  BY DEF RemoveOnOwnPage
<1>4. BitsCurrent(c)'
  BY <1>2, <1>3 DEF BitsCurrent, Occupied
<1>5. QED
  BY <1>2, <1>4 DEF TypeOK, RemoveOnOwnPage, Continue, GoTo, OnOwnPage

LEMMA RemoveStoreBitsEffect ==
    ASSUME TypeOK, CallInv, LocInv, NEW c \in Clients, RemoveStoreBits(c)
    PROVE  /\ UNCHANGED <<data, index, deadlock_offsets, v_page, call, done, result, loc>>
           /\ pc[c] = "r_store" /\ pc'[c] = "f_none" /\ Is(c, "remove")
           /\ Offset(c) \in Offsets
           /\ \A x \in Offsets : x.page # v_page[c] => (Occupied(x)' <=> Occupied(x))
           /\ Offset(c).page = v_page[c] /\ BitsCurrent(c) => Freed(c)
<1>1. /\ UNCHANGED <<data, index, deadlock_offsets, v_page, call, done, result, loc>>
      /\ pc[c] = "r_store" /\ pc'[c] = "f_none"
  BY DEF TypeOK, RemoveStoreBits, Continue, GoTo
<1>2. Is(c, "remove") /\ Offset(c) \in Offsets
  BY <1>1 DEF CallInv, CallFits, LocInv, LocFits, WithOffset, FreeSteps
<1>3. free' = [free EXCEPT ![v_page[c]] = loc[c].bits \cup {Offset(c).slot}]
  BY DEF RemoveStoreBits
<1>4. \A x \in Offsets : x.page # v_page[c] => (Occupied(x)' <=> Occupied(x))
  BY <1>3, OffsetFields DEF TypeOK, Occupied
<1>5. Offset(c).page = v_page[c] /\ BitsCurrent(c) => Freed(c)
  BY <1>2, <1>3, OffsetFields, OffsetsDiffer DEF TypeOK, Freed, Occupied, BitsCurrent
<1>6. QED
  BY <1>1, <1>2, <1>4, <1>5

LEMMA ScanQueueEffect ==
    ASSUME TypeOK, CallInv, LocInv, NEW c \in Clients, ScanQueue(c)
    PROVE  /\ UNCHANGED <<data, index, v_page, call, done, result>>
           /\ Offset(c) \in Offsets /\ Offset(c).page # v_page[c]
           /\ loc'[c].kv_offset = Offset(c) /\ loc'[c].inserted
           /\ loc'[c].is_new = loc[c].is_new
           /\ pc[c] = IF Is(c, "remove") THEN "f_clear" ELSE "f_scan"
           /\ IF loc[c].inserted /\ deadlock_offsets[Offset(c)] = 0
              THEN pc'[c] = IF Is(c, "remove") THEN "f_none" ELSE "f_end"
              ELSE pc'[c] = "f_cas" /\ deadlock_offsets'[Offset(c)] > 0
           /\ \A x \in Offsets :
                 IF x.page # v_page[c]
                 THEN /\ deadlock_offsets[x] > 0 => deadlock_offsets'[x] > 0
                      /\ Occupied(x)' <=> Occupied(x)
                 ELSE /\ Is(c, "put") =>
                            (Occupied(x)' <=> Occupied(x) /\ deadlock_offsets[x] = 0)
                      /\ (\A y \in Offsets : y.page = v_page[c] => deadlock_offsets[y] = 0)
                            => (Occupied(x)' <=> Occupied(x))
<1> DEFINE o == Offset(c)
           queue == IF loc[c].inserted THEN deadlock_offsets
                    ELSE [deadlock_offsets EXCEPT ![o] = @ + 1]
           own == {s \in Slots : queue[[page |-> v_page[c], slot |-> s]] > 0}
           found == queue[o] > 0
           bits == IF Is(c, "remove") /\ own # {} THEN loc[c].bits ELSE free[v_page[c]]
<1>1. /\ UNCHANGED <<data, index, v_page, call, done, result>>
      /\ pc[c] = IF Is(c, "remove") THEN "f_clear" ELSE "f_scan"
  BY DEF ScanQueue, Continue, GoTo
<1>2. o \in Offsets /\ o.page # v_page[c]
  BY <1>1 DEF LocInv, LocFits, WithOffset, FreeSteps
<1>3. deadlock_offsets \in [Offsets -> Nat] /\ queue \in [Offsets -> Nat]
  BY <1>2 DEF TypeOK
<1>4. loc' = [loc EXCEPT ![c].inserted = TRUE, ![c].encountered = found]
  BY Zenon DEF ScanQueue
<1>5. deadlock_offsets' = [x \in Offsets |-> IF x.page = v_page[c] THEN 0 ELSE queue[x]]
  BY Zenon DEF ScanQueue, OnOwnPage
<1>6. free' = Invalidate([free EXCEPT ![v_page[c]] = bits], v_page[c], own)
  BY Zenon DEF ScanQueue
<1>7. pc'[c] = IF found THEN "f_cas" ELSE IF Is(c, "remove") THEN "f_none" ELSE "f_end"
  BY DEF TypeOK, ScanQueue, AfterInvalidate, Continue, GoTo
<1>8. found <=> ~(loc[c].inserted /\ deadlock_offsets[o] = 0)
  BY <1>2, <1>3
<1>9. found => deadlock_offsets'[o] > 0
  BY <1>2, <1>5
<1>10. \A x \in Offsets : x.page # v_page[c] /\ deadlock_offsets[x] > 0 => deadlock_offsets'[x] > 0
  BY <1>2, <1>3, <1>5
<1>11. \A x \in Offsets : x.page = v_page[c] => queue[x] = deadlock_offsets[x]
  BY <1>2, <1>3
<1>12. \A x \in Offsets : x.page = v_page[c] => (x.slot \in own <=> deadlock_offsets[x] > 0)
  <2>1. ASSUME NEW x \in Offsets, x.page = v_page[c]
        PROVE  x.slot \in own <=> deadlock_offsets[x] > 0
    <3>1. x = [page |-> v_page[c], slot |-> x.slot] /\ x.slot \in Slots
      BY <2>1 DEF Offsets
    <3>2. x.slot \in own <=> queue[x] > 0
      BY <3>1
    <3>3. QED
      BY <1>11, <2>1, <3>2
  <2>2. QED
    BY <2>1
<1>13. (\A y \in Offsets : y.page = v_page[c] => deadlock_offsets[y] = 0) => own = {}
  <2>1. ASSUME NEW s \in own PROVE \E y \in Offsets : y.page = v_page[c] /\ deadlock_offsets[y] > 0
    <3>1. [page |-> v_page[c], slot |-> s] \in Offsets
      BY DEF TypeOK, Offsets
    <3>2. QED
      BY <1>11, <3>1
  <2>2. QED
    BY <2>1, <1>3
<1> HIDE DEF own, queue
<1>14. free' = [free EXCEPT ![v_page[c]] = bits \cup own]
  BY <1>6 DEF TypeOK, Invalidate
<1>15. ASSUME NEW x \in Offsets
       PROVE  IF x.page # v_page[c]
              THEN Occupied(x)' <=> Occupied(x)
              ELSE /\ Is(c, "put") =>
                         (Occupied(x)' <=> Occupied(x) /\ deadlock_offsets[x] = 0)
                   /\ (\A y \in Offsets : y.page = v_page[c] => deadlock_offsets[y] = 0)
                         => (Occupied(x)' <=> Occupied(x))
  <2>1. x.page \in Pages /\ v_page[c] \in Pages /\ deadlock_offsets[x] \in Nat
    BY <1>3, OffsetFields DEF TypeOK
  <2>2. free'[x.page] = IF x.page = v_page[c] THEN bits \cup own ELSE free[x.page]
    BY <1>14, <2>1 DEF TypeOK
  <2>3. Is(c, "put") => bits = free[v_page[c]]
    BY DEF Is
  <2>4. own = {} => bits = free[v_page[c]]
    OBVIOUS
  <2> HIDE DEF bits
  <2>5. QED
    BY <1>12, <1>13, <2>1, <2>2, <2>3, <2>4 DEF Occupied
<1>16. loc[c] \in Locals /\ found \in BOOLEAN
  BY <1>2, <1>3, <1>8 DEF TypeOK
<1> HIDE DEF found
<1>17. loc'[c].kv_offset = o /\ loc'[c].inserted /\ loc'[c].is_new = loc[c].is_new
  BY <1>4, <1>16 DEF TypeOK, Locals, Offset
<1>18. QED
  BY <1>1, <1>2, <1>7, <1>8, <1>9, <1>10, <1>15, <1>17

LEMMA ClearIndexEffect ==
    ASSUME TypeOK, CallInv, LocInv, NEW c \in Clients, ClearIndex(c)
    PROVE  /\ UNCHANGED <<free, data, deadlock_offsets, v_page, call, done, result, loc>>
           /\ pc[c] = "f_none" /\ pc'[c] \in {"f_dequeue", "f_unlock", "f_end"}
           /\ Is(c, "remove") /\ call[c].key \in Keys /\ Offset(c) \in Offsets
           /\ index' = [index EXCEPT ![call[c].key] = NONE]
<1>1. /\ UNCHANGED <<free, data, deadlock_offsets, v_page, call, done, result, loc>>
      /\ pc[c] = "f_none" /\ pc'[c] \in {"f_dequeue", "f_unlock", "f_end"}
      /\ index' = [index EXCEPT ![call[c].key] = NONE]
  BY DEF TypeOK, ClearIndex, Insert, AfterFreeLocked, Continue, GoTo
<1>2. QED
  BY <1>1, ValueTyped DEF CallInv, CallFits, LocInv, LocFits, WithOffset, FreeSteps

LEMMA DequeueEffect ==
    ASSUME TypeOK, CallInv, LocInv, NEW c \in Clients, Dequeue(c)
    PROVE  /\ UNCHANGED <<free, data, index, v_page, call, done, result, loc>>
           /\ pc[c] = "f_erase" /\ pc'[c] = "f_unlock" /\ Offset(c) \in Offsets
           /\ \A x \in Offsets : x # Offset(c) => deadlock_offsets'[x] = deadlock_offsets[x]
<1>1. /\ UNCHANGED <<free, data, index, v_page, call, done, result, loc>>
      /\ pc[c] = "f_erase" /\ pc'[c] = "f_unlock"
  BY DEF TypeOK, Dequeue, Continue, GoTo
<1>2. QED
  BY <1>1 DEF TypeOK, Dequeue, LocInv, LocFits, WithOffset, FreeSteps

LEMMA UpdateWriteEffect ==
    ASSUME TypeOK, CallInv, LocInv, NEW c \in Clients, UpdateWrite(c)
    PROVE  /\ UNCHANGED <<free, index, deadlock_offsets, v_page, call, done, result, loc>>
           /\ pc[c] = "u_write" /\ pc'[c] = "u_unlock" /\ Offset(c) \in Offsets
           /\ \A x \in Offsets :
                 /\ RecordAt(x)'.key = RecordAt(x).key
                 /\ x # Offset(c) => RecordAt(x)' = RecordAt(x)
                 /\ x = Offset(c) => RecordAt(x)'.value = Value(c)
<1>1. /\ UNCHANGED <<free, index, deadlock_offsets, v_page, call, done, result, loc>>
      /\ pc[c] = "u_write" /\ pc'[c] = "u_unlock"
  BY DEF TypeOK, UpdateWrite, Continue, GoTo
<1>2. Offset(c) \in Offsets
  BY <1>1 DEF LocInv, LocFits, WithOffset
<1>3. PICK v : v = Value(c)
  OBVIOUS
<1>4. data' = [data EXCEPT ![Offset(c).page][Offset(c).slot].value = v]
  BY <1>3 DEF UpdateWrite
<1>5. ASSUME NEW x \in Offsets
      PROVE  /\ RecordAt(x)'.key = RecordAt(x).key
             /\ x # Offset(c) => RecordAt(x)' = RecordAt(x)
             /\ x = Offset(c) => RecordAt(x)'.value = v
  <2>1. /\ x.page \in Pages /\ x.slot \in Slots
        /\ Offset(c).page \in Pages /\ Offset(c).slot \in Slots
    BY <1>2, OffsetFields
  <2>2. data[x.page][x.slot] \in Records
    BY <2>1 DEF TypeOK
  <2>3. CASE x # Offset(c)
    <3>1. x.page # Offset(c).page \/ x.slot # Offset(c).slot
      BY <1>2, <2>3, OffsetsDiffer
    <3>2. RecordAt(x)' = RecordAt(x)
      BY <1>4, <2>1, <3>1 DEF TypeOK, RecordAt
    <3>3. QED
      BY <2>3, <3>2
  <2>4. CASE x = Offset(c)
    <3>1. data'[x.page][x.slot] = [data[x.page][x.slot] EXCEPT !.value = v]
      BY <1>4, <2>1, <2>4 DEF TypeOK
    <3>2. data'[x.page][x.slot].key = data[x.page][x.slot].key /\ data'[x.page][x.slot].value = v
      BY <2>2, <3>1 DEF Records
    <3>3. QED
      BY <2>4, <3>2 DEF RecordAt
  <2>5. QED
    BY <2>3, <2>4
<1>6. QED
  BY <1>1, <1>2, <1>3, <1>5

-----------------------------------------------------------------------------
(* The calls a client's program may contain.                               *)
Plans(c, name, k) ==
    \E n \in 1 .. Len(Program[c]) : [name |-> name, key |-> k] \in Program[c][n]

(* The clients that may replace or remove the record of a key, and those   *)
(* that may change its value in any way.                                   *)
Replacers(k) == {c \in Clients : Plans(c, "put", k) \/ Plans(c, "remove", k)}
Writers(k) == {c \in Clients : Plans(c, "put", k) \/ Plans(c, "update", k) \/ Plans(c, "remove", k)}

(* Where a client is tells the call it makes and the pages it has to do    *)
(* with: an offset is on a page of a client that puts the key.             *)
HomeFits(c) ==
    /\ pc[c] # "idle" => Plans(c, call[c].name, call[c].key)
    /\ pc[c] \in {"g_get", "g_version", "g_read"} => Is(c, "get")
    /\ pc[c] \in {"u_get", "u_lock", "u_write", "u_unlock"} => Is(c, "update")
    /\ pc[c] \in WithOffset => Plans(Offset(c).page[1], "put", call[c].key)
    /\ pc[c] = "p_insert" => /\ Offset(c).page = v_page[c]
                             /\ RecordAt(Offset(c)).key = call[c].key
    /\ pc[c] = "r_store" => Offset(c).page = v_page[c]

HomeInv ==
    /\ \A c \in Clients : HomeFits(c)
    /\ \A k \in Keys : index[k] # NONE => Plans(index[k].page[1], "put", k)

LEMMA StartEffect ==
    ASSUME TypeOK, NEW c \in Clients, Start(c)
    PROVE  /\ UNCHANGED <<free, data, index, deadlock_offsets, v_page, size, loc, done>>
           /\ pc[c] = "idle" /\ call'[c] \in Calls
           /\ pc'[c] = FirstStep[call'[c].name]
           /\ Plans(c, call'[c].name, call'[c].key)
           /\ result' = [result EXCEPT ![c] = NoResult]
<1>1. PICK x \in Program[c][done[c] + 1] :
         /\ call' = [call EXCEPT ![c] = x]
         /\ pc' = [pc EXCEPT ![c] = FirstStep[x.name]]
  BY DEF Start, GoTo
<1>2. done[c] + 1 \in 1 .. Len(Program[c])
  BY DEF TypeOK, Start
<1>3. Program[c] \in Seq(SUBSET Calls)
  BY StoreAssumption
<1>4. x \in Calls
  BY <1>2, <1>3
<1>5. x = [name |-> x.name, key |-> x.key]
  BY <1>4 DEF Calls
<1>6. Plans(c, x.name, x.key)
  BY <1>1, <1>2, <1>5 DEF Plans
<1>7. call'[c] = x /\ pc'[c] = FirstStep[x.name]
  BY <1>1 DEF TypeOK
<1>8. /\ UNCHANGED <<free, data, index, deadlock_offsets, v_page, size, loc, done>>
      /\ pc[c] = "idle"
      /\ result' = [result EXCEPT ![c] = NoResult]
  BY DEF Start, GoTo
<1>9. QED
  BY <1>4, <1>6, <1>7, <1>8

LEMMA FirstSteps ==
    ASSUME NEW x \in Calls
    PROVE  /\ FirstStep[x.name] \in {"p_lock", "g_get", "u_get", "r_get"}
           /\ FirstStep[x.name] = "g_get" => x.name = "get"
           /\ FirstStep[x.name] = "u_get" => x.name = "update"
  BY DEF Calls, OpNames, FirstStep

LEMMA KeyOfCall ==
    ASSUME TypeOK, CallInv, NEW c \in Clients, pc[c] # "idle"
    PROVE  call[c].key \in Keys
  BY ValueTyped

(* A slot that another client has just written keeps the key it wrote.     *)
LEMMA FreshKey ==
    ASSUME TypeOK, CallInv, LocInv, ClaimInv, HomeInv, NEW c \in Clients, Start(c) \/ Step(c),
           NEW d \in Clients \ {c}, pc[d] = "p_insert"
    PROVE  RecordAt(Offset(d))'.key = RecordAt(Offset(d)).key
<1>1. PICK o : o = Offset(d)
  OBVIOUS
<1>2. Offset(d)' = o
  BY <1>1, OthersStay DEF Offset
<1>3. o \in Offsets /\ o.page = v_page[d]
  BY <1>1 DEF LocInv, LocFits, WithOffset, HomeInv, HomeFits
<1>4. o.page # v_page[c]
  BY <1>3 DEF ClaimInv
<1>5. CASE PutWrite(c)
  BY <1>2, <1>1, <1>3, <1>4, <1>5, PutWriteEffect
<1>6. CASE UpdateWrite(c)
  BY <1>2, <1>1, <1>3, <1>6, UpdateWriteEffect
<1>7. CASE data' = data
  BY <1>1, <1>2, <1>7 DEF RecordAt
<1>8. QED
  BY <1>5, <1>6, <1>7, StepKinds, StartEffect, TakeNextPageEffect, InsertIndexEffect,
     FreeEffect, RemoveOnOwnPageEffect, RemoveStoreBitsEffect, ScanQueueEffect,
     ClearIndexEffect, DequeueEffect DEF Quiet, Ends, Finds

LEMMA HomeStep ==
    ASSUME TypeOK, CallInv, LocInv, ClaimInv, HomeInv, [Next]_vars
    PROVE  HomeInv'
<1>1. ASSUME NEW c \in Clients, Start(c) \/ Step(c) PROVE HomeInv'
  <2>1. ASSUME NEW d \in Clients \ {c} PROVE HomeFits(d)'
    BY <1>1, <2>1, OthersStay, FreshKey DEF HomeInv, HomeFits, Is, Offset
  <2>2. HomeFits(c) /\ CallFits(c) /\ LocFits(c) /\ v_page[c][1] = c
    BY DEF HomeInv, CallInv, LocInv, ClaimInv
  <2>3. ASSUME HomeFits(c)', index' = index PROVE HomeInv'
    BY <2>1, <2>3 DEF HomeInv
  <2>4. CASE Start(c)
    <3>1. pc'[c] \in {"p_lock", "g_get", "u_get", "r_get"}
      BY <2>4, StartEffect, FirstSteps
    <3>2. HomeFits(c)'
      BY <2>4, <3>1, StartEffect, FirstSteps DEF HomeFits, WithOffset, FreeSteps, Is
    <3>3. QED
      BY <2>3, <2>4, <3>2, StartEffect
  <2>5. CASE Quiet(c)
    <3>1. index' = index
      BY <2>5 DEF Quiet
    <3>2. HomeFits(c)'
      BY <2>2, <2>5 DEF HomeFits, Quiet, QuietMoves, SameLocals, WithOffset, FreeSteps, Is, Offset
    <3>3. QED
      BY <2>3, <3>1, <3>2
  <2>6. CASE Ends(c)
    BY <2>3, <2>6 DEF HomeFits, Ends, WithOffset, FreeSteps
  <2>7. CASE Finds(c)
    <3>1. call[c].key \in Keys
      BY <2>7, KeyOfCall DEF Finds
    <3>2. Plans(Offset(c)'.page[1], "put", call[c].key)
      BY <2>7, <3>1 DEF HomeInv, Finds, Offset
    <3>3. HomeFits(c)'
      BY <2>2, <2>7, <3>2 DEF HomeFits, Finds, WithOffset, FreeSteps, Is, Offset
    <3>4. QED
      BY <2>3, <2>7, <3>3 DEF Finds
  <2>8. CASE PutWrite(c)
    <3>1. /\ pc[c] = "p_write" /\ pc'[c] = "p_insert" /\ call' = call /\ v_page' = v_page
          /\ index' = index
      BY <2>8, PutWriteEffect
    <3>2. Is(c, "put")
      BY <2>2, <3>1 DEF CallFits, PutSteps
    <3>3. PICK o \in Offsets : Offset(c)' = o /\ o.page = v_page[c] /\ RecordAt(o)'.key = call[c].key
      BY <2>8, PutWriteEffect
    <3>4. Plans(o.page[1], "put", call[c].key)
      BY <2>2, <3>1, <3>2, <3>3 DEF HomeFits, Is
    <3>5. RecordAt(Offset(c))'.key = call[c].key
      BY <3>3
    <3>6. HomeFits(c)'
      BY <2>2, <3>1, <3>3, <3>4, <3>5 DEF HomeFits, Is
    <3>7. QED
      BY <2>3, <3>1, <3>6
  <2>9. CASE TakeNextPage(c)
    <3>1. HomeFits(c)'
      BY <2>2, <2>9, TakeNextPageEffect DEF HomeFits, WithOffset, FreeSteps, Is
    <3>2. QED
      BY <2>3, <2>9, <3>1, TakeNextPageEffect
  <2>10. CASE InsertIndex(c)
    <3> DEFINE k == call[c].key
               old == Replaced(call[c].key)
    <3>1. /\ k \in Keys /\ pc[c] = "p_insert" /\ call' = call
          /\ pc'[c] = IF old = NONE THEN "p_unlock" ELSE "f_start"
          /\ Offset(c)' = old /\ index' = [index EXCEPT ![k] = Offset(c)]
      BY <2>10, InsertIndexEffect DEF Offset
    <3>2. old # NONE => old = index[k] /\ Plans(old.page[1], "put", k)
      BY <3>1 DEF Replaced, HomeInv
    <3>3. Plans(Offset(c).page[1], "put", k)
      BY <2>2, <3>1 DEF HomeFits, WithOffset
    <3> HIDE DEF old
    <3>4. HomeFits(c)'
      BY <2>2, <3>1, <3>2 DEF HomeFits, WithOffset, FreeSteps, Is
    <3>5. \A j \in Keys : index'[j] # NONE => Plans(index'[j].page[1], "put", j)
      BY <3>1, <3>3 DEF HomeInv, TypeOK
    <3>6. QED
      BY <2>1, <3>4, <3>5 DEF HomeInv
  <2>11. CASE FreeOnOwnPage(c) \/ FreeLock(c)
    <3>1. HomeFits(c)'
      BY <2>2, <2>11, FreeEffect DEF HomeFits, CallFits, SameLocals, WithOffset, FreeSteps, Is, Offset
    <3>2. QED
      BY <2>3, <2>11, <3>1, FreeEffect
  <2>12. CASE RemoveOnOwnPage(c)
    <3>1. HomeFits(c)'
      BY <2>2, <2>12, RemoveOnOwnPageEffect DEF HomeFits, SameLocals, WithOffset, FreeSteps, Is, Offset
    <3>2. QED
      BY <2>3, <2>12, <3>1, RemoveOnOwnPageEffect
  <2>13. CASE RemoveStoreBits(c)
    <3>1. HomeFits(c)'
      BY <2>2, <2>13, RemoveStoreBitsEffect DEF HomeFits, WithOffset, FreeSteps, Is, Offset
    <3>2. QED
      BY <2>3, <2>13, <3>1, RemoveStoreBitsEffect
  <2>14. CASE ScanQueue(c)
    <3>1. /\ pc[c] \in {"f_scan", "f_clear"} /\ pc'[c] \in {"f_cas", "f_none", "f_end"}
          /\ index' = index /\ call' = call /\ Offset(c)' = Offset(c) /\ v_page' = v_page
      BY <2>14, ScanQueueEffect DEF Offset
    <3>2. HomeFits(c)'
      BY <2>2, <3>1 DEF HomeFits, WithOffset, FreeSteps, Is
    <3>3. QED
      BY <2>3, <3>1, <3>2
  <2>15. CASE ClearIndex(c)
    <3>1. /\ pc[c] = "f_none" /\ pc'[c] \in {"f_dequeue", "f_unlock", "f_end"}
          /\ call' = call /\ loc' = loc /\ call[c].key \in Keys
          /\ index' = [index EXCEPT ![call[c].key] = NONE]
      BY <2>15, ClearIndexEffect
    <3>2. HomeFits(c)'
      BY <2>2, <3>1 DEF HomeFits, WithOffset, FreeSteps, Is, Offset
    <3>3. \A j \in Keys : index'[j] # NONE => Plans(index'[j].page[1], "put", j)
      BY <3>1 DEF HomeInv, TypeOK
    <3>4. QED
      BY <2>1, <3>2, <3>3 DEF HomeInv
  <2>16. CASE Dequeue(c)
    <3>1. HomeFits(c)'
      BY <2>2, <2>16, DequeueEffect DEF HomeFits, WithOffset, FreeSteps, Is, Offset
    <3>2. QED
      BY <2>3, <2>16, <3>1, DequeueEffect
  <2>17. CASE UpdateWrite(c)
    <3>1. HomeFits(c)'
      BY <2>2, <2>17, UpdateWriteEffect DEF HomeFits, WithOffset, Is, Offset
    <3>2. QED
      BY <2>3, <2>17, <3>1, UpdateWriteEffect
  <2>18. QED
    BY <1>1, <2>4, <2>5, <2>6, <2>7, <2>8, <2>9, <2>10, <2>11, <2>12, <2>13, <2>14, <2>15, <2>16, <2>17, StepKinds
<1>2. CASE UNCHANGED vars
  BY <1>2 DEF HomeInv, HomeFits, Is, Offset, RecordAt, vars
<1>3. QED
  BY <1>1, <1>2 DEF Next, Finished

LEMMA HomeInit == Init => HomeInv
  BY DEF Init, HomeInv, HomeFits, WithOffset, FreeSteps, NoLocals

(* No other client frees a slot on a page of this one. *)
Apart(c) ==
    \A d \in Clients \ {c} : pc[d] \in FreeSteps \ {"f_end"} => Offset(d).page[1] # c

LEMMA QueuedIsAwaited ==
    ASSUME TypeOK, QueueInv, NEW o \in Offsets, deadlock_offsets[o] > 0
    PROVE  \E c \in Clients : Awaits(c, o)
<1>1. deadlock_offsets[o] \in Nat /\ deadlock_offsets[o] <= Cardinality(Waiters(o))
  BY DEF TypeOK, QueueInv
<1>2. Cardinality(Waiters(o)) # 0
  BY <1>1, WaitersAreFinite
<1>3. Waiters(o) # {}
  BY <1>2, FS_EmptySet
<1>4. QED
  BY <1>3 DEF Waiters

(* What no step does.  The read-modify-writes of remove are harmless as    *)
(* long as the copy of the bitset is current and others stay away.         *)
LEMMA Effects ==
    ASSUME TypeOK, CallInv, LocInv, ClaimInv, QueueInv, HomeInv,
           NEW c \in Clients, Start(c) \/ Step(c),
           pc[c] = "r_store" => BitsCurrent(c),
           pc[c] = "f_clear" => Apart(c)
    PROVE  /\ \A x \in Offsets :
                 /\ Occupied(x)' /\ ~Occupied(x) => PutWrite(c) /\ x = Offset(c)'
                 /\ Occupied(x) /\ ~Occupied(x)' =>
                       x.page[1] = c \/ (pc[c] = "f_cas" /\ x = Offset(c))
                 /\ deadlock_offsets[x] > 0 /\ ~(deadlock_offsets'[x] > 0) =>
                       \/ ScanQueue(c) /\ x.page = v_page[c]
                       \/ Dequeue(c) /\ x = Offset(c)
                 /\ RecordAt(x)'.key # RecordAt(x).key => PutWrite(c) /\ x = Offset(c)'
           /\ \A k \in Keys : index'[k] # index[k] =>
                 k = call[c].key /\ (InsertIndex(c) \/ ClearIndex(c))
<1>1. v_page[c][1] = c /\ HomeFits(c)
  BY DEF ClaimInv, HomeInv
<1>2. CASE Start(c) \/ Quiet(c) \/ Ends(c) \/ Finds(c)
  BY <1>2, StartEffect DEF Quiet, Ends, Finds, Occupied, RecordAt
<1>3. CASE PutWrite(c)
  BY <1>3, PutWriteEffect
<1>4. CASE TakeNextPage(c)
  <2>1. data' = data /\ index' = index /\ deadlock_offsets' = deadlock_offsets
    BY <1>4, TakeNextPageEffect
  <2>2. \A x \in Offsets : RecordAt(x)' = RecordAt(x)
    BY <2>1 DEF RecordAt
  <2>3. \A x \in Offsets : /\ Occupied(x)' => Occupied(x)
                           /\ Occupied(x) /\ ~Occupied(x)' => x.page[1] = c
    BY <1>4, TakeNextPageEffect
  <2>4. QED
    BY <2>1, <2>2, <2>3
<1>5. CASE InsertIndex(c)
  BY <1>5, InsertIndexEffect DEF TypeOK, Occupied, RecordAt
<1>6. CASE FreeOnOwnPage(c) \/ FreeLock(c)
  BY <1>1, <1>6, FreeEffect DEF Freed, RecordAt
<1>7. CASE RemoveOnOwnPage(c)
  BY <1>7, RemoveOnOwnPageEffect DEF Occupied, RecordAt
<1>8. CASE RemoveStoreBits(c)
  <2>1. pc[c] = "r_store" /\ UNCHANGED <<data, index, deadlock_offsets>>
    BY <1>8, RemoveStoreBitsEffect
  <2>2. Freed(c) /\ Offset(c).page = v_page[c]
    BY <1>1, <1>8, <2>1, RemoveStoreBitsEffect DEF HomeFits
  <2>3. QED
    BY <1>1, <2>1, <2>2 DEF Freed, RecordAt
<1>9. CASE ScanQueue(c)
  <2>1. data' = data /\ index' = index
    BY <1>9, ScanQueueEffect
  <2>2. \A x \in Offsets : RecordAt(x)' = RecordAt(x)
    BY <2>1 DEF RecordAt
  <2>3. ASSUME NEW x \in Offsets
        PROVE  /\ Occupied(x)' => Occupied(x)
               /\ Occupied(x) /\ ~Occupied(x)' => x.page[1] = c
               /\ deadlock_offsets[x] > 0 /\ ~(deadlock_offsets'[x] > 0) => x.page = v_page[c]
    <3>1. Is(c, "put") \/ \A y \in Offsets : y.page = v_page[c] => deadlock_offsets[y] = 0
      <4>1. Is(c, "put") \/ (Is(c, "remove") /\ pc[c] = "f_clear")
        BY <1>9, ScanQueueEffect DEF CallInv, CallFits, FreeSteps
      <4>2. ASSUME Is(c, "remove"), NEW y \in Offsets, y.page = v_page[c], deadlock_offsets[y] > 0
            PROVE  FALSE
        <5>1. PICK d \in Clients : Awaits(d, y)
          BY <4>2, QueuedIsAwaited
        <5>2. d # c
          BY <1>9, <4>2, <5>1, ScanQueueEffect DEF Awaits
        <5>3. Apart(c)
          BY <1>9, <4>2, ScanQueueEffect
        <5>4. QED
          BY <1>1, <4>2, <5>1, <5>2, <5>3 DEF Awaits, Apart, FreeSteps
      <4>3. \A y \in Offsets : deadlock_offsets[y] \in Nat
        BY DEF TypeOK
      <4>4. QED
        BY <4>1, <4>2, <4>3
    <3>2. QED
      BY <1>1, <1>9, <3>1, ScanQueueEffect
  <2>4. QED
    BY <1>9, <2>1, <2>2, <2>3
<1>10. CASE ClearIndex(c)
  BY <1>10, ClearIndexEffect DEF TypeOK, Occupied, RecordAt
<1>11. CASE Dequeue(c)
  BY <1>11, DequeueEffect DEF Occupied, RecordAt
<1>12. CASE UpdateWrite(c)
  BY <1>12, UpdateWriteEffect DEF Occupied
<1>13. QED
  BY <1>2, <1>3, <1>4, <1>5, <1>6, <1>7, <1>8, <1>9, <1>10, <1>11, <1>12, StepKinds

-----------------------------------------------------------------------------
(* Replaced and removed records leave no slot behind, if a client that     *)
(* removes records shares no key with another client that puts or removes: *)
(* remove changes the bitset of its own page without the page's lock, and  *)
(* clears the index without a look at what it holds by then.               *)
RemoversAlone ==
    \A c \in Clients : \A j, k \in Keys :
        Plans(c, "remove", j) /\ c \in Replacers(k) => Replacers(k) = {c}

(* A put that replaced the record in this slot is about to free it.  Once  *)
(* the offset is in the deadlock queue, it stays there until it is freed.  *)
Pending(c, o) ==
    /\ Is(c, "put") /\ Offset(c) = o
    /\ pc[c] \in {"f_start", "f_cas", "f_queue", "f_scan"}
    /\ loc[c].inserted => deadlock_offsets[o] > 0

Fresh(c, o) == pc[c] = "p_insert" /\ Offset(c) = o

Accounted(o) ==
    \/ index[RecordAt(o).key] = o
    \/ \E c \in Clients : Fresh(c, o) \/ Pending(c, o)

Removing(c) ==
    /\ Is(c, "remove")
    /\ pc[c] \in {"f_start", "r_store", "f_cas", "f_queue", "f_scan", "f_clear", "f_none"}

LeakFits(c) ==
    /\ pc[c] \in {"f_dequeue", "f_erase", "f_none"} => ~Occupied(Offset(c))
    /\ Removing(c) => index[call[c].key] = Offset(c)
    /\ Removing(c) /\ loc[c].inserted /\ pc[c] # "f_none" => deadlock_offsets[Offset(c)] > 0
    /\ pc[c] = "r_store" => BitsCurrent(c)

LeakInv ==
    /\ \A c \in Clients : LeakFits(c)
    /\ \A o \in Offsets : Occupied(o) => RecordAt(o).key \in Keys /\ Accounted(o)

LEMMA RemoverIsApart ==
    ASSUME TypeOK, CallInv, LocInv, HomeInv, RemoversAlone, NEW c \in Clients, Removing(c)
    PROVE  /\ Offset(c) \in Offsets /\ Offset(c).page[1] = c
           /\ Apart(c)
           /\ \A d \in Clients \ {c} :
                 pc[d] # "idle" /\ (Is(d, "put") \/ Is(d, "remove")) => call[d].key # call[c].key
<1>1. Offset(c) \in Offsets /\ pc[c] # "idle" /\ Plans(c, "remove", call[c].key)
      /\ Plans(Offset(c).page[1], "put", call[c].key)
  BY DEF Removing, LocInv, LocFits, WithOffset, FreeSteps, HomeInv, HomeFits, Is
<1>2. call[c].key \in Keys /\ Replacers(call[c].key) = {c}
  BY <1>1, KeyOfCall DEF RemoversAlone, Replacers
<1>3. Offset(c).page[1] \in Clients
  BY <1>1, OffsetFields DEF Pages
<1>4. Offset(c).page[1] = c
  BY <1>1, <1>2, <1>3 DEF Replacers
<1>5. ASSUME NEW d \in Clients \ {c}, pc[d] # "idle", Is(d, "put") \/ Is(d, "remove")
      PROVE  d \in Replacers(call[d].key) /\ call[d].key # call[c].key /\ call[d].key \in Keys
  BY <1>2, <1>5, KeyOfCall DEF HomeInv, HomeFits, Replacers, Is
<1>6. ASSUME NEW d \in Clients \ {c}, pc[d] \in FreeSteps \ {"f_end"}
      PROVE  Offset(d).page[1] # c
  <2>1. Plans(Offset(d).page[1], "put", call[d].key) /\ d \in Replacers(call[d].key)
        /\ call[d].key \in Keys
    BY <1>5, <1>6 DEF HomeInv, HomeFits, WithOffset, CallInv, CallFits, FreeSteps
  <2>2. SUFFICES ASSUME Offset(d).page[1] = c PROVE FALSE
    OBVIOUS
  <2>3. c \in Replacers(call[d].key)
    BY <2>1, <2>2 DEF Replacers
  <2>4. Replacers(call[d].key) = {c}
    BY <1>1, <1>2, <2>1, <2>3 DEF RemoversAlone
  <2>5. QED
    BY <2>1, <2>4
<1>7. QED
  BY <1>1, <1>4, <1>5, <1>6 DEF Apart

(* The effects, without conditions. *)
LEMMA LeakEffects ==
    ASSUME StoreInv, QueueInv, HomeInv, RemoversAlone, LeakInv,
           NEW c \in Clients, Start(c) \/ Step(c)
    PROVE  /\ \A x \in Offsets :
                 /\ Occupied(x)' /\ ~Occupied(x) => PutWrite(c) /\ x = Offset(c)'
                 /\ Occupied(x) /\ ~Occupied(x)' =>
                       x.page[1] = c \/ (pc[c] = "f_cas" /\ x = Offset(c))
                 /\ deadlock_offsets[x] > 0 /\ ~(deadlock_offsets'[x] > 0) =>
                       \/ ScanQueue(c) /\ x.page = v_page[c]
                       \/ Dequeue(c) /\ x = Offset(c)
                 /\ RecordAt(x)'.key # RecordAt(x).key => PutWrite(c) /\ x = Offset(c)'
           /\ \A k \in Keys : index'[k] # index[k] =>
                 k = call[c].key /\ (InsertIndex(c) \/ ClearIndex(c))
<1>1. pc[c] = "r_store" => BitsCurrent(c)
  BY DEF LeakInv, LeakFits
<1>2. pc[c] = "f_clear" => Apart(c)
  BY RemoverIsApart DEF StoreInv, Removing, CallInv, CallFits
<1>3. QED
  BY <1>1, <1>2, Effects DEF StoreInv

LEMMA OthersLeak ==
    ASSUME StoreInv, QueueInv, HomeInv, RemoversAlone, LeakInv,
           NEW c \in Clients, Start(c) \/ Step(c), NEW d \in Clients \ {c}
    PROVE  LeakFits(d)'
<1>1. /\ pc'[d] = pc[d] /\ call'[d] = call[d] /\ loc'[d] = loc[d] /\ v_page'[d] = v_page[d]
      /\ v_page[c][1] = c /\ v_page[d][1] = d
      /\ LeakFits(d) /\ CallFits(d) /\ LocFits(d)
  BY OthersStay DEF StoreInv, ClaimInv, CallInv, LocInv, LeakInv
<1>2. PICK o : o = Offset(d)
  OBVIOUS
<1>3. Offset(d)' = o
  BY <1>1, <1>2 DEF Offset
<1>4. PutWrite(c) => /\ pc[c] = "p_write" /\ Offset(c)'.page = v_page[c]
  BY PutWriteEffect DEF StoreInv
<1>5. ASSUME Removing(d)
      PROVE  /\ o \in Offsets /\ o.page[1] = d
             /\ index'[call[d].key] = index[call[d].key]
             /\ pc[c] \in FreeSteps \ {"f_end"} => Offset(c).page[1] # d
  <2>1. call[d].key \in Keys
    BY <1>5, KeyOfCall DEF Removing, StoreInv
  <2>2. InsertIndex(c) \/ ClearIndex(c) => call[d].key # call[c].key
    BY <1>5, RemoverIsApart, InsertIndexEffect, ClearIndexEffect DEF StoreInv
  <2>3. index'[call[d].key] = index[call[d].key]
    BY <2>1, <2>2, LeakEffects
  <2>4. QED
    BY <1>2, <1>5, <2>3, RemoverIsApart DEF StoreInv, Apart
<1>6. ASSUME pc[d] \in {"f_dequeue", "f_erase", "f_none"} PROVE ~Occupied(o)'
  <2>1. o \in Offsets /\ ~Occupied(o)
    BY <1>1, <1>2, <1>6 DEF LeakFits, LocFits, WithOffset, FreeSteps
  <2>2. SUFFICES ASSUME PutWrite(c), o = Offset(c)' PROVE FALSE
    BY <2>1, LeakEffects
  <2>3. v_page[c] \in Holding(c)
    BY <1>4, <2>2 DEF Holding
  <2>4. CASE loc[d].has_lock
    <3>1. o.page \in Holding(d)
      BY <1>2, <1>6, <2>4 DEF Holding
    <3>2. QED
      BY <1>4, <2>2, <2>3, <3>1 DEF StoreInv, PageLockExclusive
  <2>5. CASE ~loc[d].has_lock
    <3>1. Removing(d)
      BY <1>1, <1>6, <2>5 DEF LocFits, CallFits, Removing
    <3>2. QED
      BY <1>1, <1>4, <1>5, <2>2, <3>1
  <2>6. QED
    BY <2>4, <2>5
<1>7. ASSUME Removing(d), deadlock_offsets[o] > 0 PROVE deadlock_offsets'[o] > 0
  <2>1. Dequeue(c) => pc[c] \in FreeSteps \ {"f_end"}
    BY DequeueEffect DEF StoreInv, FreeSteps
  <2>2. QED
    BY <1>1, <1>5, <1>7, <2>1, LeakEffects
<1>8. ASSUME pc[d] = "r_store" PROVE BitsCurrent(d)'
  <2>1. Removing(d) /\ BitsCurrent(d)
    BY <1>1, <1>8 DEF CallFits, Removing, LeakFits
  <2>2. \A x \in Offsets : x.page = v_page[d] => (Occupied(x)' <=> Occupied(x))
    BY <1>1, <1>4, <1>5, <2>1, LeakEffects DEF FreeSteps
  <2>3. QED
    BY <1>1, <2>1, <2>2 DEF BitsCurrent
<1>9. Removing(d)' <=> Removing(d)
  BY <1>1 DEF Removing, Is
<1>10. QED
  BY <1>1, <1>2, <1>3, <1>5, <1>6, <1>7, <1>8, <1>9 DEF LeakFits

LEMMA OwnLeak ==
    ASSUME StoreInv, QueueInv, HomeInv, RemoversAlone, LeakInv,
           NEW c \in Clients, Start(c) \/ Step(c)
    PROVE  LeakFits(c)'
<1>1. /\ TypeOK /\ CallInv /\ LocInv /\ ClaimInv
      /\ CallFits(c) /\ LocFits(c) /\ LeakFits(c) /\ HomeFits(c) /\ QueueFits(c)
  BY DEF StoreInv, CallInv, LocInv, LeakInv, HomeInv, QueueInv
<1>2. CASE Start(c)
  <2>1. pc'[c] \in {"p_lock", "g_get", "u_get", "r_get"}
    BY <1>2, StartEffect, FirstSteps DEF StoreInv
  <2>2. QED
    BY <2>1 DEF LeakFits, Removing
<1>3. CASE Quiet(c)
  <2>1. /\ UNCHANGED <<free, index, deadlock_offsets, call>>
        /\ Offset(c)' = Offset(c) /\ loc'[c].inserted = loc[c].inserted
    BY <1>3 DEF Quiet, SameLocals, Offset
  <2>2. pc[c] = "f_start" => ~loc[c].inserted
    BY <1>1 DEF QueueFits
  <2>3. QED
    BY <1>1, <1>3, <2>1, <2>2 DEF Quiet, QuietMoves, LeakFits, Removing, Is, Occupied
<1>4. CASE Ends(c)
  BY <1>4 DEF Ends, LeakFits, Removing
<1>5. CASE Finds(c)
  <2>1. loc[c].inserted = FALSE
    BY <1>1, <1>5, LocalsFields DEF TypeOK, Finds, QueueFits, FreeSteps
  <2>2. QED
    BY <1>1, <1>5, <2>1 DEF Finds, LeakFits, Removing, Is, Offset
<1>6. CASE PutWrite(c) \/ TakeNextPage(c) \/ InsertIndex(c)
  <2>1. pc'[c] \in {"p_insert", "p_lock", "p_unlock", "f_start"} /\ Is(c, "put") /\ call' = call
    BY <1>1, <1>6, PutWriteEffect, TakeNextPageEffect, InsertIndexEffect DEF CallFits, PutSteps
  <2>2. QED
    BY <2>1 DEF LeakFits, Removing, Is
<1>7. CASE FreeOnOwnPage(c) \/ FreeLock(c)
  <2>1. PICK o \in Offsets : o = Offset(c)
    BY <1>1, <1>7, FreeEffect
  <2>2. Offset(c)' = o /\ ~Occupied(o)' /\ index' = index /\ call' = call
    BY <1>1, <1>7, <2>1, FreeEffect DEF Freed, SameLocals, Offset
  <2>3. /\ pc'[c] \in {"f_end", "f_none", "f_dequeue", "f_unlock"}
        /\ pc'[c] = "f_none" => Is(c, "remove") /\ pc[c] = "f_cas"
    BY <1>1, <1>7, FreeEffect DEF CallFits, FreeSteps
  <2>4. QED
    BY <1>1, <2>1, <2>2, <2>3 DEF LeakFits, Removing, Is
<1>8. CASE RemoveOnOwnPage(c)
  <2>1. ~loc[c].inserted
    BY <1>1, <1>8, RemoveOnOwnPageEffect DEF QueueFits
  <2>2. QED
    BY <1>1, <1>8, <2>1, RemoveOnOwnPageEffect DEF LeakFits, Removing, Is, SameLocals, Offset
<1>9. CASE RemoveStoreBits(c)
  <2>1. /\ pc[c] = "r_store" /\ pc'[c] = "f_none" /\ Is(c, "remove") /\ call' = call
        /\ loc' = loc /\ index' = index /\ Offset(c) \in Offsets
    BY <1>1, <1>9, RemoveStoreBitsEffect
  <2>2. Freed(c)
    BY <1>1, <1>9, <2>1, RemoveStoreBitsEffect DEF HomeFits, LeakFits
  <2>3. Offset(c)' = Offset(c) /\ ~Occupied(Offset(c))'
    BY <2>1, <2>2 DEF Freed, Offset, Occupied
  <2>4. QED
    BY <1>1, <2>1, <2>3 DEF LeakFits, Removing, Is
<1>10. CASE ScanQueue(c)
  <2>1. /\ index' = index /\ call' = call /\ Offset(c)' = Offset(c)
        /\ pc[c] \in {"f_scan", "f_clear"} /\ pc'[c] \in {"f_cas", "f_none", "f_end"}
        /\ Is(c, "remove") => pc[c] = "f_clear"
        /\ pc'[c] = "f_none" => loc[c].inserted /\ ~(deadlock_offsets[Offset(c)] > 0)
        /\ pc'[c] = "f_cas" => deadlock_offsets'[Offset(c)] > 0
    BY <1>1, <1>10, ScanQueueEffect DEF Offset
  <2>2. pc[c] = "f_clear" => Is(c, "remove")
    BY <1>1 DEF CallFits
  <2>3. pc'[c] # "f_none"
    BY <1>1, <1>10, <2>1, <2>2, ScanQueueEffect DEF LeakFits, Removing
  <2>4. QED
    BY <1>1, <2>1, <2>3 DEF LeakFits, Removing, Is
<1>11. CASE ClearIndex(c)
  <2>1. /\ free' = free /\ Offset(c)' = Offset(c) /\ pc[c] = "f_none"
        /\ pc'[c] \in {"f_dequeue", "f_unlock", "f_end"}
    BY <1>1, <1>11, ClearIndexEffect DEF Offset
  <2>2. QED
    BY <1>1, <2>1 DEF LeakFits, Removing, Occupied
<1>12. CASE Dequeue(c) \/ UpdateWrite(c)
  BY <1>1, <1>12, DequeueEffect, UpdateWriteEffect DEF LeakFits, Removing
<1>13. QED
  BY <1>1, <1>2, <1>3, <1>4, <1>5, <1>6, <1>7, <1>8, <1>9, <1>10, <1>11, <1>12, StepKinds

(* A slot that was occupied before the step, and still is, has still       *)
(* somebody to account for it.                                             *)
LEMMA StillAccounted ==
    ASSUME StoreInv, QueueInv, HomeInv, RemoversAlone, LeakInv, IndexReturnsOld,
           NEW c \in Clients, Start(c) \/ Step(c),
           NEW o \in Offsets, Occupied(o), Occupied(o)'
    PROVE  RecordAt(o)'.key \in Keys /\ Accounted(o)'
<1>1. /\ TypeOK /\ CallInv /\ LocInv /\ ClaimInv
      /\ CallFits(c) /\ LocFits(c) /\ LeakFits(c) /\ HomeFits(c) /\ QueueFits(c)
  BY DEF StoreInv, CallInv, LocInv, LeakInv, HomeInv, QueueInv
<1>2. PICK k \in Keys : k = RecordAt(o).key
  BY DEF LeakInv
<1>3. RecordAt(o)'.key = k
  <2>1. ~(PutWrite(c) /\ o = Offset(c)')
    BY <1>1, PutWriteEffect
  <2>2. QED
    BY <1>2, <2>1, LeakEffects
<1>4. SUFFICES index'[k] = o \/ \E d \in Clients : (Fresh(d, o) \/ Pending(d, o))'
  BY <1>2, <1>3 DEF Accounted
<1>5. CASE index[k] = o
  <2>1. CASE InsertIndex(c) /\ k = call[c].key
    <3>1. o # NONE /\ Replaced(k) = o
      BY <1>5, StoreAssumption DEF Replaced
    <3>2. Pending(c, o)'
      <4>1. /\ Offset(c)' = o /\ pc'[c] = "f_start" /\ Is(c, "put")' /\ ~loc'[c].inserted
        BY <1>1, <2>1, <3>1, InsertIndexEffect DEF Offset, Is, QueueFits, FreeSteps
      <4>2. QED
        BY <4>1 DEF Pending
    <3>3. QED
      BY <3>2
  <2>2. CASE ClearIndex(c) /\ k = call[c].key
    <3>1. index[k] = Offset(c) /\ ~Occupied(Offset(c))
      BY <1>1, <2>2, ClearIndexEffect DEF LeakFits, Removing
    <3>2. QED
      BY <1>5, <3>1
  <2>3. CASE ~(k = call[c].key /\ (InsertIndex(c) \/ ClearIndex(c)))
    BY <1>5, <2>3, LeakEffects
  <2>4. QED
    BY <2>1, <2>2, <2>3
<1>6. ASSUME NEW d \in Clients, Fresh(d, o)
      PROVE  index'[k] = o \/ \E e \in Clients : (Fresh(e, o) \/ Pending(e, o))'
  <2>1. CASE d = c
    <3>1. InsertIndex(c)
      BY <1>1, <1>6, <2>1, StepKinds, StartEffect, PutWriteEffect, TakeNextPageEffect, FreeEffect,
         RemoveOnOwnPageEffect, RemoveStoreBitsEffect, ScanQueueEffect, ClearIndexEffect,
         DequeueEffect, UpdateWriteEffect
         DEF Fresh, Quiet, QuietMoves, Ends, Finds
    <3>2. k = call[c].key
      BY <1>1, <1>2, <1>6, <2>1 DEF Fresh, HomeFits
    <3>3. QED
      BY <1>1, <1>6, <2>1, <3>1, <3>2, InsertIndexEffect DEF Fresh, TypeOK
  <2>2. CASE d # c
    BY <1>1, <1>6, <2>2, OthersStay DEF Fresh, Offset
  <2>3. QED
    BY <2>1, <2>2
<1>7. ASSUME NEW d \in Clients, Pending(d, o)
      PROVE  \E e \in Clients : Pending(e, o)'
  <2>1. deadlock_offsets[o] > 0 => deadlock_offsets'[o] > 0
    <3>1. CASE ScanQueue(c) /\ o.page = v_page[c]
      <4>1. Is(c, "put") => ~(deadlock_offsets[o] > 0)
        BY <1>1, <3>1, ScanQueueEffect
      <4>2. ASSUME Is(c, "remove"), deadlock_offsets[o] > 0 PROVE FALSE
        <5>1. PICK e \in Clients : Awaits(e, o)
          BY <1>1, <4>2, QueuedIsAwaited
        <5>2. e # c
          BY <1>1, <3>1, <5>1, ScanQueueEffect DEF Awaits
        <5>3. Apart(c)
          BY <1>1, <3>1, <4>2, ScanQueueEffect, RemoverIsApart DEF Removing
        <5>4. o.page[1] = c
          BY <1>1, <3>1 DEF ClaimInv
        <5>5. QED
          BY <5>1, <5>2, <5>3, <5>4 DEF Awaits, Apart, FreeSteps
      <4>3. QED
        BY <1>1, <3>1, <4>1, <4>2, ScanQueueEffect DEF CallFits, FreeSteps
    <3>2. CASE Dequeue(c) /\ o = Offset(c)
      BY <1>1, <3>2, DequeueEffect DEF LeakFits
    <3>3. QED
      BY <3>1, <3>2, LeakEffects
  <2>2. CASE d # c
    <3>1. Pending(d, o)'
      BY <1>1, <1>7, <2>1, <2>2, OthersStay DEF Pending, Offset, Is
    <3>2. QED
      BY <3>1
  <2>3. CASE d = c
    <3>1. CASE Quiet(c)
      <4>1. Pending(c, o)'
        BY <1>7, <2>1, <2>3, <3>1 DEF Pending, Quiet, QuietMoves, SameLocals, Offset, Is
      <4>2. QED
        BY <4>1
    <3>2. CASE FreeOnOwnPage(c) \/ FreeLock(c)
      BY <1>1, <1>7, <2>3, <3>2, FreeEffect DEF Pending, Freed
    <3>3. CASE ScanQueue(c)
      <4>1. /\ pc'[c] = "f_cas" /\ deadlock_offsets'[o] > 0 /\ Offset(c)' = o
            /\ call' = call
        BY <1>1, <1>7, <2>3, <3>3, ScanQueueEffect DEF Pending, Offset
      <4>2. Pending(c, o)'
        BY <1>7, <2>3, <4>1 DEF Pending, Is
      <4>3. QED
        BY <4>2
    <3>4. CASE RemoveOnOwnPage(c)
      BY <1>1, <1>7, <2>3, <3>4, RemoveOnOwnPageEffect DEF Pending, Is
    <3>5. QED
      BY <1>1, <1>7, <2>3, <3>1, <3>2, <3>3, <3>4, StepKinds, StartEffect, PutWriteEffect,
         TakeNextPageEffect, InsertIndexEffect, RemoveStoreBitsEffect, ClearIndexEffect,
         DequeueEffect, UpdateWriteEffect
         DEF Pending, Ends, Finds
  <2>4. QED
    BY <2>2, <2>3
<1>8. QED
  BY <1>2, <1>5, <1>6, <1>7 DEF LeakInv, Accounted

LEMMA LeakStep ==
    ASSUME StoreInv, QueueInv, HomeInv, RemoversAlone, LeakInv, IndexReturnsOld, [Next]_vars
    PROVE  LeakInv'
<1>1. ASSUME NEW c \in Clients, Start(c) \/ Step(c) PROVE LeakInv'
  <2>1. \A d \in Clients : LeakFits(d)'
    BY <1>1, OwnLeak, OthersLeak
  <2>2. ASSUME NEW o \in Offsets, Occupied(o)' PROVE RecordAt(o)'.key \in Keys /\ Accounted(o)'
    <3>1. CASE Occupied(o)
      BY <1>1, <2>2, <3>1, StillAccounted
    <3>2. CASE ~Occupied(o)
      <4>1. PutWrite(c) /\ o = Offset(c)'
        BY <1>1, <2>2, <3>2, LeakEffects
      <4>2. pc'[c] = "p_insert" /\ RecordAt(o)'.key = call[c].key /\ pc[c] = "p_write"
        BY <4>1, PutWriteEffect DEF StoreInv
      <4>3. call[c].key \in Keys
        BY <4>2, KeyOfCall DEF StoreInv
      <4>4. Fresh(c, o)'
        BY <4>1, <4>2 DEF Fresh
      <4>5. QED
        BY <4>2, <4>3, <4>4 DEF Accounted
    <3>3. QED
      BY <3>1, <3>2
  <2>3. QED
    BY <2>1, <2>2 DEF LeakInv
<1>2. CASE UNCHANGED vars
  <2>1. \A o \in Offsets : /\ Occupied(o)' <=> Occupied(o)
                           /\ RecordAt(o)' = RecordAt(o)
                           /\ Accounted(o)' <=> Accounted(o)
    BY <1>2 DEF vars, Occupied, RecordAt, Accounted, Fresh, Pending, Is, Offset
  <2>2. \A c \in Clients : LeakFits(c)' <=> LeakFits(c)
    BY <1>2 DEF vars, LeakFits, Removing, BitsCurrent, Is, Offset, Occupied
  <2>3. QED
    BY <2>1, <2>2 DEF LeakInv
<1>3. QED
  BY <1>1, <1>2 DEF Next, Finished

LEMMA LeakInit == Init => LeakInv
<1> SUFFICES ASSUME Init PROVE LeakInv
  OBVIOUS
<1>1. \A o \in Offsets : ~Occupied(o)
  BY OffsetFields DEF Init, Occupied
<1>2. \A c \in Clients : LeakFits(c)
  BY DEF Init, LeakFits, Removing
<1>3. QED
  BY <1>1, <1>2 DEF LeakInv

(* put frees what it replaces and remove what it takes out of the index,   *)
(* each by itself or through the deadlock queue of another client, and a   *)
(* put that finds its entry of the queue gone has had its slot freed: with *)
(* every call returned, no slot is occupied that the index does not point  *)
(* to for its key.  For an index that returns the offset it replaces, any  *)
(* number of clients putting and updating any keys, and programs in which  *)
(* a client that removes keys is the only one to put or remove what it     *)
(* puts or removes.                                                        *)
THEOREM NoSlotLeaks ==
    ASSUME IndexReturnsOld, RemoversAlone
    PROVE  Spec => []NoSlotLeaked
<1>1. Init => QueueInv /\ HomeInv /\ LeakInv
  BY QueueInit, HomeInit, LeakInit
<1>2. StoreInv /\ QueueInv /\ HomeInv /\ LeakInv /\ [Next]_vars => (QueueInv /\ HomeInv /\ LeakInv)'
  BY QueueStep, HomeStep, LeakStep DEF StoreInv
<1>3. StoreInv /\ LeakInv => NoSlotLeaked
  BY DEF LeakInv, Accounted, Fresh, Pending, NoSlotLeaked, Quiescent
<1>4. QED
  BY <1>1, <1>2, <1>3, StoreInvariant, PTL DEF Spec

-----------------------------------------------------------------------------
(* The size is the number of keys, although put counts the record when it  *)
(* is done, whoever frees a replaced or removed record takes one off, and  *)
(* the index has changed before.                                           *)
OneRemover ==
    \A c, d \in Clients, k \in Keys : Plans(c, "remove", k) /\ Plans(d, "remove", k) => c = d

Live == {k \in Keys : index[k] # NONE}
Uncounted == {c \in Clients : pc[c] = "p_unlock"}
Cleared == {c \in Clients : Is(c, "remove") /\ pc[c] \in {"f_dequeue", "f_erase", "f_unlock", "f_end"}}

SizeInv ==
    /\ IsFiniteSet(Live)
    /\ size = Cardinality(Live) - Cardinality(Uncounted) + Cardinality(Cleared)
    /\ \A c \in Clients : Removing(c) => index[call[c].key] # NONE

LEMMA CountOne ==
    ASSUME NEW S, NEW T, NEW x, IsFiniteSet(S), T \ {x} = S \ {x}
    PROVE  /\ IsFiniteSet(T) /\ Cardinality(S) \in Nat /\ Cardinality(T) \in Nat
           /\ Cardinality(T) = Cardinality(S) + (IF x \in T THEN 1 ELSE 0)
                                              - (IF x \in S THEN 1 ELSE 0)
<1> DEFINE R == S \ {x}
<1>1. IsFiniteSet(R) /\ Cardinality(R) = Cardinality(S) - (IF x \in S THEN 1 ELSE 0)
  BY FS_RemoveElement, FS_CardinalityType
<1>2. T = IF x \in T THEN R \cup {x} ELSE R
  OBVIOUS
<1>3. x \notin R
  OBVIOUS
<1> HIDE DEF R
<1>4. /\ IsFiniteSet(R \cup {x})
      /\ Cardinality(R \cup {x}) = Cardinality(R) + 1
  BY <1>1, <1>3, FS_AddElement
<1>5. Cardinality(R) \in Nat /\ Cardinality(S) \in Nat
  BY <1>1, FS_CardinalityType
<1>6. IsFiniteSet(T) /\ Cardinality(T) = Cardinality(R) + (IF x \in T THEN 1 ELSE 0)
  <2>1. CASE x \in T
    BY <1>2, <1>4, <2>1
  <2>2. CASE x \notin T
    BY <1>1, <1>2, <1>5, <2>2
  <2>3. QED
    BY <2>1, <2>2
<1>7. QED
  BY <1>1, <1>5, <1>6, FS_CardinalityType

LEMMA SizeChanges ==
    ASSUME TypeOK, NEW c \in Clients, Start(c) \/ Step(c)
    PROVE  \/ UnlockOwnPage(c) /\ pc[c] = "p_unlock" /\ pc'[c] = "idle" /\ size' = size + 1
           \/ /\ FreeEnd(c) /\ pc[c] = "f_end" /\ size' = size - 1
              /\ \/ Is(c, "put") /\ pc'[c] = "p_unlock"
                 \/ Is(c, "remove") /\ pc'[c] = "idle"
           \/ pc[c] \notin {"p_unlock", "f_end"} /\ size' = size
<1>1. CASE UnlockOwnPage(c)
  BY <1>1 DEF TypeOK, UnlockOwnPage, CountPut, Return, GoTo
<1>2. CASE FreeEnd(c)
  BY <1>2 DEF TypeOK, FreeEnd, Return, Continue, GoTo
<1>3. CASE ~UnlockOwnPage(c) /\ ~FreeEnd(c)
  <2>1. size' = size
    BY <1>3 DEF Start, Step, Put, FreeOccupiedSlot, AcquireQueue, LockQueue, Get, Update, RemoveKey, Lookup,
       LockOwnPage, PutWrite, PageFull, TakeNextPage, InsertIndex, FreeOnOwnPage, RemoveOnOwnPage,
       RemoveStoreBits, FreeElsewhere, FreeLock, FreeRetry, ScanReadBits, ScanQueue, ClearIndex,
       Dequeue, FreeUnlock, GetVersion, GetRead, UpdateLock, UpdateWrite, UpdateUnlock
  <2>2. pc[c] \notin {"p_unlock", "f_end"}
    BY <1>3 DEF Start, Step, Put, FreeOccupiedSlot, AcquireQueue, LockQueue, Get, Update, RemoveKey, Lookup,
       LockOwnPage, PutWrite, PageFull, TakeNextPage, InsertIndex, FreeOnOwnPage, RemoveOnOwnPage,
       RemoveStoreBits, FreeElsewhere, FreeLock, FreeRetry, ScanReadBits, ScanQueue, ClearIndex,
       Dequeue, FreeUnlock, GetVersion, GetRead, UpdateLock, UpdateWrite, UpdateUnlock, Continue, Return, GoTo
  <2>3. QED
    BY <2>1, <2>2, SMTT(30)
<1>4. QED
  BY <1>1, <1>2, <1>3

LEMMA SizeStep ==
    ASSUME StoreInv, QueueInv, HomeInv, OneRemover, SizeInv, IndexReturnsOld, [Next]_vars
    PROVE  SizeInv'
<1>1. ASSUME NEW c \in Clients, Start(c) \/ Step(c) PROVE SizeInv'
  <2>1. /\ TypeOK /\ CallInv /\ LocInv /\ ClaimInv
        /\ CallFits(c) /\ LocFits(c) /\ HomeFits(c)
    BY DEF StoreInv, CallInv, LocInv, HomeInv
  <2>2. PICK k : k = call[c].key
    OBVIOUS
  <2>3. PICK L, U, C : L = Live' /\ U = Uncounted' /\ C = Cleared'
    OBVIOUS
  <2>4. \A d \in Clients \ {c} : pc'[d] = pc[d] /\ call'[d] = call[d]
    BY <1>1, <2>1, OthersStay
  <2>5. U \ {c} = Uncounted \ {c} /\ C \ {c} = Cleared \ {c}
    BY <2>3, <2>4 DEF Uncounted, Cleared, Is
  <2>6. \/ index' = index /\ ~InsertIndex(c) /\ ~ClearIndex(c)
        \/ InsertIndex(c) /\ k \in Keys /\ index' = [index EXCEPT ![k] = Offset(c)] /\ Offset(c) \in Offsets
        \/ ClearIndex(c) /\ k \in Keys /\ index' = [index EXCEPT ![k] = NONE]
    <3>1. InsertIndex(c) => k \in Keys /\ index' = [index EXCEPT ![k] = Offset(c)] /\ Offset(c) \in Offsets
      BY <2>1, <2>2, InsertIndexEffect
    <3>2. ClearIndex(c) => k \in Keys /\ index' = [index EXCEPT ![k] = NONE]
      BY <2>1, <2>2, ClearIndexEffect
    <3>3. ~InsertIndex(c) /\ ~ClearIndex(c) => index' = index
      BY <1>1, <2>1, StepKinds, StartEffect, PutWriteEffect, TakeNextPageEffect, FreeEffect,
         RemoveOnOwnPageEffect, RemoveStoreBitsEffect, ScanQueueEffect, DequeueEffect,
         UpdateWriteEffect DEF Quiet, Ends, Finds
    <3>4. QED
      BY <3>1, <3>2, <3>3
  <2>7. L \ {k} = Live \ {k}
    <3>1. \A j \in Keys : j # k => index'[j] = index[j]
      BY <2>1, <2>6 DEF TypeOK
    <3>2. L = {j \in Keys : index'[j] # NONE}
      BY <2>3 DEF Live
    <3>3. QED
      BY <3>1, <3>2 DEF Live
  <2>8. IsFiniteSet(Uncounted) /\ IsFiniteSet(Cleared) /\ IsFiniteSet(Live)
    BY StoreAssumption, FS_Subset DEF Uncounted, Cleared, SizeInv
  <2>9. /\ IsFiniteSet(L) /\ Cardinality(L) \in Nat /\ Cardinality(Live) \in Nat
        /\ Cardinality(L) = Cardinality(Live) + (IF k \in L THEN 1 ELSE 0) - (IF k \in Live THEN 1 ELSE 0)
    BY <2>7, <2>8, CountOne
  <2>10. /\ Cardinality(U) \in Nat /\ Cardinality(Uncounted) \in Nat
         /\ Cardinality(U) = Cardinality(Uncounted) + (IF c \in U THEN 1 ELSE 0)
                                                    - (IF c \in Uncounted THEN 1 ELSE 0)
    BY <2>5, <2>8, CountOne
  <2>11. /\ Cardinality(C) \in Nat /\ Cardinality(Cleared) \in Nat
         /\ Cardinality(C) = Cardinality(Cleared) + (IF c \in C THEN 1 ELSE 0)
                                                  - (IF c \in Cleared THEN 1 ELSE 0)
    BY <2>5, <2>8, CountOne
  <2>12. /\ c \in U <=> pc'[c] = "p_unlock"
         /\ c \in Uncounted <=> pc[c] = "p_unlock"
         /\ c \in C <=> call'[c].name = "remove" /\ pc'[c] \in {"f_dequeue", "f_erase", "f_unlock", "f_end"}
         /\ c \in Cleared <=> Is(c, "remove") /\ pc[c] \in {"f_dequeue", "f_erase", "f_unlock", "f_end"}
    BY <2>3 DEF Uncounted, Cleared, Is
  <2>13. size = Cardinality(Live) - Cardinality(Uncounted) + Cardinality(Cleared)
    BY DEF SizeInv
  <2>14. size' = Cardinality(L) - Cardinality(U) + Cardinality(C)
    <3>1. CASE UnlockOwnPage(c)
      <4>1. index' = index
        BY <3>1 DEF UnlockOwnPage
      <4>2. pc[c] = "p_unlock" /\ pc'[c] = "idle" /\ size' = size + 1
        BY <2>1, <3>1 DEF TypeOK, UnlockOwnPage, CountPut, Return, GoTo
      <4>3. L = Live /\ c \notin U /\ c \in Uncounted /\ c \notin C /\ c \notin Cleared
        BY <2>3, <2>12, <4>1, <4>2 DEF Live
      <4>4. QED
        BY <2>9, <2>10, <2>11, <2>13, <4>2, <4>3
    <3>2. CASE FreeEnd(c)
      <4>1. index' = index /\ call' = call
        BY <3>2 DEF FreeEnd, Continue, Return
      <4>2. /\ pc[c] = "f_end" /\ size' = size - 1
            /\ \/ Is(c, "put") /\ pc'[c] = "p_unlock"
               \/ Is(c, "remove") /\ pc'[c] = "idle"
        BY <2>1, <3>2 DEF TypeOK, FreeEnd, Return, Continue, GoTo
      <4>3. /\ L = Live /\ c \notin Uncounted /\ c \notin C
            /\ \/ c \in U /\ c \notin Cleared
               \/ c \notin U /\ c \in Cleared
        BY <2>3, <2>12, <4>1, <4>2 DEF Live, Is
      <4>4. QED
        BY <2>9, <2>10, <2>11, <2>13, <4>2, <4>3
    <3>3. CASE InsertIndex(c)
      <4>1. /\ pc[c] = "p_insert" /\ Is(c, "put") /\ call' = call /\ size' = size
            /\ pc'[c] = IF index[k] = NONE THEN "p_unlock" ELSE "f_start"
        BY <2>1, <2>2, <3>3, InsertIndexEffect DEF Replaced, InsertIndex
      <4>2. Offset(c) # NONE /\ k \in Keys /\ index' = [index EXCEPT ![k] = Offset(c)]
        BY <2>1, <2>2, <3>3, InsertIndexEffect, StoreAssumption
      <4>3. /\ c \notin Uncounted /\ c \notin C /\ c \notin Cleared /\ k \in L
            /\ k \in Live <=> c \notin U
        BY <2>1, <2>3, <2>12, <4>1, <4>2 DEF Live, Is, TypeOK
      <4>4. QED
        BY <2>9, <2>10, <2>11, <2>13, <4>1, <4>3
    <3>4. CASE ClearIndex(c)
      <4>1. /\ pc[c] = "f_none" /\ Is(c, "remove") /\ call' = call /\ size' = size
            /\ pc'[c] \in {"f_dequeue", "f_unlock", "f_end"}
        BY <2>1, <3>4, ClearIndexEffect DEF ClearIndex
      <4>2. k \in Keys /\ index' = [index EXCEPT ![k] = NONE]
        BY <2>1, <2>2, <3>4, ClearIndexEffect
      <4>3. k \in Live /\ k \notin L
        BY <2>1, <2>2, <2>3, <4>1, <4>2 DEF Live, SizeInv, Removing, TypeOK
      <4>4. c \notin Uncounted /\ c \notin U /\ c \in C /\ c \notin Cleared
        BY <2>12, <4>1 DEF Is
      <4>5. QED
        BY <2>9, <2>10, <2>11, <2>13, <4>1, <4>3, <4>4
    <3>5. CASE ~UnlockOwnPage(c) /\ ~FreeEnd(c) /\ ~InsertIndex(c) /\ ~ClearIndex(c)
      <4>1. size' = size /\ pc[c] \notin {"p_unlock", "f_end"} /\ L = Live
        BY <1>1, <2>1, <2>3, <2>6, <3>5, SizeChanges DEF Live
      <4>2. pc'[c] # "p_unlock"
        BY <1>1, <2>1, <3>5, <4>1, StepKinds, StartEffect, FirstSteps, PutWriteEffect,
           TakeNextPageEffect, FreeEffect, RemoveOnOwnPageEffect, RemoveStoreBitsEffect,
           ScanQueueEffect, DequeueEffect, UpdateWriteEffect
           DEF Quiet, QuietMoves, Ends, Finds, CallFits, FreeSteps
      <4>3. c \in C <=> c \in Cleared
        <5>1. CASE Start(c) \/ Quiet(c) \/ Ends(c) \/ Finds(c)
          BY <1>1, <2>1, <2>12, <4>1, <5>1, StartEffect, FirstSteps
             DEF Quiet, QuietMoves, Ends, Finds, Is
        <5>2. CASE PutWrite(c) \/ TakeNextPage(c)
          BY <2>1, <2>12, <5>2, PutWriteEffect, TakeNextPageEffect
        <5>3. CASE FreeOnOwnPage(c) \/ FreeLock(c)
          BY <2>1, <2>12, <5>3, FreeEffect DEF CallFits, FreeSteps, Is
        <5>4. CASE RemoveOnOwnPage(c) \/ RemoveStoreBits(c)
          BY <2>1, <2>12, <5>4, RemoveOnOwnPageEffect, RemoveStoreBitsEffect
        <5>5. CASE ScanQueue(c)
          <6>1. /\ call' = call /\ pc[c] \in {"f_scan", "f_clear"}
                /\ pc'[c] \in {"f_cas", "f_none"} \/ ~Is(c, "remove")
            BY <2>1, <5>5, ScanQueueEffect
          <6>2. QED
            BY <2>12, <6>1 DEF Is
        <5>6. CASE Dequeue(c) \/ UpdateWrite(c)
          BY <2>1, <2>12, <5>6, DequeueEffect, UpdateWriteEffect DEF Is
        <5>7. QED
          BY <1>1, <2>1, <3>5, <5>1, <5>2, <5>3, <5>4, <5>5, <5>6, StepKinds
      <4>4. QED
        BY <2>9, <2>10, <2>11, <2>12, <2>13, <4>1, <4>2, <4>3
    <3>6. QED
      BY <3>1, <3>2, <3>3, <3>4, <3>5
  <2>15. ASSUME NEW d \in Clients, Removing(d)' PROVE index'[call'[d].key] # NONE
    <3>1. CASE d # c
      <4>1. Removing(d) /\ call'[d] = call[d] /\ index[call[d].key] # NONE
        BY <1>1, <2>1, <2>15, <3>1, OthersStay DEF Removing, Is, SizeInv
      <4>2. call[d].key \in Keys /\ Plans(d, "remove", call[d].key)
        BY <2>1, <4>1, KeyOfCall DEF Removing, HomeInv, HomeFits, Is
      <4>3. CASE ClearIndex(c)
        <5>1. Plans(c, "remove", k) /\ k \in Keys
          BY <2>1, <2>2, <4>3, ClearIndexEffect DEF HomeFits, Is
        <5>2. call[d].key # k
          BY <3>1, <4>2, <5>1 DEF OneRemover
        <5>3. QED
          BY <2>1, <2>6, <4>1, <4>2, <5>2 DEF TypeOK
      <4>4. CASE ~ClearIndex(c)
        BY <2>1, <2>6, <4>1, <4>2, <4>4, StoreAssumption DEF TypeOK
      <4>5. QED
        BY <4>3, <4>4
    <3>2. CASE d = c
      <4>1. Is(c, "remove")' /\ pc'[c] \in {"f_start", "r_store", "f_cas", "f_queue", "f_scan", "f_clear", "f_none"}
        BY <2>15, <3>2 DEF Removing
      <4>2. ~Start(c)
        BY <2>1, <4>1, StartEffect, FirstSteps
      <4>3. call' = call
        BY <1>1, <2>1, <4>2, StepKinds, PutWriteEffect, TakeNextPageEffect, InsertIndexEffect,
           FreeEffect, RemoveOnOwnPageEffect, RemoveStoreBitsEffect, ScanQueueEffect,
           ClearIndexEffect, DequeueEffect, UpdateWriteEffect DEF Quiet, Ends, Finds
      <4>4. Is(c, "remove")
        BY <4>1, <4>3 DEF Is
      <4>5. Finds(c) \/ Removing(c)
        BY <1>1, <2>1, <4>1, <4>2, <4>4, StepKinds, PutWriteEffect, TakeNextPageEffect, InsertIndexEffect,
           FreeEffect, RemoveOnOwnPageEffect, RemoveStoreBitsEffect, ScanQueueEffect,
           ClearIndexEffect, DequeueEffect, UpdateWriteEffect
           DEF Quiet, QuietMoves, Ends, Is, Removing
      <4>6. index[k] # NONE
        BY <2>2, <4>5 DEF Finds, SizeInv
      <4>7. index' = index
        BY <1>1, <2>1, <2>6, <4>1, <4>4, InsertIndexEffect, ClearIndexEffect DEF Is
      <4>8. QED
        BY <2>2, <3>2, <4>3, <4>6, <4>7
    <3>3. QED
      BY <3>1, <3>2
  <2>16. QED
    BY <2>3, <2>9, <2>14, <2>15 DEF SizeInv
<1>2. CASE UNCHANGED vars
  <2>1. Live' = Live /\ Uncounted' = Uncounted /\ Cleared' = Cleared /\ size' = size
    BY <1>2 DEF vars, Live, Uncounted, Cleared, Is
  <2>2. \A c \in Clients : Removing(c)' => index'[call'[c].key] # NONE
    BY <1>2 DEF vars, Removing, Is, SizeInv
  <2>3. QED
    BY <2>1, <2>2 DEF SizeInv
<1>3. QED
  BY <1>1, <1>2 DEF Next, Finished

LEMMA SizeInit == Init => SizeInv
<1> SUFFICES ASSUME Init PROVE SizeInv
  OBVIOUS
<1>1. Live = {} /\ Uncounted = {} /\ Cleared = {} /\ size = 0
  BY DEF Init, Live, Uncounted, Cleared
<1>2. \A c \in Clients : ~Removing(c)
  BY DEF Init, Removing
<1>3. Cardinality({}) = 0 /\ IsFiniteSet({})
  BY FS_EmptySet
<1>4. QED
  BY <1>1, <1>2, <1>3 DEF SizeInv

(* The deltas that put and free_occupied_slot keep add up: with every call *)
(* returned, the counter is the number of keys.  For an index that returns *)
(* the offset it replaces, any number of clients that put, update and get  *)
(* any keys, and programs in which each key has at most one client that    *)
(* removes it (two that remove one key at a time both take it off).        *)
THEOREM SizeCountsKeys ==
    ASSUME IndexReturnsOld, OneRemover
    PROVE  Spec => []SizeIsNumberOfKeys
<1>1. Init => QueueInv /\ HomeInv /\ SizeInv
  BY QueueInit, HomeInit, SizeInit
<1>2. StoreInv /\ QueueInv /\ HomeInv /\ SizeInv /\ [Next]_vars => (QueueInv /\ HomeInv /\ SizeInv)'
  BY QueueStep, HomeStep, SizeStep DEF StoreInv
<1>3. StoreInv /\ SizeInv => SizeIsNumberOfKeys
  <2> SUFFICES ASSUME StoreInv, SizeInv, Quiescent PROVE size = Cardinality(Live)
    BY DEF SizeIsNumberOfKeys, Live
  <2>1. Uncounted = {} /\ Cleared = {}
    BY DEF Quiescent, Uncounted, Cleared
  <2>2. Cardinality({}) = 0 /\ Cardinality(Live) \in Nat
    BY FS_EmptySet, FS_CardinalityType DEF SizeInv
  <2>3. QED
    BY <2>1, <2>2 DEF SizeInv
<1>4. QED
  BY <1>1, <1>2, <1>3, StoreInvariant, PTL DEF Spec

-----------------------------------------------------------------------------
(* When each key has at most one client that writes it, its records are on *)
(* that client's pages only, and only that client changes them.            *)
OneWriter == \A k \in Keys : \A c, d \in Writers(k) : c = d

WriteSteps == {"p_insert", "u_lock", "u_write", "u_unlock"} \cup (FreeSteps \ {"f_end"})

RecordFits(c) ==
    /\ pc[c] = "p_insert" =>
          /\ Occupied(Offset(c))
          /\ RecordAt(Offset(c)).value = Value(c)
    /\ \/ pc[c] = "p_insert"
       \/ Is(c, "put") /\ pc[c] \in {"f_start", "f_cas", "f_queue", "f_scan"}
       => \A k \in Keys : index[k] # Offset(c)
    /\ Removing(c) \/ pc[c] \in {"u_lock", "u_write"} => index[call[c].key] = Offset(c)
    /\ pc[c] = "r_store" => BitsCurrent(c)

RecordInv ==
    /\ \A c \in Clients : RecordFits(c)
    /\ \A k \in Keys : index[k] # NONE => RecordAt(index[k]).value \in Values
    /\ IndexPointsToItsRecord

LEMMA WriterIsHome ==
    ASSUME TypeOK, CallInv, LocInv, HomeInv, OneWriter, NEW c \in Clients
    PROVE  /\ Apart(c)
           /\ pc[c] \in WriteSteps => Offset(c) \in Offsets /\ Offset(c).page[1] = c
           /\ pc[c] \in WriteSteps => c \in Writers(call[c].key) /\ call[c].key \in Keys
           /\ \A d \in Clients \ {c} : pc[c] \in WriteSteps /\ pc[d] \in WriteSteps
                 => call[d].key # call[c].key
<1>1. ASSUME NEW d \in Clients, pc[d] \in WriteSteps
      PROVE  /\ Offset(d) \in Offsets /\ Offset(d).page[1] = d
             /\ d \in Writers(call[d].key) /\ call[d].key \in Keys
  <2>1. /\ Offset(d) \in Offsets /\ pc[d] # "idle" /\ Plans(Offset(d).page[1], "put", call[d].key)
    BY <1>1 DEF LocInv, LocFits, WithOffset, WriteSteps, FreeSteps, HomeInv, HomeFits
  <2>2. Is(d, "put") \/ Is(d, "update") \/ Is(d, "remove")
    BY <1>1 DEF HomeInv, HomeFits, CallInv, CallFits, WriteSteps, PutSteps
  <2>3. Offset(d).page[1] \in Clients /\ call[d].key \in Keys
    BY <2>1, OffsetFields, KeyOfCall DEF Pages
  <2>4. d \in Writers(call[d].key)
    BY <2>1, <2>2 DEF HomeInv, HomeFits, Is, Writers
  <2>5. Offset(d).page[1] \in Writers(call[d].key)
    BY <2>1, <2>3 DEF Writers
  <2>6. QED
    BY <2>1, <2>3, <2>4, <2>5 DEF OneWriter
<1>2. Apart(c)
  BY <1>1 DEF Apart, WriteSteps
<1>3. QED
  BY <1>1, <1>2 DEF OneWriter

LEMMA RecordEffects ==
    ASSUME StoreInv, QueueInv, HomeInv, OneWriter, RecordInv,
           NEW c \in Clients, Start(c) \/ Step(c)
    PROVE  /\ \A x \in Offsets :
                 /\ Occupied(x)' /\ ~Occupied(x) => PutWrite(c) /\ x = Offset(c)'
                 /\ Occupied(x) /\ ~Occupied(x)' => x.page[1] = c
                 /\ RecordAt(x)' # RecordAt(x) =>
                       \/ PutWrite(c) /\ x = Offset(c)'
                       \/ UpdateWrite(c) /\ x = Offset(c)
           /\ \A k \in Keys : index'[k] # index[k] =>
                 k = call[c].key /\ (InsertIndex(c) \/ ClearIndex(c))
<1>1. pc[c] = "r_store" => BitsCurrent(c)
  BY DEF RecordInv, RecordFits
<1>2. Apart(c) /\ TypeOK /\ CallInv /\ LocInv /\ ClaimInv
  BY WriterIsHome DEF StoreInv
<1>3. pc[c] = "f_cas" => Offset(c).page[1] = c
  BY <1>2, WriterIsHome DEF WriteSteps, FreeSteps
<1>4. data' = data \/ PutWrite(c) \/ UpdateWrite(c)
  BY <1>2, StepKinds, StartEffect, TakeNextPageEffect, InsertIndexEffect,
     FreeEffect, RemoveOnOwnPageEffect, RemoveStoreBitsEffect, ScanQueueEffect,
     ClearIndexEffect, DequeueEffect DEF Quiet, Ends, Finds
<1>5. ASSUME NEW x \in Offsets, RecordAt(x)' # RecordAt(x)
      PROVE  \/ PutWrite(c) /\ x = Offset(c)'
             \/ UpdateWrite(c) /\ x = Offset(c)
  <2>1. data' # data
    BY <1>5 DEF RecordAt
  <2>2. CASE PutWrite(c)
    BY <1>2, <1>5, <2>2, PutWriteEffect
  <2>3. CASE UpdateWrite(c)
    BY <1>2, <1>5, <2>3, UpdateWriteEffect
  <2>4. QED
    BY <1>4, <2>1, <2>2, <2>3
<1>6. QED
  BY <1>1, <1>2, <1>3, <1>5, Effects

LEMMA OthersRecords ==
    ASSUME StoreInv, QueueInv, HomeInv, OneWriter, RecordInv,
           NEW c \in Clients, Start(c) \/ Step(c), NEW d \in Clients \ {c}
    PROVE  RecordFits(d)'
<1>1. /\ TypeOK /\ CallInv /\ LocInv /\ ClaimInv
      /\ pc'[d] = pc[d] /\ call'[d] = call[d] /\ loc'[d] = loc[d] /\ v_page'[d] = v_page[d]
      /\ v_page[c][1] = c /\ v_page[d][1] = d
      /\ RecordFits(d) /\ CallFits(d) /\ LocFits(d)
  BY OthersStay DEF StoreInv, ClaimInv, CallInv, LocInv, RecordInv
<1>2. done'[d] = done[d]
  BY <1>1, StepKinds, StartEffect, PutWriteEffect, TakeNextPageEffect, InsertIndexEffect,
     FreeEffect, RemoveOnOwnPageEffect, RemoveStoreBitsEffect, ScanQueueEffect,
     ClearIndexEffect, DequeueEffect, UpdateWriteEffect, ZenonT(30) 
  DEF Quiet, Ends, Finds, TypeOK
<1>3. PICK o : o = Offset(d)
  OBVIOUS
<1>4. Offset(d)' = o
  BY <1>1, <1>3 DEF Offset
<1>5. PutWrite(c) => Offset(c)'.page[1] = c
  BY <1>1, PutWriteEffect
<1>6. UpdateWrite(c) => Offset(c).page[1] = c
  BY <1>1, UpdateWriteEffect, WriterIsHome DEF WriteSteps
<1>7. ASSUME pc[d] \in WriteSteps
      PROVE  /\ o \in Offsets /\ o.page[1] = d
             /\ RecordAt(o)' = RecordAt(o) /\ (Occupied(o)' <=> Occupied(o))
  <2>1. o \in Offsets /\ o.page[1] = d
    BY <1>1, <1>3, <1>7, WriterIsHome
  <2>2. QED
    BY <1>5, <1>6, <2>1, RecordEffects
<1>8. ASSUME pc[d] \in WriteSteps, \A k \in Keys : index[k] # o
      PROVE  \A k \in Keys : index'[k] # o
  <2>1. InsertIndex(c) => /\ Offset(c).page[1] = c
                          /\ call[c].key \in Keys
                          /\ index' = [index EXCEPT ![call[c].key] = Offset(c)]
    BY <1>1, InsertIndexEffect, WriterIsHome DEF WriteSteps
  <2>2. ClearIndex(c) => call[c].key \in Keys /\ index' = [index EXCEPT ![call[c].key] = NONE]
    BY <1>1, ClearIndexEffect
  <2>3. o # NONE /\ o.page[1] = d
    BY <1>7, <1>8, StoreAssumption
  <2>4. QED
    BY <1>1, <1>8, <2>1, <2>2, <2>3, RecordEffects DEF TypeOK
<1>9. ASSUME Removing(d) \/ pc[d] \in {"u_lock", "u_write"}
      PROVE  index'[call[d].key] = index[call[d].key]
  <2>1. call[d].key \in Keys /\ pc[d] \in WriteSteps
    BY <1>1, <1>9, WriterIsHome DEF WriteSteps, Removing, FreeSteps
  <2>2. InsertIndex(c) \/ ClearIndex(c) => call[d].key # call[c].key
    BY <1>1, <2>1, WriterIsHome, InsertIndexEffect, ClearIndexEffect DEF WriteSteps, FreeSteps
  <2>3. QED
    BY <2>1, <2>2, RecordEffects
<1>10. ASSUME pc[d] = "r_store" PROVE BitsCurrent(d)'
  <2>1. BitsCurrent(d)
    BY <1>1, <1>10 DEF RecordFits
  <2>2. \A x \in Offsets : x.page = v_page[d] => (Occupied(x)' <=> Occupied(x))
    BY <1>1, <1>5, RecordEffects
  <2>3. QED
    BY <1>1, <2>1, <2>2 DEF BitsCurrent
<1>11. Value(d)' = Value(d) /\ (Removing(d)' <=> Removing(d)) /\ (Is(d, "put")' <=> Is(d, "put"))
  BY <1>1, <1>2 DEF Value, Removing, Is
<1>12. pc[d] = "p_insert" \/ pc[d] \in {"f_start", "f_cas", "f_queue", "f_scan"} => pc[d] \in WriteSteps
  BY DEF WriteSteps, FreeSteps
<1>13. QED
  BY <1>1, <1>3, <1>4, <1>7, <1>8, <1>9, <1>10, <1>11, <1>12 DEF RecordFits

(* A slot the index points to is not written by put.                       *)
LEMMA NotOverwritten ==
    ASSUME StoreInv, HomeInv, OneWriter, RecordInv,
           NEW c \in Clients, PutWrite(c), NEW k \in Keys
    PROVE  index[k] # Offset(c)'
<1>1. SUFFICES ASSUME index[k] = Offset(c)' PROVE FALSE
  OBVIOUS
<1>2. PICK o \in Offsets : o = Offset(c)' /\ ~Occupied(o) /\ o.page[1] = c /\ pc[c] = "p_write"
  BY PutWriteEffect DEF StoreInv, ClaimInv
<1>3. index[k] = o /\ o # NONE
  BY <1>1, <1>2, StoreAssumption
<1>4. PICK d \in Clients : pc[d] = "f_none" /\ call[d].key = k
  BY <1>2, <1>3 DEF RecordInv, IndexPointsToItsRecord
<1>5. Removing(d)
  BY <1>4 DEF StoreInv, CallInv, CallFits, Removing
<1>6. Offset(d) = o
  BY <1>3, <1>4, <1>5 DEF RecordInv, RecordFits
<1>7. d = c
  BY <1>2, <1>4, <1>6, WriterIsHome DEF WriteSteps, FreeSteps, StoreInv
<1>8. QED
  BY <1>2, <1>4, <1>7

(* No two keys share a record.                                             *)
LEMMA RecordsAreApart ==
    ASSUME RecordInv, NEW j \in Keys, NEW k \in Keys, index[j] = index[k], index[k] # NONE
    PROVE  j = k
  BY DEF RecordInv, IndexPointsToItsRecord

LEMMA OwnRecords ==
    ASSUME StoreInv, QueueInv, HomeInv, OneWriter, RecordInv,
           NEW c \in Clients, Start(c) \/ Step(c)
    PROVE  RecordFits(c)'
<1>1. /\ TypeOK /\ CallInv /\ LocInv /\ ClaimInv
      /\ CallFits(c) /\ LocFits(c) /\ RecordFits(c) /\ HomeFits(c) /\ QueueFits(c)
  BY DEF StoreInv, CallInv, LocInv, RecordInv, HomeInv, QueueInv
<1>2. CASE Start(c)
  <2>1. pc'[c] \in {"p_lock", "g_get", "u_get", "r_get"}
    BY <1>1, <1>2, StartEffect, FirstSteps
  <2>2. QED
    BY <2>1 DEF RecordFits, Removing
<1>3. CASE Quiet(c)
  <2>1. UNCHANGED <<free, index, call, data>> /\ Offset(c)' = Offset(c)
    BY <1>3 DEF Quiet, SameLocals, Offset
  <2>2. QED
    BY <1>1, <1>3, <2>1 DEF Quiet, QuietMoves, RecordFits, Removing, Is
<1>4. CASE Ends(c)
  BY <1>4 DEF Ends, RecordFits, Removing
<1>5. CASE Finds(c)
  <2>1. pc'[c] = "f_start" => Is(c, "remove")
    BY <1>1, <1>5 DEF Finds, CallFits
  <2>2. QED
    BY <1>1, <1>5, <2>1 DEF Finds, RecordFits, Removing, Is, Offset
<1>6. CASE PutWrite(c)
  <2>1. PICK o \in Offsets : o = Offset(c)'
    BY <1>1, <1>6, PutWriteEffect
  <2>2. /\ pc'[c] = "p_insert" /\ index' = index /\ Occupied(o)'
        /\ RecordAt(o)'.value = Value(c) /\ call' = call /\ done' = done
    BY <1>1, <1>6, <2>1, PutWriteEffect
  <2>3. Value(c)' = Value(c)
    BY <2>2 DEF Value
  <2>4. \A k \in Keys : index[k] # o
    BY <1>6, <2>1, NotOverwritten
  <2>5. QED
    BY <2>1, <2>2, <2>3, <2>4 DEF RecordFits, Removing
<1>7. CASE TakeNextPage(c)
  BY <1>1, <1>7, TakeNextPageEffect DEF RecordFits, Removing
<1>8. CASE InsertIndex(c)
  <2> DEFINE k == call[c].key
  <2>1. /\ k \in Keys /\ Offset(c) \in Offsets /\ Is(c, "put") /\ call' = call
        /\ index' = [index EXCEPT ![k] = Offset(c)]
        /\ pc'[c] \in {"p_unlock", "f_start"} /\ pc[c] = "p_insert"
        /\ pc'[c] = "f_start" => Offset(c)' = index[k] /\ index[k] # NONE
    BY <1>1, <1>8, InsertIndexEffect DEF Replaced, Offset
  <2>2. ASSUME pc'[c] = "f_start", NEW j \in Keys PROVE index'[j] # index[k]
    <3>1. CASE j = k
      BY <1>1, <2>1, <3>1 DEF RecordFits, TypeOK
    <3>2. CASE j # k
      BY <1>1, <2>1, <2>2, <3>2, RecordsAreApart DEF TypeOK
    <3>3. QED
      BY <3>1, <3>2
  <2>3. QED
    BY <2>1, <2>2 DEF RecordFits, Removing, Is
<1>9. CASE FreeOnOwnPage(c) \/ FreeLock(c)
  <2>1. /\ Offset(c)' = Offset(c) /\ index' = index /\ call' = call
        /\ pc'[c] \in {"f_end", "f_none", "f_dequeue", "f_unlock"}
        /\ pc'[c] = "f_none" => Is(c, "remove") /\ pc[c] = "f_cas"
    BY <1>1, <1>9, FreeEffect DEF CallFits, FreeSteps, SameLocals, Offset
  <2>2. QED
    BY <1>1, <2>1 DEF RecordFits, Removing, Is
<1>10. CASE RemoveOnOwnPage(c)
  BY <1>1, <1>10, RemoveOnOwnPageEffect DEF RecordFits, Removing, Is, SameLocals, Offset
<1>11. CASE RemoveStoreBits(c)
  BY <1>1, <1>11, RemoveStoreBitsEffect DEF RecordFits, Removing, Is, Offset
<1>12. CASE ScanQueue(c)
  <2>1. /\ index' = index /\ call' = call /\ Offset(c)' = Offset(c)
        /\ pc[c] \in {"f_scan", "f_clear"} /\ pc'[c] \in {"f_cas", "f_none", "f_end"}
        /\ pc[c] = "f_scan" \/ Is(c, "remove")
    BY <1>1, <1>12, ScanQueueEffect DEF Offset
  <2>2. Is(c, "put") \/ Is(c, "remove")
    BY <1>1, <2>1 DEF CallFits, FreeSteps
  <2>3. Is(c, "put") => pc[c] = "f_scan"
    BY <1>1, <2>1 DEF CallFits, Is
  <2>4. QED
    BY <1>1, <2>1, <2>2, <2>3 DEF RecordFits, Removing, Is
<1>13. CASE ClearIndex(c)
  BY <1>1, <1>13, ClearIndexEffect DEF RecordFits, Removing
<1>14. CASE Dequeue(c) \/ UpdateWrite(c)
  BY <1>1, <1>14, DequeueEffect, UpdateWriteEffect DEF RecordFits, Removing
<1>15. QED
  BY <1>1, <1>2, <1>3, <1>4, <1>5, <1>6, <1>7, <1>8, <1>9, <1>10, <1>11, <1>12, <1>13, <1>14, StepKinds

(* A record the index still points to.                                     *)
LEMMA StillThere ==
    ASSUME StoreInv, QueueInv, HomeInv, OneWriter, RecordInv,
           NEW c \in Clients, Start(c) \/ Step(c),
           NEW k \in Keys, index[k] # NONE, index'[k] = index[k]
    PROVE  /\ Occupied(index[k])' \/ \E d \in Clients : (pc[d] = "f_none" /\ call[d].key = k)'
           /\ RecordAt(index[k])'.key = k /\ RecordAt(index[k])'.value.key = k
           /\ RecordAt(index[k])'.value \in Values
<1>1. /\ TypeOK /\ CallInv /\ LocInv /\ ClaimInv
      /\ CallFits(c) /\ LocFits(c) /\ RecordFits(c) /\ HomeFits(c) /\ QueueFits(c)
  BY DEF StoreInv, CallInv, LocInv, RecordInv, HomeInv, QueueInv
<1>2. PICK o \in Offsets : o = index[k]
  BY <1>1 DEF TypeOK
<1>3. index'[k] = o
  BY <1>2
<1>4. /\ RecordAt(o).key = k /\ RecordAt(o).value.key = k /\ RecordAt(o).value \in Values
      /\ Occupied(o) \/ \E d \in Clients : pc[d] = "f_none" /\ call[d].key = k
  BY <1>2 DEF RecordInv, IndexPointsToItsRecord
<1>5. PutWrite(c) => o # Offset(c)'
  BY <1>2, NotOverwritten
<1>6. RecordAt(o)'.key = k /\ RecordAt(o)'.value.key = k /\ RecordAt(o)'.value \in Values
  <2>1. CASE UpdateWrite(c) /\ o = Offset(c)
    <3>1. /\ pc[c] = "u_write" /\ RecordAt(o)'.value = Value(c)
          /\ RecordAt(o)'.key = RecordAt(o).key
      BY <1>1, <2>1, UpdateWriteEffect
    <3>2. call[c].key \in Keys /\ index[call[c].key] = o /\ Value(c) \in Values
      BY <1>1, <2>1, <3>1, ValueTyped DEF RecordFits
    <3>3. call[c].key = k
      BY <1>2, <3>2, RecordsAreApart
    <3>4. QED
      BY <1>4, <3>1, <3>2, <3>3 DEF Value
  <2>2. CASE ~(UpdateWrite(c) /\ o = Offset(c))
    BY <1>4, <1>5, <2>2, RecordEffects
  <2>3. QED
    BY <2>1, <2>2
<1>7. Occupied(o)' \/ \E d \in Clients : (pc[d] = "f_none" /\ call[d].key = k)'
  <2>1. CASE Occupied(o) /\ ~Occupied(o)'
    <3>1. ASSUME o = Offset(c), pc[c] \in FreeSteps, pc'[c] = "f_none" \/ Is(c, "put"), call' = call,
                 pc[c] \in {"f_start", "f_cas", "r_store"}
          PROVE  pc'[c] = "f_none" /\ call'[c].key = k
      <4>1. ~Is(c, "put")
        BY <1>1, <1>2, <3>1 DEF RecordFits, CallFits, Is
      <4>2. Removing(c)
        BY <1>1, <3>1, <4>1 DEF Removing, CallFits
      <4>3. index[call[c].key] = o /\ call[c].key \in Keys
        BY <1>1, <3>1, <4>2, KeyOfCall DEF RecordFits, FreeSteps
      <4>4. QED
        BY <1>2, <3>1, <4>1, <4>3, RecordsAreApart
    <3>2. CASE FreeOnOwnPage(c) \/ FreeLock(c)
      <4>1. o = Offset(c) /\ call' = call /\ pc[c] \in {"f_start", "f_cas"}
            /\ (pc'[c] = "f_none" \/ Is(c, "put"))
        BY <1>1, <2>1, <3>2, FreeEffect DEF Freed, CallFits, FreeSteps
      <4>2. QED
        BY <3>1, <4>1 DEF FreeSteps
    <3>3. CASE RemoveStoreBits(c)
      <4>1. o = Offset(c) /\ call' = call /\ pc[c] = "r_store" /\ pc'[c] = "f_none"
        BY <1>1, <2>1, <3>3, RemoveStoreBitsEffect DEF Freed, RecordFits, HomeFits
      <4>2. QED
        BY <3>1, <4>1 DEF FreeSteps
    <3>4. CASE TakeNextPage(c)
      <4>1. Claimed(o.page)
        BY <1>1, <1>2 DEF ClaimInv
      <4>2. QED
        BY <1>1, <2>1, <3>4, <4>1, TakeNextPageEffect
    <3>5. CASE ScanQueue(c)
      <4>1. ASSUME NEW y \in Offsets, y.page = v_page[c] PROVE deadlock_offsets[y] = 0
        <5>1. SUFFICES ASSUME deadlock_offsets[y] > 0 PROVE FALSE
          BY <1>1 DEF TypeOK
        <5>2. PICK d \in Clients : Awaits(d, y)
          BY <1>1, <5>1, QueuedIsAwaited
        <5>3. d # c
          BY <1>1, <3>5, <4>1, <5>2, ScanQueueEffect DEF Awaits
        <5>4. QED
          BY <1>1, <4>1, <5>2, <5>3, WriterIsHome DEF Awaits, Apart, FreeSteps, ClaimInv
      <4>2. QED
        BY <1>1, <2>1, <3>5, <4>1, ScanQueueEffect
    <3>6. QED
      BY <1>1, <2>1, <3>2, <3>3, <3>4, <3>5, StepKinds, StartEffect, PutWriteEffect, InsertIndexEffect,
         RemoveOnOwnPageEffect, ClearIndexEffect, DequeueEffect, UpdateWriteEffect
         DEF Quiet, Ends, Finds, Occupied
  <2>2. CASE ~Occupied(o)
    <3>1. PICK d \in Clients : pc[d] = "f_none" /\ call[d].key = k
      BY <1>4, <2>2
    <3>2. CASE d # c
      BY <1>1, <3>1, <3>2, OthersStay
    <3>3. CASE d = c
      <4>1. ClearIndex(c)
        BY <1>1, <3>1, <3>3, StepKinds, StartEffect, PutWriteEffect, TakeNextPageEffect,
           InsertIndexEffect, FreeEffect, RemoveOnOwnPageEffect, RemoveStoreBitsEffect,
           ScanQueueEffect, DequeueEffect, UpdateWriteEffect
           DEF Quiet, QuietMoves, Ends, Finds
      <4>2. index'[k] = NONE
        BY <1>1, <3>1, <3>3, <4>1, ClearIndexEffect DEF TypeOK
      <4>3. QED
        BY <4>2
    <3>4. QED
      BY <3>2, <3>3
  <2>3. QED
    BY <2>1, <2>2
<1>8. QED
  BY <1>2, <1>6, <1>7

LEMMA RecordStep ==
    ASSUME StoreInv, QueueInv, HomeInv, OneWriter, RecordInv, [Next]_vars
    PROVE  RecordInv'
<1>1. ASSUME NEW c \in Clients, Start(c) \/ Step(c) PROVE RecordInv'
  <2>1. \A d \in Clients : RecordFits(d)'
    BY <1>1, OwnRecords, OthersRecords
  <2>2. ASSUME NEW k \in Keys, index'[k] # NONE
        PROVE  /\ Occupied(index[k])' \/ \E d \in Clients : (pc[d] = "f_none" /\ call[d].key = k)'
               /\ RecordAt(index[k])'.key = k /\ RecordAt(index[k])'.value.key = k
               /\ RecordAt(index[k])'.value \in Values
    <3>1. CASE index'[k] = index[k]
      <4>1. PICK o : o = index[k]
        OBVIOUS
      <4>2. /\ Occupied(o)' \/ \E d \in Clients : (pc[d] = "f_none" /\ call[d].key = k)'
            /\ RecordAt(o)'.key = k /\ RecordAt(o)'.value.key = k
            /\ RecordAt(o)'.value \in Values
        BY <1>1, <2>2, <3>1, <4>1, StillThere
      <4>3. QED
        BY <3>1, <4>1, <4>2
    <3>2. CASE index'[k] # index[k]
      <4>1. k = call[c].key /\ (InsertIndex(c) \/ ClearIndex(c))
        BY <1>1, <3>2, RecordEffects
      <4>2. InsertIndex(c)
        BY <2>2, <4>1, ClearIndexEffect DEF StoreInv, TypeOK
      <4>3. PICK o \in Offsets : o = Offset(c)
        BY <4>2, InsertIndexEffect DEF StoreInv
      <4>4. /\ index'[k] = o /\ pc[c] = "p_insert" /\ data' = data /\ free' = free
        BY <4>1, <4>2, <4>3, InsertIndexEffect DEF StoreInv, TypeOK
      <4>5. Occupied(o) /\ RecordAt(o).value = Value(c) /\ RecordAt(o).key = k
        BY <4>1, <4>3, <4>4 DEF RecordInv, RecordFits, HomeInv, HomeFits
      <4>6. Value(c) \in Values /\ Value(c).key = k
        BY <4>1, <4>4, ValueTyped DEF StoreInv, Value
      <4>7. QED
        BY <4>4, <4>5, <4>6 DEF Occupied, RecordAt
    <3>3. QED
      BY <3>1, <3>2
  <2>3. QED
    BY <2>1, <2>2 DEF RecordInv, IndexPointsToItsRecord
<1>2. CASE UNCHANGED vars
  <2>1. \A c \in Clients : RecordFits(c)'
    BY <1>2 DEF RecordInv, RecordFits, vars, Offset, Occupied, RecordAt, Value, Is, Removing, BitsCurrent
  <2>2. QED
    BY <1>2, <2>1 DEF RecordInv, IndexPointsToItsRecord, vars, Occupied, RecordAt
<1>3. QED
  BY <1>1, <1>2 DEF Next, Finished

LEMMA RecordInit == Init => RecordInv
  BY DEF Init, RecordInv, RecordFits, Removing, IndexPointsToItsRecord

(* All invariants of the calls, together.                                  *)
CallsInv == StoreInv /\ QueueInv /\ HomeInv /\ RecordInv

LEMMA CallsInvariant ==
    ASSUME OneWriter
    PROVE  Spec => []CallsInv
<1>1. Init => QueueInv /\ HomeInv /\ RecordInv
  BY QueueInit, HomeInit, RecordInit
<1>2. StoreInv /\ QueueInv /\ HomeInv /\ RecordInv /\ [Next]_vars => (QueueInv /\ HomeInv /\ RecordInv)'
  BY QueueStep, HomeStep, RecordStep DEF StoreInv
<1>3. QED
  BY <1>1, <1>2, StoreInvariant, PTL DEF Spec, CallsInv

(* free_occupied_slot, the deadlock queue and the unlocked bitset writes   *)
(* of remove never free the slot of a live record, put never overwrites    *)
(* one and update never writes into another key's record, for any number   *)
(* of clients, each writing any keys of its own and reading all, and       *)
(* whether or not the index returns the offset it replaces.                *)
THEOREM IndexLeadsToRecords ==
    ASSUME OneWriter
    PROVE  Spec => []IndexPointsToItsRecord
<1>1. CallsInv => IndexPointsToItsRecord
  BY DEF CallsInv, RecordInv
<1>2. QED
  BY <1>1, CallsInvariant, PTL

-----------------------------------------------------------------------------
(* The store implements the map of KVStore if each key has at most one     *)
(* client that writes it, and a key that other clients get is the only one *)
(* its client writes: a get that is overtaken may read the slot after it   *)
(* went to another key of that client.                                     *)
ReadersApart ==
    \A j, k \in Keys : \A c \in Writers(j) \cap Writers(k) :
        j # k => \A d \in Clients \ {c} : ~Plans(d, "get", j)

(* What a get will find in the slot it looked up is a value its key has    *)
(* had since the call began, or one that the key is about to get, on a     *)
(* page that is locked until it has it.                                    *)
ReadFits(c) ==
    /\ RecordAt(Offset(c)).value \in Values
    /\ \/ RecordAt(Offset(c)).value \in seen[c]
       \/ \E e \in Clients \ {c} : /\ pc[e] = "p_insert" /\ Offset(e) = Offset(c)
                                   /\ call[e].key = call[c].key

HistoryFits(c) ==
    /\ pc[c] = "idle" => seen[c] = {}
    /\ pc[c] # "idle" => result[c] = NoResult /\ Current(call[c].key) \in seen[c]
    /\ pc[c] = "g_read" => ~IsLocked(loc[c].lock_value)
    /\ pc[c] \in {"g_version", "g_read"} => ReadFits(c)

HistoryInv ==
    /\ seen = [c \in Clients |-> seen[c]]
    /\ \A c \in Clients : HistoryFits(c)

(* Only GetVersion leads to g_read.                                        *)
LEMMA ReadsAfterVersion ==
    ASSUME TypeOK, NEW c \in Clients, Start(c) \/ Step(c), pc'[c] = "g_read"
    PROVE  GetVersion(c)
<1>1. CASE Start(c)
  BY <1>1, StartEffect, FirstSteps
<1>2. Put(c) => FALSE
  BY DEF TypeOK, Put, LockOwnPage, PutWrite, PageFull, TakeNextPage, InsertIndex, UnlockOwnPage,
     Continue, Return, GoTo
<1>3. ASSUME FreeOccupiedSlot(c) PROVE FALSE
  <2>1. ~(FreeOnOwnPage(c) \/ RemoveOnOwnPage(c) \/ RemoveStoreBits(c) \/ FreeElsewhere(c)
          \/ FreeRetry(c) \/ AcquireQueue(c) \/ ScanReadBits(c) \/ Dequeue(c) \/ FreeUnlock(c))
    BY DEF TypeOK, FreeOnOwnPage, RemoveOnOwnPage, RemoveStoreBits, FreeElsewhere, FreeRetry,
       AcquireQueue, LockQueue, ScanReadBits, Dequeue, FreeUnlock, Continue, GoTo
  <2>2. ~(FreeLock(c) \/ ScanQueue(c))
    BY DEF TypeOK, FreeLock, ScanQueue, AfterInvalidate, AfterFreeLocked, Continue, GoTo
  <2>3. ~(ClearIndex(c) \/ FreeEnd(c))
    BY DEF TypeOK, ClearIndex, FreeEnd, AfterFreeLocked, Continue, Return, GoTo
  <2>4. QED
    BY <1>3, <2>1, <2>2, <2>3 DEF FreeOccupiedSlot
<1>4. Update(c) \/ RemoveKey(c) => FALSE
  BY DEF TypeOK, Update, RemoveKey, Lookup, UpdateLock, UpdateWrite, UpdateUnlock,
     Continue, Return, GoTo
<1>5. ~Lookup(c, "g_get", "g_version") /\ ~GetRead(c)
  BY DEF TypeOK, Lookup, GetRead, Continue, Return, GoTo
<1>6. QED
  BY <1>1, <1>2, <1>3, <1>4, <1>5 DEF Step, Get

(* How calls end.                                                          *)
Answers(c, ok, value) == result' = [result EXCEPT ![c] = [ok |-> ok, value |-> value]]

LEMMA Answering ==
    ASSUME TypeOK, NEW c \in Clients, Step(c), Ends(c)
    PROVE  \/ pc[c] = "p_unlock" /\ Answers(c, loc[c].is_new, NONE)
           \/ pc[c] = "u_unlock" /\ Answers(c, TRUE, NONE)
           \/ pc[c] = "f_end" /\ Is(c, "remove") /\ Answers(c, TRUE, NONE)
           \/ /\ pc[c] \in {"g_get", "u_get", "r_get"} /\ index[call[c].key] = NONE
              /\ Answers(c, FALSE, NONE)
           \/ /\ pc[c] = "g_read" /\ SameVersion(c)
              /\ Answers(c, TRUE, RecordAt(Offset(c)).value)
<1>1. pc'[c] = "idle" /\ pc[c] # "idle"
  BY DEF Ends
<1>2. CASE UnlockOwnPage(c)
  BY <1>2 DEF UnlockOwnPage, Return, GoTo, Answers
<1>3. CASE UpdateUnlock(c)
  BY <1>3 DEF UpdateUnlock, Return, GoTo, Answers
<1>4. CASE FreeEnd(c)
  BY <1>1, <1>4 DEF TypeOK, FreeEnd, Continue, Return, GoTo, Answers
<1>5. CASE Lookup(c, "g_get", "g_version") \/ Lookup(c, "u_get", "u_lock") \/ Lookup(c, "r_get", "f_start")
  BY <1>1, <1>5 DEF TypeOK, Lookup, Continue, Return, GoTo, Answers
<1>6. CASE GetRead(c)
  BY <1>1, <1>6 DEF TypeOK, GetRead, Continue, Return, GoTo, Answers, RecordAt
<1>7. pc[c] \in {"p_unlock", "u_unlock", "f_end", "g_get", "u_get", "r_get", "g_read"}
  BY DEF Ends
<1>8. Put(c) => UnlockOwnPage(c)
  BY <1>7 DEF Put, LockOwnPage, PutWrite, PageFull, TakeNextPage, InsertIndex, Continue, GoTo
<1>9. FreeOccupiedSlot(c) => FreeEnd(c)
  BY <1>7 DEF FreeOccupiedSlot, FreeOnOwnPage, RemoveOnOwnPage, RemoveStoreBits, FreeElsewhere,
     FreeLock, FreeRetry, AcquireQueue, LockQueue, ScanReadBits, ScanQueue, ClearIndex, Dequeue,
     FreeUnlock, Continue, GoTo
<1>10. Get(c) => Lookup(c, "g_get", "g_version") \/ GetRead(c)
  BY <1>7 DEF Get, GetVersion, Continue, GoTo
<1>11. Update(c) => Lookup(c, "u_get", "u_lock") \/ UpdateUnlock(c)
  BY <1>7 DEF Update, UpdateLock, UpdateWrite, Continue, GoTo
<1>12. QED
  BY <1>2, <1>3, <1>4, <1>5, <1>6, <1>8, <1>9, <1>10, <1>11 DEF Step, RemoveKey

(* How the map changes: with the index, and when update writes a record.   *)
LEMMA CurrentIsValue ==
    ASSUME CallsInv, NEW k \in Keys
    PROVE  /\ index[k] = NONE => Current(k) = NONE
           /\ index[k] # NONE => Current(k) = RecordAt(index[k]).value /\ Current(k) \in Values
           /\ Current(k) = NONE <=> index[k] = NONE
  BY StoreAssumption DEF CallsInv, RecordInv, Current

LEMMA CurrentStays ==
    ASSUME CallsInv, OneWriter, NEW c \in Clients, Start(c) \/ Step(c), NEW k \in Keys,
           (InsertIndex(c) \/ UpdateWrite(c) \/ ClearIndex(c)) => k # call[c].key
    PROVE  Current(k)' = Current(k)
<1>1. /\ StoreInv /\ QueueInv /\ HomeInv /\ RecordInv /\ TypeOK /\ CallInv /\ LocInv
      /\ RecordFits(c)
  BY DEF CallsInv, StoreInv, RecordInv
<1>2. index'[k] = index[k]
  BY <1>1, RecordEffects
<1>3. CASE index[k] = NONE
  BY <1>2, <1>3 DEF Current
<1>4. ASSUME NEW o \in Offsets, index[k] = o PROVE RecordAt(o)' = RecordAt(o)
  <2>1. PutWrite(c) => o # Offset(c)'
    BY <1>1, <1>4, NotOverwritten
  <2>2. ASSUME UpdateWrite(c) PROVE o # Offset(c)
    <3>1. pc[c] = "u_write" /\ call[c].key \in Keys
      BY <1>1, <2>2, UpdateWriteEffect, KeyOfCall
    <3>2. index[call[c].key] = Offset(c)
      BY <1>1, <3>1 DEF RecordFits
    <3>3. QED
      BY <1>1, <1>4, <2>2, <3>1, <3>2, RecordsAreApart, StoreAssumption
  <2>3. QED
    BY <1>1, <2>1, <2>2, RecordEffects
<1>5. QED
  BY <1>1, <1>2, <1>3, <1>4, StoreAssumption DEF TypeOK, Current

LEMMA CurrentChanges ==
    ASSUME CallsInv, OneWriter, NEW c \in Clients, InsertIndex(c) \/ UpdateWrite(c) \/ ClearIndex(c)
    PROVE  /\ call[c].key \in Keys /\ call' = call
           /\ Current(call[c].key)' = IF ClearIndex(c) THEN NONE ELSE Value(c)
           /\ ~InsertIndex(c) => index[call[c].key] # NONE
<1>1. /\ StoreInv /\ RecordInv /\ TypeOK /\ CallInv /\ LocInv /\ CallFits(c) /\ RecordFits(c)
  BY DEF CallsInv, StoreInv, CallInv, RecordInv
<1>2. PICK k : k = call[c].key
  OBVIOUS
<1>3. PICK o : o = Offset(c)
  OBVIOUS
<1>4. CASE InsertIndex(c)
  <2>1. /\ k \in Keys /\ o \in Offsets /\ index'[k] = o /\ data' = data /\ pc[c] = "p_insert"
        /\ call' = call
    BY <1>1, <1>2, <1>3, <1>4, InsertIndexEffect DEF TypeOK
  <2>2. RecordAt(o)' = RecordAt(o) /\ RecordAt(o).value = Value(c)
    BY <1>1, <1>3, <2>1 DEF RecordAt, RecordFits
  <2>3. Current(k)' = Value(c)
    BY <2>1, <2>2, StoreAssumption DEF Current
  <2>4. ~ClearIndex(c)
    BY <1>1, <2>1, ClearIndexEffect
  <2>5. QED
    BY <1>2, <1>4, <2>1, <2>3, <2>4
<1>5. CASE UpdateWrite(c)
  <2>1. /\ pc[c] = "u_write" /\ o \in Offsets /\ index' = index /\ RecordAt(o)'.value = Value(c)
        /\ call' = call
    BY <1>1, <1>3, <1>5, UpdateWriteEffect
  <2>2. k \in Keys
    BY <1>1, <1>2, <2>1, KeyOfCall
  <2>3. index[k] = o /\ o # NONE
    BY <1>1, <1>2, <1>3, <2>1, StoreAssumption DEF RecordFits
  <2>4. Current(k)' = Value(c)
    BY <2>1, <2>3 DEF Current
  <2>5. ~ClearIndex(c)
    BY <1>1, <2>1, ClearIndexEffect
  <2>6. QED
    BY <1>2, <2>1, <2>2, <2>3, <2>4, <2>5
<1>6. CASE ClearIndex(c)
  <2>1. /\ pc[c] = "f_none" /\ Is(c, "remove") /\ k \in Keys /\ o \in Offsets /\ index'[k] = NONE
        /\ call' = call
    BY <1>1, <1>2, <1>3, <1>6, ClearIndexEffect DEF TypeOK
  <2>2. index[k] = o
    BY <1>1, <1>2, <1>3, <2>1 DEF RecordFits, Removing
  <2>3. Current(k)' = NONE
    BY <2>1 DEF Current
  <2>4. QED
    BY <1>2, <1>6, <2>1, <2>2, <2>3, StoreAssumption
<1>7. QED
  BY <1>4, <1>5, <1>6

(* Only the end of a call gives an answer.                                 *)
LEMMA AnswersAtTheEnd ==
    ASSUME TypeOK, CallInv, LocInv, NEW c \in Clients, Step(c)
    PROVE  /\ pc[c] # "idle"
           /\ ~Ends(c) => result' = result /\ done' = done
<1>1. ~Ends(c) => result' = result /\ done' = done
  BY StepKinds DEF Quiet, Finds, PutWrite, TakeNextPage, InsertIndex, FreeOnOwnPage, RemoveOnOwnPage,
     RemoveStoreBits, FreeLock, ScanQueue, ClearIndex, Dequeue, UpdateWrite, Continue
<1>2. Quiet(c) \/ Ends(c) \/ Finds(c) => pc[c] # "idle"
  BY DEF Quiet, QuietMoves, Ends, Finds
<1>3. PutWrite(c) \/ TakeNextPage(c) \/ InsertIndex(c) \/ FreeOnOwnPage(c) \/ RemoveOnOwnPage(c)
      \/ RemoveStoreBits(c) \/ FreeLock(c) \/ ClearIndex(c) \/ Dequeue(c) \/ UpdateWrite(c) => pc[c] # "idle"
  BY DEF PutWrite, TakeNextPage, InsertIndex, FreeOnOwnPage, RemoveOnOwnPage,
     RemoveStoreBits, FreeLock, ClearIndex, Dequeue, UpdateWrite, Continue, GoTo
<1>4. ScanQueue(c) => pc[c] # "idle"
  BY ScanQueueEffect
<1>5. QED
  BY <1>1, <1>2, <1>3, <1>4, StepKinds

LEMMA OthersAnswers ==
    ASSUME TypeOK, CallInv, LocInv, NEW c \in Clients, Start(c) \/ Step(c), NEW d \in Clients \ {c}
    PROVE  result'[d] = result[d] /\ done'[d] = done[d]
<1>1. CASE Start(c)
  BY <1>1, StartEffect DEF TypeOK
<1>2. CASE Ends(c) /\ Step(c)
  BY <1>2, Answering DEF TypeOK, Ends, Answers
<1>3. CASE Step(c) /\ ~Ends(c)
  BY <1>3, AnswersAtTheEnd
<1>4. QED
  BY <1>1, <1>2, <1>3

(* Whatever a step does, a get in progress keeps a value to return.        *)
LEMMA ReadStep ==
    ASSUME CallsInv, OneWriter, ReadersApart, NEW c \in Clients, Start(c) \/ Step(c),
           NEW d \in Clients, pc[d] \in {"g_version", "g_read"}, d # c, ReadFits(d),
           seen' = [e \in Clients |-> IF pc'[e] = "idle" THEN {}
                                      ELSE seen[e] \cup {Current(call[e].key)'}]
    PROVE  ReadFits(d)'
<1>1. /\ StoreInv /\ QueueInv /\ HomeInv /\ RecordInv /\ TypeOK /\ CallInv /\ LocInv /\ ClaimInv
      /\ RecordFits(c) /\ HomeFits(d) /\ LocFits(d) /\ HomeFits(c)
  BY DEF CallsInv, StoreInv, RecordInv, HomeInv, LocInv
<1>2. pc'[d] = pc[d] /\ call'[d] = call[d] /\ Offset(d)' = Offset(d)
  BY <1>1, OthersStay DEF Offset
<1>3. PICK o : o = Offset(d)
  OBVIOUS
<1>4. PICK k : k = call[d].key
  OBVIOUS
<1>5. o \in Offsets /\ k \in Keys /\ Plans(d, "get", k) /\ Plans(o.page[1], "put", k)
  BY <1>1, <1>3, <1>4, KeyOfCall DEF LocFits, HomeFits, WithOffset, Is
<1>6. seen[d] \subseteq seen'[d] /\ Current(k)' \in seen'[d]
  BY <1>2, <1>4
<1>7. RecordAt(o).value \in Values
  BY <1>3 DEF ReadFits
<1>8. ASSUME pc[c] \in {"p_write", "p_insert", "u_write"}, o.page[1] = c PROVE call[c].key = k
  <2>1. c \in Writers(k) /\ c \in Writers(call[c].key) /\ call[c].key \in Keys
    BY <1>1, <1>5, <1>8, KeyOfCall DEF HomeFits, CallInv, CallFits, PutSteps, Writers, Is
  <2>2. QED
    BY <1>5, <2>1 DEF ReadersApart
<1>9. CASE PutWrite(c) /\ o = Offset(c)'
  <2>1. /\ pc[c] = "p_write" /\ pc'[c] = "p_insert" /\ call' = call /\ o.page[1] = c
        /\ RecordAt(o)' = [key |-> call[c].key, value |-> Value(c)]
    BY <1>1, <1>5, <1>9, PutWriteEffect DEF ClaimInv
  <2>2. RecordAt(o)'.value = Value(c) /\ Value(c) \in Values
    BY <1>1, <2>1, ValueTyped
  <2>3. call'[c].key = k /\ call'[d].key = k
    BY <1>2, <1>4, <1>8, <2>1
  <2>4. Offset(c)' = Offset(d)'
    BY <1>2, <1>3, <1>9
  <2>5. RecordAt(Offset(d))' = RecordAt(o)'
    BY <1>2, <1>3 DEF RecordAt
  <2>6. QED
    BY <2>1, <2>2, <2>3, <2>4, <2>5 DEF ReadFits
<1>10. CASE UpdateWrite(c) /\ o = Offset(c)
  <2>1. /\ pc[c] = "u_write" /\ RecordAt(o)'.value = Value(c)
    BY <1>1, <1>10, UpdateWriteEffect
  <2>2. o.page[1] = c
    BY <1>1, <1>10, <2>1, WriterIsHome DEF WriteSteps
  <2>3. call[c].key = k /\ Value(c) \in Values
    BY <1>1, <1>8, <2>1, <2>2, ValueTyped
  <2>4. Current(k)' = Value(c)
    BY <1>1, <1>10, <2>1, <2>3, CurrentChanges, ClearIndexEffect
  <2>5. RecordAt(Offset(d))' = RecordAt(o)'
    BY <1>2, <1>3 DEF RecordAt
  <2>6. QED
    BY <1>6, <2>1, <2>3, <2>4, <2>5, <1>2 DEF ReadFits
<1>11. CASE ~(PutWrite(c) /\ o = Offset(c)') /\ ~(UpdateWrite(c) /\ o = Offset(c))
  <2>1. RecordAt(o)' = RecordAt(o)
    BY <1>1, <1>5, <1>11, RecordEffects
  <2>2. RecordAt(Offset(d))' = RecordAt(o)
    BY <1>2, <1>3, <2>1 DEF RecordAt
  <2>3. CASE RecordAt(o).value \in seen[d]
    BY <1>6, <1>7, <2>2, <2>3 DEF ReadFits
  <2>4. ASSUME NEW e \in Clients \ {d}, pc[e] = "p_insert", Offset(e) = o, call[e].key = k
        PROVE  ReadFits(d)'
    <3>1. CASE e # c
      <4>1. pc'[e] = "p_insert" /\ call'[e].key = call'[d].key /\ Offset(e)' = Offset(d)'
        BY <1>1, <1>2, <1>3, <1>4, <2>4, <3>1, OthersStay DEF Offset
      <4>2. QED
        BY <1>7, <2>2, <4>1 DEF ReadFits
    <3>2. CASE e = c
      <4>1. RecordAt(o).value = Value(c)
        BY <1>1, <2>4, <3>2 DEF RecordFits
      <4>2. InsertIndex(c)
        BY <1>1, <2>4, <3>2, StepKinds, StartEffect, PutWriteEffect, TakeNextPageEffect,
           FreeEffect, RemoveOnOwnPageEffect, RemoveStoreBitsEffect, ClearIndexEffect,
           ScanQueueEffect, DequeueEffect, UpdateWriteEffect
           DEF Quiet, QuietMoves, Ends, Finds, CallInv, CallFits, FreeSteps
      <4>3. Current(k)' = Value(c)
        BY <1>1, <2>4, <3>2, <4>2, CurrentChanges, ClearIndexEffect
      <4>4. QED
        BY <1>6, <1>7, <2>2, <4>1, <4>3 DEF ReadFits
    <3>3. QED
      BY <3>1, <3>2
  <2>5. QED
    BY <1>3, <1>4, <2>3, <2>4 DEF ReadFits
<1>12. QED
  BY <1>9, <1>10, <1>11

LEMMA HistoryStep ==
    ASSUME CallsInv, OneWriter, ReadersApart, HistoryInv, [HistoryNext]_<<vars, seen>>
    PROVE  HistoryInv'
<1>1. /\ StoreInv /\ QueueInv /\ HomeInv /\ RecordInv /\ TypeOK /\ CallInv /\ LocInv /\ ClaimInv
      /\ index \in [Keys -> Offsets \cup {NONE}]
  BY SMTT(30) DEF CallsInv, StoreInv, TypeOK
<1>2. CASE UNCHANGED <<vars, seen>>
  BY <1>2 DEF HistoryInv, HistoryFits, ReadFits, Current, RecordAt, Offset, vars
<1>3. ASSUME HistoryNext, Finished PROVE HistoryInv'
  <2>1. seen' = [c \in Clients |-> {}] /\ \A c \in Clients : pc'[c] = "idle"
    BY <1>3 DEF HistoryNext, Finished, vars
  <2>2. QED
    BY <2>1 DEF HistoryInv, HistoryFits
<1>4. ASSUME NEW c \in Clients, Start(c) \/ Step(c), HistoryNext PROVE HistoryInv'
  <2>1. seen' = [e \in Clients |-> IF pc'[e] = "idle" THEN {}
                                   ELSE seen[e] \cup {Current(call[e].key)'}]
    BY <1>4 DEF HistoryNext
  <2>2. \A d \in Clients : /\ pc'[d] = "idle" => seen'[d] = {}
                           /\ pc'[d] # "idle" => Current(call[d].key)' \in seen'[d]
    BY <2>1
  <2>3. ASSUME NEW d \in Clients \ {c} PROVE HistoryFits(d)'
    <3>1. /\ pc'[d] = pc[d] /\ call'[d] = call[d] /\ loc'[d] = loc[d] /\ HistoryFits(d)
      BY <1>1, <1>4, OthersStay DEF HistoryInv
    <3>2. result'[d] = result[d]
      BY <1>1, <1>4, OthersAnswers
    <3>3. pc[d] \in {"g_version", "g_read"} => ReadFits(d)'
      BY <1>4, <2>1, <3>1, ReadStep DEF HistoryFits
    <3>4. QED
      BY <2>2, <3>1, <3>2, <3>3 DEF HistoryFits
  <2>4. HistoryFits(c) /\ HomeFits(c)
    BY <1>1 DEF HistoryInv, HomeInv
  <2>5. ASSUME pc'[c] # "idle" PROVE result'[c] = NoResult
    <3>1. CASE Start(c)
      BY <1>1, <3>1, StartEffect DEF TypeOK
    <3>2. CASE Step(c)
      BY <1>1, <2>4, <2>5, <3>2, AnswersAtTheEnd DEF HistoryFits, Ends
    <3>3. QED
      BY <1>4, <3>1, <3>2
  <2>6. ASSUME pc'[c] = "g_read" PROVE ~IsLocked(loc'[c].lock_value)
    <3>1. GetVersion(c)
      BY <1>1, <1>4, <2>6, ReadsAfterVersion
    <3>2. ~IsLocked(lock[Offset(c).page])
      BY <1>1, <2>6, <3>1 DEF GetVersion, Continue, GoTo, TypeOK
    <3>3. loc'[c] = [loc[c] EXCEPT !.lock_value = lock[Offset(c).page]] /\ loc[c] \in Locals
      BY <1>1, <3>1 DEF GetVersion, TypeOK
    <3>4. QED
      BY <3>2, <3>3 DEF Locals
  <2>7. ASSUME pc'[c] \in {"g_version", "g_read"} PROVE ReadFits(c)'
    <3>1. CASE Finds(c)
      <4>1. PICK k : k = call[c].key
        OBVIOUS
      <4>2. PICK o : o = index[k]
        OBVIOUS
      <4>3. /\ o # NONE /\ index' = index /\ data' = data /\ call' = call /\ Offset(c)' = o
            /\ k \in Keys
        BY <1>1, <3>1, <4>1, <4>2, KeyOfCall DEF Finds, Offset
      <4>4. RecordAt(o).value \in Values /\ Current(k)' = RecordAt(o).value
        BY <1>1, <4>2, <4>3 DEF RecordInv, Current, RecordAt
      <4>5. Current(k)' \in seen'[c]
        BY <2>1, <2>7, <4>1, <4>3
      <4>6. RecordAt(Offset(c))' = RecordAt(o)
        BY <4>3 DEF RecordAt
      <4>7. QED
        BY <4>4, <4>5, <4>6 DEF ReadFits
    <3>2. CASE ~Finds(c)
      <4>1. Quiet(c)
        BY <1>1, <1>4, <2>7, <3>2, StepKinds, StartEffect, FirstSteps, PutWriteEffect, TakeNextPageEffect,
           InsertIndexEffect, FreeEffect, RemoveOnOwnPageEffect, RemoveStoreBitsEffect,
           ScanQueueEffect, ClearIndexEffect, DequeueEffect, UpdateWriteEffect
           DEF Ends, CallInv, CallFits, FreeSteps
      <4>2. /\ pc[c] = "g_version" /\ data' = data /\ call' = call /\ Offset(c)' = Offset(c)
        BY <2>7, <4>1 DEF Quiet, QuietMoves, SameLocals, Offset
      <4>3. ReadFits(c)
        BY <2>4, <4>2 DEF HistoryFits
      <4>4. \A e \in Clients \ {c} : pc'[e] = pc[e] /\ Offset(e)' = Offset(e)
        BY <1>1, <1>4, OthersStay DEF Offset
      <4>5. RecordAt(Offset(c))' = RecordAt(Offset(c)) /\ seen[c] \subseteq seen'[c]
        BY <2>1, <2>7, <4>2 DEF RecordAt
      <4>6. QED
        BY <4>2, <4>3, <4>4, <4>5 DEF ReadFits
    <3>3. QED
      BY <3>1, <3>2
  <2>8. HistoryFits(c)'
    BY <2>2, <2>5, <2>6, <2>7 DEF HistoryFits
  <2>9. seen' = [d \in Clients |-> seen'[d]]
    BY <2>1
  <2>10. QED
    BY <2>3, <2>8, <2>9 DEF HistoryInv
<1>5. QED
  BY <1>2, <1>3, <1>4 DEF HistoryNext, Next

LEMMA HistoryStart == HistoryInit => HistoryInv
  BY DEF HistoryInit, Init, HistoryInv, HistoryFits

LEMMA HistoryInvariant ==
    ASSUME OneWriter, ReadersApart
    PROVE  HistorySpec => [](CallsInv /\ HistoryInv)
<1>1. HistoryInit => Init
  BY DEF HistoryInit
<1>2. [HistoryNext]_<<vars, seen>> => [Next]_vars
  BY DEF HistoryNext
<1>3. HistorySpec => []CallsInv
  BY <1>1, <1>2, CallsInvariant, PTL DEF HistorySpec, Spec
<1>4. CallsInv /\ HistoryInv /\ [HistoryNext]_<<vars, seen>> => HistoryInv'
  BY HistoryStep
<1>5. QED
  BY <1>3, <1>4, HistoryStart, PTL DEF HistorySpec

-----------------------------------------------------------------------------
(* Each step of a call is one step of the map or none.                     *)
LEMMA Observed ==
    ASSUME CallInv', HistoryNext
    PROVE  Map!Observe
<1>1. ASSUME NEW c \in Clients
      PROVE  (IF ARequest'[c] = Map!NoRequest THEN {} ELSE seen[c] \cup {AMap'[ARequest'[c].key]})
             = IF pc'[c] = "idle" THEN {} ELSE seen[c] \cup {Current(call[c].key)'}
  <2>1. CASE pc'[c] = "idle"
    BY <2>1 DEF ARequest, Map!NoRequest
  <2>2. CASE pc'[c] # "idle"
    <3>1. call'[c] \in Calls
      BY <2>2 DEF CallInv, CallFits
    <3>2. PICK k \in Keys : k = call'[c].key
      BY <3>1 DEF Calls
    <3>3. ARequest'[c].name = call'[c].name /\ ARequest'[c].key = k
      BY <2>2, <3>2 DEF ARequest
    <3>4. ARequest'[c] # Map!NoRequest
      BY <3>1, <3>3 DEF Calls, OpNames, Map!NoRequest
    <3>5. AMap'[k] = Current(k)'
      BY DEF AMap
    <3>6. Current(call[c].key)' = Current(k)'
      BY <3>2 DEF Current
    <3>7. QED
      BY <2>2, <3>3, <3>4, <3>5, <3>6
  <2>3. QED
    BY <2>1, <2>2
<1>2. seen' = [c \in Clients |-> IF pc'[c] = "idle" THEN {} ELSE seen[c] \cup {Current(call[c].key)'}]
  BY DEF HistoryNext
<1>3. seen' = [c \in Clients |-> IF ARequest'[c] = Map!NoRequest THEN {}
                                 ELSE seen[c] \cup {AMap'[ARequest'[c].key]}]
  BY <1>1, <1>2, Zenon
<1>4. QED
  BY <1>3, Zenon DEF Map!Observe

(* What the map's clients see of a client that makes no step.              *)
LEMMA OneClientMoves ==
    ASSUME TypeOK, CallInv, LocInv, NEW c \in Clients, Start(c) \/ Step(c)
    PROVE  /\ ARequest' = [ARequest EXCEPT ![c] = ARequest'[c]]
           /\ AApplied' = [AApplied EXCEPT ![c] = AApplied'[c]]
           /\ AResult' = [AResult EXCEPT ![c] = AResult'[c]]
<1>1. ASSUME NEW d \in Clients \ {c}
      PROVE  ARequest'[d] = ARequest[d] /\ AApplied'[d] = AApplied[d] /\ AResult'[d] = AResult[d]
  <2>1. /\ pc'[d] = pc[d] /\ call'[d] = call[d] /\ loc'[d] = loc[d]
        /\ result'[d] = result[d] /\ done'[d] = done[d]
    BY OthersStay, OthersAnswers
  <2>2. ARequest'[d] = ARequest[d]
    BY <2>1 DEF ARequest, Value
  <2>3. Applied(d)' <=> Applied(d)
    BY <2>1 DEF Applied, Is
  <2>4. AApplied'[d] = AApplied[d]
    BY <2>1, <2>3 DEF AApplied
  <2>5. AResult'[d] = AResult[d]
    BY <2>1, <2>3 DEF AResult, AppliedResult, Is
  <2>6. QED
    BY <2>2, <2>4, <2>5
<1>2. /\ ARequest = [d \in Clients |-> ARequest[d]] /\ ARequest' = [d \in Clients |-> ARequest'[d]]
      /\ AApplied = [d \in Clients |-> AApplied[d]] /\ AApplied' = [d \in Clients |-> AApplied'[d]]
      /\ AResult = [d \in Clients |-> AResult[d]] /\ AResult' = [d \in Clients |-> AResult'[d]]
  BY DEF ARequest, AApplied, AResult
<1>3. ASSUME NEW f, NEW g, f = [d \in Clients |-> f[d]], g = [d \in Clients |-> g[d]],
             \A d \in Clients \ {c} : g[d] = f[d]
      PROVE  g = [f EXCEPT ![c] = g[c]]
  BY <1>3
<1>4. QED
  BY <1>1, <1>2, <1>3

LEMMA MapStays ==
    ASSUME CallsInv, OneWriter, NEW c \in Clients, Start(c) \/ Step(c),
           ~(InsertIndex(c) \/ UpdateWrite(c) \/ ClearIndex(c))
    PROVE  AMap' = AMap
BY CurrentStays DEF AMap

LEMMA MapChanges ==
    ASSUME CallsInv, OneWriter, NEW c \in Clients, Start(c) \/ Step(c),
           InsertIndex(c) \/ UpdateWrite(c) \/ ClearIndex(c)
    PROVE  AMap' = [AMap EXCEPT ![call[c].key] = IF ClearIndex(c) THEN NONE ELSE Value(c)]
<1>1. PICK k \in Keys : k = call[c].key
  BY CurrentChanges
<1>2. PICK v : v = IF ClearIndex(c) THEN NONE ELSE Value(c)
  OBVIOUS
<1>3. \A j \in Keys : Current(j)' = IF j = k THEN v ELSE Current(j)
  BY <1>1, <1>2, CurrentStays, CurrentChanges
<1>4. AMap' = [AMap EXCEPT ![k] = v]
  BY <1>3 DEF AMap
<1>5. QED
  BY <1>1, <1>2, <1>4

(* A step of a call before or after it takes effect.                       *)
LEMMA Unseen ==
    ASSUME CallsInv, OneWriter, HistoryInv, HistoryNext, NEW c \in Clients, Step(c),
           ~(InsertIndex(c) \/ UpdateWrite(c) \/ ClearIndex(c)),
           pc'[c] # "idle", call' = call, done' = done, result' = result,
           Applied(c)' <=> Applied(c),
           Applied(c) /\ Is(c, "put") => loc'[c].is_new = loc[c].is_new
    PROVE  UNCHANGED Map!vars
<1>1. AMap' = AMap /\ TypeOK /\ CallInv /\ LocInv /\ pc[c] # "idle"
  BY MapStays, AnswersAtTheEnd DEF CallsInv, StoreInv
<1>2. ARequest'[c] = ARequest[c]
  BY <1>1 DEF ARequest, Value
<1>3. AApplied'[c] = AApplied[c]
  BY <1>1 DEF AApplied
<1>4. AResult'[c] = AResult[c]
  BY <1>1 DEF AResult, AppliedResult, Is
<1>5. /\ ARequest = [d \in Clients |-> ARequest[d]] /\ AApplied = [d \in Clients |-> AApplied[d]]
      /\ AResult = [d \in Clients |-> AResult[d]]
  BY DEF ARequest, AApplied, AResult
<1>6. ARequest' = ARequest /\ AApplied' = AApplied /\ AResult' = AResult
  BY <1>1, <1>2, <1>3, <1>4, <1>5, OneClientMoves
<1>7. seen' = seen
  <2>1. ASSUME NEW d \in Clients
        PROVE  seen'[d] = seen[d]
    <3>1. d # c => pc'[d] = pc[d]
      BY <1>1, OthersStay
    <3>2. pc'[d] = "idle" <=> pc[d] = "idle"
      BY <1>1, <3>1
    <3>3. seen'[d] = IF pc'[d] = "idle" THEN {} ELSE seen[d] \cup {Current(call[d].key)'}
      BY DEF HistoryNext
    <3>4. CASE pc[d] = "idle"
      BY <3>2, <3>3, <3>4 DEF HistoryInv, HistoryFits
    <3>5. CASE pc[d] # "idle"
      <4>1. PICK k \in Keys : k = call[d].key
        BY <1>1, <3>5, KeyOfCall
      <4>2. Current(k)' = Current(k)
        BY <4>1, CurrentStays
      <4>3. Current(k) \in seen[d]
        BY <3>5, <4>1 DEF HistoryInv, HistoryFits
      <4>4. Current(call[d].key)' = Current(k)'
        BY <4>1 DEF Current
      <4>5. QED
        BY <3>2, <3>3, <3>5, <4>2, <4>3, <4>4
    <3>6. QED
      BY <3>4, <3>5
  <2>2. seen = [d \in Clients |-> seen[d]] /\ seen' = [d \in Clients |-> seen'[d]]
    BY DEF HistoryInv, HistoryNext
  <2>3. QED
    BY <2>1, <2>2
<1>8. QED
  BY <1>1, <1>6, <1>7 DEF Map!vars

LEMMA UnseenSteps ==
    ASSUME CallsInv, CallInv', OneWriter, HistoryInv, HistoryNext, NEW c \in Clients, Step(c),
           ~Ends(c), ~(InsertIndex(c) \/ UpdateWrite(c) \/ ClearIndex(c))
    PROVE  UNCHANGED Map!vars
<1>1. /\ StoreInv /\ QueueInv /\ HomeInv /\ TypeOK /\ CallInv /\ LocInv /\ ClaimInv
      /\ CallFits(c) /\ HomeFits(c)
  BY DEF CallsInv, StoreInv, CallInv, HomeInv
<1>2. result' = result /\ done' = done
  BY <1>1, AnswersAtTheEnd
<1>3. SUFFICES /\ pc'[c] # "idle" /\ call' = call /\ (Applied(c)' <=> Applied(c))
               /\ Applied(c) /\ Is(c, "put") => loc'[c].is_new = loc[c].is_new
  BY <1>2, Unseen
<1>4. CASE Quiet(c)
  <2>1. <<"f_scan", "f_clear">> \notin QuietMoves
    BY DEF QuietMoves
  <2>2. /\ call' = call /\ loc'[c].is_new = loc[c].is_new
        /\ <<pc[c], pc'[c]>> \in QuietMoves \cup {<<"f_scan", "f_clear">>}
        /\ <<pc[c], pc'[c]>> = <<"f_scan", "f_clear">> => Is(c, "remove")
    BY <1>4, <2>1 DEF Quiet, SameLocals
  <2>3. pc'[c] = "p_unlock" => Is(c, "put")
    BY <2>2 DEF CallInv, CallFits, PutSteps, Is
  <2>4. pc'[c] # "idle"
    BY <2>2 DEF QuietMoves
  <2>5. CASE Is(c, "put")
    BY <2>2, <2>5 DEF QuietMoves, Applied, Is
  <2>6. CASE ~Is(c, "put")
    BY <2>2, <2>3, <2>6 DEF QuietMoves, Applied, Is
  <2>7. QED
    BY <2>2, <2>4, <2>5, <2>6
<1>5. CASE Finds(c)
  BY <1>1, <1>5 DEF Finds, Applied, Is, CallFits, HomeFits
<1>6. CASE PutWrite(c)
  BY <1>1, <1>6, PutWriteEffect DEF Applied, Is, CallFits, PutSteps
<1>7. CASE TakeNextPage(c)
  BY <1>1, <1>7, TakeNextPageEffect DEF Applied, Is, CallFits, PutSteps
<1>8. CASE FreeOnOwnPage(c)
  BY <1>1, <1>8, FreeEffect DEF Applied, Is, SameLocals
<1>9. CASE FreeLock(c)
  <2>1. /\ pc[c] = "f_cas" /\ call' = call /\ SameLocals(c)
        /\ Is(c, "remove") => pc'[c] = "f_none"
        /\ Is(c, "put") => pc'[c] \in {"f_dequeue", "f_unlock"}
    BY <1>1, <1>9, FreeEffect
  <2>2. Is(c, "put") \/ Is(c, "remove")
    BY <1>1, <2>1 DEF CallFits, FreeSteps
  <2>3. QED
    BY <2>1, <2>2 DEF Applied, Is, SameLocals
<1>10. CASE RemoveOnOwnPage(c)
  BY <1>1, <1>10, RemoveOnOwnPageEffect DEF Applied, Is, SameLocals
<1>11. CASE RemoveStoreBits(c)
  BY <1>1, <1>11, RemoveStoreBitsEffect DEF Applied, Is
<1>12. CASE ScanQueue(c)
  <2>1. /\ pc[c] = IF Is(c, "remove") THEN "f_clear" ELSE "f_scan"
        /\ pc'[c] \in {"f_cas", IF Is(c, "remove") THEN "f_none" ELSE "f_end"}
        /\ call' = call /\ loc'[c].is_new = loc[c].is_new
    BY <1>1, <1>12, ScanQueueEffect
  <2>2. Is(c, "put") \/ Is(c, "remove")
    BY <1>1, <2>1 DEF CallFits, FreeSteps
  <2>3. QED
    BY <2>1, <2>2 DEF Applied, Is
<1>13. CASE Dequeue(c)
  BY <1>1, <1>13, DequeueEffect DEF Applied, Is
<1>14. QED
  BY <1>1, <1>4, <1>5, <1>6, <1>7, <1>8, <1>9, <1>10, <1>11, <1>12, <1>13, StepKinds

LEMMA StartIsRequest ==
    ASSUME CallsInv, CallInv', OneWriter, NEW c \in Clients, Start(c)
    PROVE  Map!Request(c)
<1>1. /\ TypeOK /\ CallInv /\ LocInv /\ pc[c] = "idle" /\ call'[c] \in Calls /\ done' = done
      /\ pc'[c] = FirstStep[call'[c].name] /\ result' = [result EXCEPT ![c] = NoResult]
  BY StartEffect DEF CallsInv, StoreInv
<1>2. pc'[c] \in {"p_lock", "g_get", "u_get", "r_get"}
  BY <1>1, FirstSteps
<1>3. AMap' = AMap
  <2>1. ~(InsertIndex(c) \/ UpdateWrite(c) \/ ClearIndex(c))
    BY <1>1 DEF InsertIndex, UpdateWrite, ClearIndex, Continue, GoTo
  <2>2. QED
    BY <2>1, MapStays
<1>4. ARequest[c] = Map!NoRequest
  BY <1>1 DEF ARequest, Map!NoRequest
<1>5. ARequest'[c] \in [name : Map!Names, key : Keys, value : Values]
  <2>1. PICK n \in OpNames, k \in Keys : call'[c].name = n /\ call'[c].key = k
    BY <1>1 DEF Calls
  <2>2. Value(c)' = [key |-> k, by |-> c, n |-> done[c] + 1]
    BY <1>1, <2>1 DEF Value
  <2>3. PICK v \in Values : v = Value(c)'
    <3>1. PICK m \in Nat : m = done[c] + 1
      BY DEF CallsInv, StoreInv, TypeOK
    <3>2. QED
      BY <2>2, <3>1 DEF Values
  <2>4. ARequest'[c] = [name |-> n, key |-> k, value |-> v]
    BY <1>2, <2>1, <2>3 DEF ARequest
  <2>5. QED
    BY <2>4 DEF Map!Names, OpNames
<1>6. ~AApplied[c] /\ ~AApplied'[c]
  BY <1>1, <1>2 DEF AApplied, Applied, Is
<1>7. AResult'[c] = [ok |-> FALSE, value |-> NONE]
  BY <1>1, <1>2 DEF AResult, AppliedResult, Applied, Is, NoResult, TypeOK
<1>8. AApplied' = AApplied
  <2>1. AApplied' = [AApplied EXCEPT ![c] = AApplied'[c]]
    BY <1>1, OneClientMoves
  <2>2. AApplied'[c] = AApplied[c]
    BY <1>6 DEF AApplied
  <2>3. QED
    BY <2>1, <2>2 DEF AApplied
<1>9. QED
  BY <1>1, <1>3, <1>4, <1>5, <1>7, <1>8, OneClientMoves DEF Map!Request

LEMMA TakesEffect ==
    ASSUME IndexReturnsOld, CallsInv, OneWriter, HistoryInv, NEW c \in Clients, Step(c),
           InsertIndex(c) \/ UpdateWrite(c) \/ ClearIndex(c)
    PROVE  Map!ApplyPut(c) \/ Map!ApplyUpdate(c) \/ Map!ApplyRemove(c)
<1>1. /\ StoreInv /\ TypeOK /\ CallInv /\ LocInv /\ CallFits(c) /\ HomeFits(c) /\ HistoryFits(c)
      /\ pc[c] # "idle"
  BY AnswersAtTheEnd DEF CallsInv, StoreInv, CallInv, HomeInv, HistoryInv
<1>2. PICK k \in Keys : k = call[c].key
  BY CurrentChanges
<1>3. /\ call' = call /\ done' = done /\ result' = result
      /\ InsertIndex(c) => /\ pc[c] = "p_insert" /\ pc'[c] \in {"p_unlock", "f_start"} /\ Is(c, "put")
                           /\ loc'[c].is_new = (Replaced(k) = NONE)
      /\ UpdateWrite(c) => pc[c] = "u_write" /\ pc'[c] = "u_unlock" /\ Is(c, "update")
      /\ ClearIndex(c) => /\ pc[c] = "f_none" /\ pc'[c] \in {"f_dequeue", "f_unlock", "f_end"}
                          /\ Is(c, "remove")
  BY <1>1, <1>2, InsertIndexEffect, UpdateWriteEffect, ClearIndexEffect DEF HomeFits
<1>4. /\ ARequest[c].name = call[c].name /\ ARequest[c].key = k /\ ARequest[c].value = Value(c)
      /\ ARequest'[c] = ARequest[c]
  BY <1>1, <1>2, <1>3 DEF ARequest, Value
<1>5. ~AApplied[c] /\ AApplied'[c] /\ AApplied'[c] \in BOOLEAN
  BY <1>1, <1>3 DEF AApplied, Applied, Is
<1>6. AApplied' = [AApplied EXCEPT ![c] = TRUE]
  BY <1>1, <1>5, OneClientMoves
<1>7. ARequest' = ARequest
  <2>1. ARequest' = [ARequest EXCEPT ![c] = ARequest'[c]]
    BY <1>1, OneClientMoves
  <2>2. QED
    BY <1>4, <2>1 DEF ARequest
<1>8. PICK v : v = IF ClearIndex(c) THEN NONE ELSE Value(c)
  OBVIOUS
<1>9. AMap' = [AMap EXCEPT ![ARequest[c].key] = v]
  BY <1>2, <1>4, <1>8, MapChanges
<1>10. AMap[k] = NONE <=> index[k] = NONE
  BY CurrentIsValue DEF AMap
<1>11. ~InsertIndex(c) => AMap[k] # NONE
  BY <1>2, <1>10, CurrentChanges
<1>12. AResult[c] = [ok |-> FALSE, value |-> NONE]
  BY <1>1, <1>5 DEF AResult, AppliedResult, AApplied, HistoryFits, NoResult
<1>13. AResult'[c] = [ok |-> IF Is(c, "put") THEN loc'[c].is_new ELSE TRUE, value |-> NONE]
  BY <1>3, <1>5 DEF AResult, AppliedResult, AApplied, Is
<1>14. ASSUME NEW b, AResult'[c] = [ok |-> b, value |-> NONE]
       PROVE  AResult' = [AResult EXCEPT ![c].ok = b]
  <2>1. [AResult[c] EXCEPT !.ok = b] = [ok |-> b, value |-> NONE]
    BY <1>12
  <2>2. AResult' = [AResult EXCEPT ![c] = [ok |-> b, value |-> NONE]]
    BY <1>1, <1>14, OneClientMoves
  <2>3. QED
    BY <2>1, <2>2 DEF AResult
<1>15. CASE InsertIndex(c)
  <2>1. loc'[c].is_new = (AMap[ARequest[c].key] = NONE)
    BY <1>3, <1>4, <1>10, <1>15 DEF Replaced
  <2>2. AResult' = [AResult EXCEPT ![c].ok = (AMap[ARequest[c].key] = NONE)]
    BY <1>3, <1>13, <1>14, <1>15, <2>1
  <2>3. v = ARequest[c].value
    BY <1>1, <1>3, <1>4, <1>8, <1>15, ClearIndexEffect
  <2>4. QED
    BY <1>3, <1>4, <1>5, <1>6, <1>7, <1>9, <1>15, <2>2, <2>3 DEF Map!ApplyPut, Map!Apply, IsNew, Is
<1>16. CASE UpdateWrite(c)
  <2>1. AResult' = [AResult EXCEPT ![c].ok = TRUE]
    BY <1>3, <1>13, <1>14, <1>16 DEF Is
  <2>2. v = ARequest[c].value /\ AMap[ARequest[c].key] # NONE
    BY <1>1, <1>3, <1>4, <1>8, <1>11, <1>16, ClearIndexEffect, InsertIndexEffect
  <2>3. QED
    BY <1>3, <1>4, <1>5, <1>6, <1>7, <1>9, <1>16, <2>1, <2>2 DEF Map!ApplyUpdate, Map!Apply, Is
<1>17. CASE ClearIndex(c)
  <2>1. AResult' = [AResult EXCEPT ![c].ok = TRUE]
    BY <1>3, <1>13, <1>14, <1>17 DEF Is
  <2>2. v = NONE /\ AMap[ARequest[c].key] # NONE
    BY <1>1, <1>3, <1>4, <1>8, <1>11, <1>17, InsertIndexEffect
  <2>3. QED
    BY <1>3, <1>4, <1>5, <1>6, <1>7, <1>9, <1>17, <2>1, <2>2 DEF Map!ApplyRemove, Map!Apply, Is
<1>18. QED
  BY <1>15, <1>16, <1>17

LEMMA EndIsAnswer ==
    ASSUME CallsInv, OneWriter, HistoryInv, NEW c \in Clients, Step(c), Ends(c)
    PROVE  Map!Answered(c) \/ Map!NotFound(c) \/ Map!Found(c)
<1>1. /\ StoreInv /\ TypeOK /\ CallInv /\ LocInv /\ CallFits(c) /\ HomeFits(c) /\ HistoryFits(c)
      /\ pc[c] # "idle" /\ pc'[c] = "idle" /\ RecordInv
  BY AnswersAtTheEnd DEF CallsInv, StoreInv, CallInv, HomeInv, HistoryInv, Ends
<1>2. PICK k \in Keys : k = call[c].key
  BY <1>1, KeyOfCall
<1>3. ARequest[c].name = call[c].name /\ ARequest[c].key = k
  BY <1>1, <1>2 DEF ARequest
<1>4. AMap' = AMap
  <2>1. ~(InsertIndex(c) \/ UpdateWrite(c) \/ ClearIndex(c))
    BY <1>1, InsertIndexEffect, UpdateWriteEffect, ClearIndexEffect
  <2>2. QED
    BY <2>1, MapStays
<1>5. ARequest' = [ARequest EXCEPT ![c] = Map!NoRequest]
  <2>1. ARequest'[c] = Map!NoRequest
    BY <1>1 DEF ARequest, Map!NoRequest
  <2>2. QED
    BY <1>1, <2>1, OneClientMoves
<1>6. AApplied' = [AApplied EXCEPT ![c] = FALSE]
  <2>1. AApplied'[c] = FALSE
    BY <1>1 DEF AApplied
  <2>2. QED
    BY <1>1, <2>1, OneClientMoves
<1>7. Map!Answer(c)
  BY <1>4, <1>5, <1>6 DEF Map!Answer
<1>8. AResult'[c] = result'[c]
  BY <1>1 DEF AResult, AppliedResult
<1>9. ASSUME AResult'[c] = AResult[c] PROVE AResult' = AResult
  <2>1. AResult' = [AResult EXCEPT ![c] = AResult'[c]]
    BY <1>1, OneClientMoves
  <2>2. QED
    BY <1>9, <2>1 DEF AResult
<1>10. CASE \/ pc[c] = "p_unlock" /\ Answers(c, loc[c].is_new, NONE)
            \/ pc[c] = "u_unlock" /\ Answers(c, TRUE, NONE)
            \/ pc[c] = "f_end" /\ Is(c, "remove") /\ Answers(c, TRUE, NONE)
  <2>1. pc[c] = "p_unlock" => Is(c, "put")
    BY <1>1 DEF CallFits, PutSteps
  <2>2. pc[c] = "u_unlock" => Is(c, "update")
    BY <1>1 DEF HomeFits
  <2>3. AApplied[c] /\ Applied(c)
    BY <1>10, <2>1, <2>2 DEF AApplied, Applied
  <2>4. AResult[c] = [ok |-> IF Is(c, "put") THEN loc[c].is_new ELSE TRUE, value |-> NONE]
    BY <1>1, <2>3 DEF AResult, AppliedResult
  <2>5. result'[c] = [ok |-> IF Is(c, "put") THEN loc[c].is_new ELSE TRUE, value |-> NONE]
    BY <1>1, <1>10, <2>1, <2>2 DEF Answers, TypeOK, Is
  <2>6. QED
    BY <1>7, <1>8, <1>9, <2>3, <2>4, <2>5 DEF Map!Answered
<1>11. CASE /\ pc[c] \in {"g_get", "u_get", "r_get"} /\ index[call[c].key] = NONE
            /\ Answers(c, FALSE, NONE)
  <2>1. call[c].name \in {"get", "update", "remove"}
    BY <1>1, <1>11 DEF HomeFits, CallFits, Is
  <2>2. ~AApplied[c]
    BY <1>11 DEF AApplied, Applied
  <2>3. NONE \in seen[c]
    BY <1>1, <1>2, <1>11 DEF HistoryFits, Current
  <2>4. AResult[c] = result'[c]
    BY <1>1, <1>11, <2>2 DEF AResult, AppliedResult, AApplied, HistoryFits, NoResult, Answers, TypeOK
  <2>5. QED
    BY <1>3, <1>7, <1>8, <1>9, <2>1, <2>2, <2>3, <2>4 DEF Map!NotFound
<1>12. CASE /\ pc[c] = "g_read" /\ SameVersion(c)
            /\ Answers(c, TRUE, RecordAt(Offset(c)).value)
  <2>1. call[c].name = "get" /\ Offset(c) \in Offsets
    BY <1>1, <1>12 DEF HomeFits, LocInv, LocFits, WithOffset, Is
  <2>2. PICK v : v = RecordAt(Offset(c)).value
    OBVIOUS
  <2>3. ~IsLocked(lock[Offset(c).page])
    BY <1>1, <1>12 DEF HistoryFits, SameVersion
  <2>4. v \in Values /\ v \in seen[c]
    <3>1. ASSUME NEW e \in Clients, pc[e] = "p_insert", Offset(e) = Offset(c) PROVE FALSE
      <4>1. Offset(c).page = v_page[e] /\ Offset(c).page \in Pages
        BY <2>1, <3>1, OffsetFields DEF CallsInv, HomeInv, HomeFits
      <4>2. Offset(c).page \in Holding(e)
        BY <3>1, <4>1 DEF Holding
      <4>3. QED
        BY <1>1, <2>3, <4>1, <4>2 DEF StoreInv, PageLockExclusive
    <3>2. QED
      BY <1>1, <1>12, <2>2, <3>1 DEF HistoryFits, ReadFits
  <2>5. v \in seen[c] \ {NONE}
    BY <2>4, StoreAssumption
  <2>6. AResult'[c] = [ok |-> TRUE, value |-> v]
    BY <1>8, <1>12, <2>2 DEF Answers, TypeOK, StoreInv, CallsInv
  <2>7. AResult' = [AResult EXCEPT ![c] = [ok |-> TRUE, value |-> v]]
    BY <1>1, <2>6, OneClientMoves
  <2>8. QED
    BY <1>3, <1>7, <2>1, <2>5, <2>7 DEF Map!Found
<1>13. QED
  BY <1>1, <1>10, <1>11, <1>12, Answering

LEMMA MapStarts == HistoryInit => Map!Init
<1> SUFFICES ASSUME HistoryInit PROVE Map!Init
  OBVIOUS
<1>1. AMap \in [Keys -> Values \cup {NONE}]
  BY DEF HistoryInit, Init, AMap, Current
<1>2. ARequest = [c \in Clients |-> Map!NoRequest]
  BY DEF HistoryInit, Init, ARequest, Map!NoRequest
<1>3. AApplied = [c \in Clients |-> FALSE]
  BY DEF HistoryInit, Init, AApplied
<1>4. AResult = [c \in Clients |-> [ok |-> FALSE, value |-> NONE]]
  BY DEF HistoryInit, Init, AResult, AppliedResult, NoResult
<1>5. QED
  BY <1>1, <1>2, <1>3, <1>4 DEF Map!Init, HistoryInit

LEMMA MapSteps ==
    ASSUME IndexReturnsOld, OneWriter, CallsInv, CallsInv', HistoryInv, [HistoryNext]_<<vars, seen>>
    PROVE  [Map!Next]_(Map!vars)
<1>1. CallInv'
  BY DEF CallsInv, StoreInv
<1>2. ASSUME UNCHANGED <<vars, seen>> PROVE UNCHANGED Map!vars
  <2>1. /\ \A c \in Clients : Value(c)' = Value(c) /\ (Applied(c)' <=> Applied(c))
        /\ \A k \in Keys : Current(k)' = Current(k)
    BY <1>2 DEF vars, Value, Applied, Is, Current, RecordAt
  <2>2. AMap' = AMap /\ ARequest' = ARequest /\ AApplied' = AApplied /\ AResult' = AResult
    BY <1>2, <2>1 DEF vars, AMap, ARequest, AApplied, AResult, AppliedResult, Is
  <2>3. QED
    BY <1>2, <2>2 DEF Map!vars
<1>3. ASSUME HistoryNext, Finished PROVE UNCHANGED Map!vars
  <2>1. UNCHANGED vars /\ \A c \in Clients : pc'[c] = "idle" /\ pc[c] = "idle"
    BY <1>3 DEF Finished, vars
  <2>2. seen' = seen
    BY <1>3, <2>1 DEF HistoryNext, HistoryInv, HistoryFits
  <2>3. QED
    BY <1>2, <2>1, <2>2
<1>4. ASSUME HistoryNext, NEW c \in Clients, Start(c) \/ Step(c)
      PROVE  Map!Next \/ UNCHANGED Map!vars
  <2>1. Map!Observe
    BY <1>1, <1>4, Observed
  <2>2. CASE Start(c)
    BY <1>1, <2>1, <2>2, StartIsRequest DEF Map!Next
  <2>3. CASE Step(c) /\ Ends(c)
    BY <2>1, <2>3, EndIsAnswer DEF Map!Next
  <2>4. CASE Step(c) /\ (InsertIndex(c) \/ UpdateWrite(c) \/ ClearIndex(c))
    BY <2>1, <2>4, TakesEffect DEF Map!Next
  <2>5. CASE Step(c) /\ ~Ends(c) /\ ~(InsertIndex(c) \/ UpdateWrite(c) \/ ClearIndex(c))
    BY <1>1, <1>4, <2>5, UnseenSteps
  <2>6. QED
    BY <1>4, <2>2, <2>3, <2>4, <2>5
<1>5. QED
  BY <1>2, <1>3, <1>4 DEF HistoryNext, Next

(* put, get, update and remove implement the map: each call takes effect   *)
(* at one moment between its request and its answer, and a get returns a   *)
(* value its key had during the call.  Any number of clients, keys, slots, *)
(* retries and calls, on an index that returns the offset it replaces, if  *)
(* each key has one writing client and a key that others get is the only   *)
(* one its client writes.                                                  *)
THEOREM StoreIsAMap ==
    ASSUME IndexReturnsOld, OneWriter, ReadersApart
    PROVE  HistorySpec => ImplementsMap
<1>1. CallsInv /\ CallsInv' /\ HistoryInv /\ [HistoryNext]_<<vars, seen>> => [Map!Next]_(Map!vars)
  BY MapSteps
<1>2. QED
  BY <1>1, MapStarts, HistoryInvariant, PTL DEF HistorySpec, ImplementsMap, Map!Spec
=============================================================================
