-------------------------- MODULE ViperBlocks_proof --------------------------
(***************************************************************************)
(* Proofs about what the store is built on.                                *)
(*                                                                         *)
(* PageLock, for any set of writers and readers: the lock of a page        *)
(* excludes (MutualExclusion), and a get never returns parts of two        *)
(* records unless 32 lock cycles went by while it copied (NoTornRead).     *)
(*                                                                         *)
(* ViperPool, for any set of clients, any pool size, chunk and threshold:  *)
(* types, no block with two clients, no block used before it is mapped,    *)
(* no two resize threads.                                                  *)
(***************************************************************************)
EXTENDS PageLock, ViperPool, TLAPS

-----------------------------------------------------------------------------
(* The version-lock byte of a page.                                        *)

(* Locking keeps a byte a byte: there is room for the lock bit above an    *)
(* even counter, and unlock() wraps within six bits.                       *)
LEMMA ByteOperators ==
    ASSUME NEW b \in Byte
    PROVE  /\ Unlocked(b) \in Byte
           /\ ~IsLocked(Unlocked(b))
           /\ ~IsLocked(b) => LockedByte(b) \in Byte /\ IsLocked(LockedByte(b))
           /\ UnlockByte(b) \in Byte
           /\ IsLocked(b) => ~IsLocked(UnlockByte(b))
           /\ SetClient(b) \in Byte
           /\ ClearClient(b) \in Byte
           /\ ClearClient(b).count = b.count
           /\ InitByte \in Byte /\ ~IsLocked(InitByte)
           /\ ZeroByte \in Byte /\ ~IsLocked(ZeroByte)
<1>1. PICK c \in BOOLEAN, u \in BOOLEAN, n \in 0 .. 63 :
        b = [client |-> c, used |-> u, count |-> n]
  BY DEF Byte, USED_BIT
<1>2. \A x \in BOOLEAN, y \in BOOLEAN, m \in 0 .. 63 :
         [client |-> x, used |-> y, count |-> m] \in Byte
  BY DEF Byte, USED_BIT
<1>3. b.client = c /\ b.used = u /\ b.count = n
  BY <1>1, Zenon
<1>4. /\ (n - (n % 2)) \in 0 .. 63 /\ (n - (n % 2)) % 2 # 1
      /\ n % 2 # 1 => n + 1 \in 0 .. 63 /\ (n + 1) % 2 = 1
      /\ (n + 1) % 64 \in 0 .. 63
      /\ n % 2 = 1 => ((n + 1) % 64) % 2 # 1
  BY SMT
<1>5. Unlocked(b) \in Byte /\ ~IsLocked(Unlocked(b))
  <2>1. Unlocked(b) = [client |-> c, used |-> u, count |-> n - (n % 2)]
    BY <1>1 DEF Unlocked
  <2>2. Unlocked(b) \in Byte
    BY <1>2, <1>4, <2>1, Zenon
  <2>3. Unlocked(b).count = n - (n % 2)
    BY <2>1
  <2> QED BY <1>4, <2>2, <2>3 DEF IsLocked
<1>6. ~IsLocked(b) => LockedByte(b) \in Byte /\ IsLocked(LockedByte(b))
  <2>1. LockedByte(b) = [client |-> c, used |-> u, count |-> n + 1]
    BY <1>1 DEF LockedByte
  <2>2. n % 2 # 1 => LockedByte(b) \in Byte
    BY <1>2, <1>4, <2>1, Zenon
  <2>3. LockedByte(b).count = n + 1
    BY <2>1
  <2> QED BY <1>3, <1>4, <2>2, <2>3 DEF IsLocked
<1>7. UnlockByte(b) \in Byte /\ (IsLocked(b) => ~IsLocked(UnlockByte(b)))
  <2>1. UnlockByte(b) = [client |-> c, used |-> TRUE, count |-> (n + 1) % 64]
    BY <1>3, Zenon DEF UnlockByte, USED_BIT
  <2>2. UnlockByte(b).count = (n + 1) % 64
    BY <2>1
  <2>3. UnlockByte(b) \in Byte
    BY <1>2, <1>4, <2>1, Zenon
  <2> QED BY <1>3, <1>4, <2>2, <2>3 DEF IsLocked
<1>8. SetClient(b) \in Byte /\ ClearClient(b) \in Byte /\ ClearClient(b).count = b.count
  <2>1. SetClient(b) = [client |-> TRUE, used |-> u, count |-> n]
    BY <1>3, Zenon DEF SetClient
  <2>2. ClearClient(b) = [client |-> FALSE, used |-> u, count |-> n]
    BY <1>3, Zenon DEF ClearClient
  <2>3. ClearClient(b).count = n
    BY <2>2
  <2>4. TRUE \in BOOLEAN /\ FALSE \in BOOLEAN
    OBVIOUS
  <2>5. SetClient(b) \in Byte
    BY <1>2, <2>1, <2>4, Zenon
  <2>6. ClearClient(b) \in Byte
    BY <1>2, <2>2, <2>4, Zenon
  <2> QED BY <1>3, <2>3, <2>5, <2>6
<1>9. InitByte \in Byte /\ ~IsLocked(InitByte) /\ ZeroByte \in Byte /\ ~IsLocked(ZeroByte)
  BY SMT DEF Byte, USED_BIT, IsLocked, InitByte, ZeroByte
<1> QED
  BY <1>5, <1>6, <1>7, <1>8, <1>9

-----------------------------------------------------------------------------
(* The lock of a page.                                                     *)

(* A client that is about to compare-and-swap expects an unlocked byte; a  *)
(* client that holds the page sees it locked, and the byte it is about to  *)
(* store back in unlock() still has the page's version.                    *)
LockInv ==
    /\ MutualExclusion
    /\ \A w \in Writers : Holding(w) => IsLocked(version_lock)
    /\ \A w \in Writers : step[w] \in {"lock", "try_lock"} => ~IsLocked(lock_value[w])
    /\ \A w \in Writers : step[w] = "unlock2" => lock_value[w].count = version_lock.count

Held == \E w \in Writers : Holding(w)

(* Nobody has locked the page since reader r loaded its byte. *)
Untouched(r) == began[r] = cycles /\ ~Held

Reading(r) == step[r] \in {"read1", "read2", "check"}

(* The version counts lock cycles modulo 32; its lowest bit is the lock.   *)
VersionInv == version_lock.count = (2 * cycles + (IF Held THEN 1 ELSE 0)) % USED_BIT

(* A page that is not locked, or about to be unlocked, holds a whole record. *)
RecordInv ==
    /\ ~Held => data[1] = data[2]
    /\ \A w \in Writers :
          /\ step[w] = "write2" => data[1] = cycles + 1
          /\ step[w] \in {"unlock1", "unlock2"} => data[1] = data[2]

(* What a reader copied while nobody locked the page is what it holds. *)
CopyInv ==
    \A r \in Readers :
       /\ began[r] <= cycles
       /\ Reading(r) => lock_value[r].count = (2 * began[r]) % USED_BIT
       /\ step[r] = "read2" /\ Untouched(r) => copy[r][1] = data[1]
       /\ step[r] = "check" /\ Untouched(r) => copy[r] = data

SeqInv == VersionInv /\ RecordInv /\ CopyInv /\ NoTornRead

-----------------------------------------------------------------------------
(* Every variable keeps its type: in particular the byte never leaves its  *)
(* eight bits and a lock_value never holds a locked byte when it is used   *)
(* as the expected value of a compare-and-swap.                            *)
THEOREM TypeCorrect == PageSpec => [](PageTypeOK /\ LockInv)
<1>1. PageInit => PageTypeOK /\ LockInv
  <2> SUFFICES ASSUME PageInit PROVE PageTypeOK /\ LockInv
    OBVIOUS
  <2>1. InitByte \in Byte /\ ZeroByte \in Byte
    BY DEF Byte, InitByte, ZeroByte, USED_BIT
  <2>2. version_lock \in Byte
    BY <2>1, ByteOperators DEF PageInit
  <2>3. PageTypeOK
    BY <2>1, <2>2 DEF PageInit, PageTypeOK
  <2>4. LockInv
    BY DEF PageInit, LockInv, MutualExclusion, Holding
  <2> QED BY <2>3, <2>4
<1>2. PageTypeOK /\ LockInv /\ [PageNext]_pageVars => PageTypeOK' /\ LockInv'
  <2> SUFFICES ASSUME PageTypeOK, LockInv, [PageNext]_pageVars
               PROVE  PageTypeOK' /\ LockInv'
    OBVIOUS
  <2> USE ThreadsAssumption
  <2>1. ASSUME NEW w \in Writers, LoadLock(w)
        PROVE  PageTypeOK' /\ LockInv'
    <3>1. PageTypeOK'
      BY <2>1, ByteOperators DEF LoadLock, MoveTo, PageTypeOK
    <3>2. LockInv'
      BY <2>1, ByteOperators DEF LoadLock, MoveTo, PageTypeOK, LockInv, MutualExclusion, Holding
    <3> QED BY <3>1, <3>2
  <2>2. ASSUME NEW w \in Writers, AcquireLock(w)
        PROVE  PageTypeOK' /\ LockInv'
    <3>1. ~IsLocked(version_lock)
      BY <2>2 DEF AcquireLock, LockInv
    <3>2. PageTypeOK'
      BY <2>2, <3>1, ByteOperators DEF AcquireLock, MoveTo, PageTypeOK
    <3>3. \A v \in Writers : ~Holding(v)
      BY <3>1 DEF LockInv
    <3>4. LockInv'
      BY <2>2, <3>1, <3>3, ByteOperators
      DEF AcquireLock, MoveTo, PageTypeOK, LockInv, MutualExclusion, Holding
    <3> QED BY <3>2, <3>4
  <2>3. ASSUME NEW w \in Writers, RetryLock(w)
        PROVE  PageTypeOK' /\ LockInv'
    <3>1. PageTypeOK'
      BY <2>3, ByteOperators DEF RetryLock, MoveTo, PageTypeOK
    <3>2. LockInv'
      BY <2>3, ByteOperators DEF RetryLock, MoveTo, PageTypeOK, LockInv, MutualExclusion, Holding
    <3> QED BY <3>1, <3>2
  <2>4. ASSUME NEW w \in Writers, WriteFirstHalf(w)
        PROVE  PageTypeOK' /\ LockInv'
    BY <2>4, SMT DEF WriteFirstHalf, MoveTo, PageTypeOK, LockInv, MutualExclusion, Holding
  <2>5. ASSUME NEW w \in Writers, WriteSecondHalf(w)
        PROVE  PageTypeOK' /\ LockInv'
    BY <2>5, SMT DEF WriteSecondHalf, MoveTo, PageTypeOK, LockInv, MutualExclusion, Holding
  <2>6. ASSUME NEW w \in Writers, UnlockLoad(w)
        PROVE  PageTypeOK' /\ LockInv'
    BY <2>6, SMT DEF UnlockLoad, MoveTo, PageTypeOK, LockInv, MutualExclusion, Holding
  <2>7. ASSUME NEW w \in Writers, UnlockStore(w)
        PROVE  PageTypeOK' /\ LockInv'
    <3>1. PageTypeOK'
      BY <2>7, ByteOperators DEF UnlockStore, MoveTo, PageTypeOK
    <3>2. \A v \in Writers : ~Holding(v)'
      BY <2>7 DEF UnlockStore, MoveTo, PageTypeOK, LockInv, MutualExclusion, Holding
    <3>3. LockInv'
      BY <2>7, <3>2 DEF UnlockStore, MoveTo, PageTypeOK, LockInv, MutualExclusion, Holding
    <3> QED BY <3>1, <3>3
  <2>8. ASSUME NEW r \in Readers, Read(r)
        PROVE  PageTypeOK' /\ LockInv'
    <3>1. PageTypeOK'
      <4>1. CASE ReadBegin(r)
        BY <4>1 DEF ReadBegin, MoveTo, PageTypeOK
      <4>2. CASE ReadFirstHalf(r)
        BY <4>2, SMT DEF ReadFirstHalf, MoveTo, PageTypeOK
      <4>3. CASE ReadSecondHalf(r)
        BY <4>3, SMT DEF ReadSecondHalf, MoveTo, PageTypeOK
      <4>4. CASE ReadReturn(r)
        BY <4>4 DEF ReadReturn, MoveTo, PageTypeOK
      <4>5. CASE ReadRetry(r)
        BY <4>5 DEF ReadRetry, MoveTo, PageTypeOK
      <4> QED BY <2>8, <4>1, <4>2, <4>3, <4>4, <4>5 DEF Read
    <3>2. \A w \in Writers : step'[w] = step[w] /\ lock_value'[w] = lock_value[w]
      BY <2>8 DEF Read, ReadBegin, ReadFirstHalf, ReadSecondHalf, ReadReturn, ReadRetry,
                  MoveTo, PageTypeOK
    <3>3. version_lock' = version_lock
      BY <2>8 DEF Read, ReadBegin, ReadFirstHalf, ReadSecondHalf, ReadReturn, ReadRetry
    <3>4. LockInv'
      BY <3>2, <3>3 DEF LockInv, MutualExclusion, Holding
    <3> QED BY <3>1, <3>4
  <2>9. CASE OwnerLeaves
    <3>1. PageTypeOK'
      BY <2>9, ByteOperators DEF OwnerLeaves, PageTypeOK
    <3>2. LockInv'
      BY <2>9, ByteOperators
      DEF OwnerLeaves, PageTypeOK, LockInv, MutualExclusion, Holding, IsLocked
    <3> QED BY <3>1, <3>2
  <2>10. CASE UNCHANGED pageVars
    BY <2>10 DEF pageVars, PageTypeOK, LockInv, MutualExclusion, Holding
  <2> QED
    BY <2>1, <2>2, <2>3, <2>4, <2>5, <2>6, <2>7, <2>8, <2>9, <2>10 DEF PageNext, Write
<1> QED
  BY <1>1, <1>2, PTL DEF PageSpec

(* ViperPage::lock admits one client at a time, for any number of clients  *)
(* and although unlock() is a load followed by a store.                    *)
THEOREM LockExcludes == PageSpec => []MutualExclusion
  BY TypeCorrect, PTL DEF LockInv

-----------------------------------------------------------------------------
(* The version a reader loads and the version it compares it with are      *)
(* equal only if no lock cycle, or at least 32 of them, went by.           *)
LEMMA VersionCountsCycles ==
    ASSUME NEW m \in Nat, NEW n \in Nat, m <= n, n - m < 32, NEW h \in 0 .. 1,
           (2 * m) % 64 = (2 * n + h) % 64
    PROVE  m = n /\ h = 0
  <1>1. PICK j \in Nat, x \in 0 .. 63 : 2 * m = 64 * j + x
    <2>1. (2 * m) \div 64 \in Nat /\ (2 * m) % 64 \in 0 .. 63
      BY SMT
    <2>2. 2 * m = 64 * ((2 * m) \div 64) + ((2 * m) % 64)
      BY SMT
    <2> QED BY <2>1, <2>2
  <1> QED BY <1>1, SMT

(* The version is one more, modulo 64, after a lock and after an unlock.   *)
LEMMA VersionArithmetic ==
    ASSUME NEW n \in Nat
    PROVE  /\ ((2 * n) % 64) + 1 = (2 * n + 1) % 64
           /\ (((2 * n + 1) % 64) + 1) % 64 = (2 * (n + 1)) % 64
           /\ (2 * n) % 64 \in 0 .. 63
  BY SMT

(* A reader's copy is of one record unless 32 lock cycles went by between  *)
(* its two loads of the version (get_value_from_offset).                   *)
THEOREM ReadsAreWhole == PageSpec => []NoTornRead
<1>1. PageInit => SeqInv
  <2> SUFFICES ASSUME PageInit PROVE SeqInv
    OBVIOUS
  <2>1. ~Held
    BY DEF PageInit, Held, Holding
  <2>2. version_lock.count = 0
    BY DEF PageInit, SetClient, InitByte
  <2> QED BY <2>1, <2>2
          DEF PageInit, SeqInv, VersionInv, RecordInv, CopyInv, NoTornRead, Reading, USED_BIT, NoResult
<1>2. PageTypeOK /\ LockInv /\ SeqInv /\ [PageNext]_pageVars => SeqInv'
  <2> SUFFICES ASSUME PageTypeOK, LockInv, SeqInv, [PageNext]_pageVars
               PROVE  SeqInv'
    OBVIOUS
  <2> USE ThreadsAssumption
  <2>1. ASSUME NEW w \in Writers, LoadLock(w) \/ RetryLock(w)
        PROVE  SeqInv'
    <3>1. Held' = Held
      BY <2>1 DEF LoadLock, RetryLock, MoveTo, PageTypeOK, Held, Holding
    <3>2. /\ UNCHANGED <<version_lock, data, copy, result, cycles, began>>
          /\ \A r \in Readers : step'[r] = step[r] /\ lock_value'[r] = lock_value[r]
      BY <2>1 DEF LoadLock, RetryLock, MoveTo, PageTypeOK
    <3>3. RecordInv'
      BY <2>1, <3>1, <3>2 DEF LoadLock, RetryLock, MoveTo, PageTypeOK, SeqInv, RecordInv
    <3>4. VersionInv' /\ CopyInv' /\ NoTornRead'
      BY <3>1, <3>2 DEF SeqInv, VersionInv, CopyInv, NoTornRead, Reading, Untouched
    <3> QED BY <3>3, <3>4 DEF SeqInv
  <2>2. ASSUME NEW w \in Writers, AcquireLock(w)
        PROVE  SeqInv'
    <3>1. ~Held /\ Held'
      BY <2>2 DEF AcquireLock, MoveTo, PageTypeOK, LockInv, Held, Holding
    <3>2. /\ UNCHANGED <<data, copy, result, cycles, began>>
          /\ \A r \in Readers : step'[r] = step[r] /\ lock_value'[r] = lock_value[r]
      BY <2>2 DEF AcquireLock, MoveTo, PageTypeOK
    <3>3. version_lock.count = (2 * cycles) % 64
      BY <3>1 DEF SeqInv, VersionInv, USED_BIT, PageTypeOK
    <3>4. version_lock'.count = version_lock.count + 1
      BY <2>2 DEF AcquireLock, LockedByte, PageTypeOK, Byte
    <3>5. version_lock'.count = (2 * cycles' + 1) % 64
      BY <3>2, <3>3, <3>4, VersionArithmetic DEF PageTypeOK
    <3>6. VersionInv'
      BY <3>1, <3>5 DEF VersionInv, USED_BIT
    <3>7. RecordInv'
      BY <2>2, <3>1, <3>2 DEF AcquireLock, MoveTo, PageTypeOK, Held, Holding, SeqInv, RecordInv
    <3>8. CopyInv' /\ NoTornRead'
      BY <3>1, <3>2 DEF SeqInv, CopyInv, NoTornRead, Reading, Untouched
    <3> QED BY <3>6, <3>7, <3>8 DEF SeqInv
  <2>3. ASSUME NEW w \in Writers, WriteFirstHalf(w) \/ WriteSecondHalf(w)
        PROVE  SeqInv'
    <3>1. Held /\ Held'
      BY <2>3 DEF WriteFirstHalf, WriteSecondHalf, MoveTo, PageTypeOK, Held, Holding
    <3>2. /\ UNCHANGED <<version_lock, copy, result, cycles, began, lock_value>>
          /\ \A r \in Readers : step'[r] = step[r]
      BY <2>3 DEF WriteFirstHalf, WriteSecondHalf, MoveTo, PageTypeOK
    <3>3. ASSUME NEW v \in Writers
          PROVE  /\ step'[v] = "write2" => data'[1] = cycles' + 1
                 /\ step'[v] \in {"unlock1", "unlock2"} => data'[1] = data'[2]
      <4>1. CASE v = w
        BY <4>1, <2>3, SMT DEF WriteFirstHalf, WriteSecondHalf, MoveTo, PageTypeOK, SeqInv, RecordInv
      <4>2. CASE v # w
        BY <4>2, <2>3, SMT
        DEF WriteFirstHalf, WriteSecondHalf, MoveTo, PageTypeOK, LockInv, MutualExclusion, Holding
      <4> QED BY <4>1, <4>2
    <3> QED BY <3>1, <3>2, <3>3
            DEF SeqInv, VersionInv, RecordInv, CopyInv, NoTornRead, Reading, Untouched
  <2>4. ASSUME NEW w \in Writers, UnlockLoad(w)
        PROVE  SeqInv'
    <3>1. Held /\ Held'
      BY <2>4 DEF UnlockLoad, MoveTo, PageTypeOK, Held, Holding
    <3>2. /\ UNCHANGED <<version_lock, data, copy, result, cycles, began>>
          /\ \A r \in Readers : step'[r] = step[r] /\ lock_value'[r] = lock_value[r]
      BY <2>4 DEF UnlockLoad, MoveTo, PageTypeOK
    <3>3. RecordInv'
      BY <2>4, <3>1, <3>2 DEF UnlockLoad, MoveTo, PageTypeOK, SeqInv, RecordInv
    <3>4. VersionInv' /\ CopyInv' /\ NoTornRead'
      BY <3>1, <3>2 DEF SeqInv, VersionInv, CopyInv, NoTornRead, Reading, Untouched
    <3> QED BY <3>3, <3>4 DEF SeqInv
  <2>5. ASSUME NEW w \in Writers, UnlockStore(w)
        PROVE  SeqInv'
    <3>1. Held /\ ~Held' /\ \A v \in Writers : ~Holding(v)'
      BY <2>5 DEF UnlockStore, MoveTo, PageTypeOK, LockInv, MutualExclusion, Held, Holding
    <3>2. /\ cycles' = cycles + 1
          /\ UNCHANGED <<data, copy, result, began, lock_value>>
          /\ \A r \in Readers : step'[r] = step[r]
      BY <2>5 DEF UnlockStore, MoveTo, PageTypeOK
    <3>3. version_lock.count = (2 * cycles + 1) % 64
      BY <3>1 DEF SeqInv, VersionInv, USED_BIT, PageTypeOK
    <3>4. version_lock'.count = (version_lock.count + 1) % 64
      BY <2>5 DEF UnlockStore, UnlockByte, MoveTo, LockInv, USED_BIT
    <3>5. version_lock'.count = (2 * cycles') % 64
      BY <3>2, <3>3, <3>4, VersionArithmetic DEF PageTypeOK
    <3>6. data'[1] = data'[2]
      BY <2>5, <3>2 DEF UnlockStore, MoveTo, SeqInv, RecordInv
    <3>7. \A r \in Readers : began'[r] <= cycles' /\ began'[r] # cycles'
      BY <3>2, SMT DEF SeqInv, CopyInv, PageTypeOK
    <3>8. NoTornRead'
      BY <3>2, SMT DEF SeqInv, NoTornRead, PageTypeOK, USED_BIT
    <3>9. (2 * cycles') % 64 = (2 * cycles' + 0) % 64
      BY <3>2, SMT DEF PageTypeOK
    <3>10. VersionInv'
      BY <3>1, <3>5, <3>9 DEF VersionInv, USED_BIT
    <3>11. RecordInv'
      BY <3>1, <3>6 DEF RecordInv, Holding
    <3>12. CopyInv'
      BY <3>2, <3>7 DEF SeqInv, CopyInv, Reading, Untouched
    <3> QED BY <3>8, <3>10, <3>11, <3>12 DEF SeqInv
  <2>6. ASSUME NEW r \in Readers, ReadBegin(r)
        PROVE  SeqInv'
    <3>1. ~Held
      BY <2>6 DEF ReadBegin, LockInv, Held
    <3>2. /\ UNCHANGED <<version_lock, data, copy, cycles>>
          /\ \A w \in Writers : step'[w] = step[w]
          /\ Held' = Held
      BY <2>6 DEF ReadBegin, MoveTo, PageTypeOK, Held, Holding
    <3>3. version_lock.count = (2 * cycles) % 64
      BY <3>1 DEF SeqInv, VersionInv, USED_BIT, PageTypeOK
    <3>4. /\ step'[r] = "read1" /\ began'[r] = cycles /\ result'[r] = NoResult
          /\ lock_value'[r] = version_lock
      BY <2>6 DEF ReadBegin, MoveTo, PageTypeOK
    <3>5. \A q \in Readers \ {r} :
             /\ step'[q] = step[q] /\ began'[q] = began[q] /\ result'[q] = result[q]
             /\ lock_value'[q] = lock_value[q]
      BY <2>6 DEF ReadBegin, MoveTo, PageTypeOK
    <3>6. VersionInv' /\ RecordInv'
      BY <3>2 DEF SeqInv, VersionInv, RecordInv
    <3>7. CopyInv'
      <4> SUFFICES ASSUME NEW q \in Readers
                   PROVE  /\ began'[q] <= cycles'
                          /\ Reading(q)' => lock_value'[q].count = (2 * began'[q]) % USED_BIT
                          /\ step'[q] = "read2" /\ Untouched(q)' => copy'[q][1] = data'[1]
                          /\ step'[q] = "check" /\ Untouched(q)' => copy'[q] = data'
        BY DEF CopyInv
      <4>1. CASE q = r
        <5>1. began'[r] <= cycles'
          BY <3>2, <3>4, SMT DEF PageTypeOK
        <5>2. lock_value'[r].count = (2 * began'[r]) % USED_BIT
          BY <3>3, <3>4 DEF USED_BIT
        <5> QED BY <3>4, <4>1, <5>1, <5>2
      <4>2. CASE q # r
        BY <3>2, <3>5, <4>2 DEF SeqInv, CopyInv, Reading, Untouched
      <4> QED BY <4>1, <4>2
    <3>8. NoTornRead'
      BY <3>2, <3>4, <3>5 DEF SeqInv, NoTornRead
    <3> QED BY <3>6, <3>7, <3>8 DEF SeqInv
  <2>7. ASSUME NEW r \in Readers, ReadFirstHalf(r)
        PROVE  SeqInv'
    <3>1. /\ UNCHANGED <<version_lock, data, lock_value, result, cycles, began>>
          /\ \A w \in Writers : step'[w] = step[w]
          /\ Held' = Held
      BY <2>7 DEF ReadFirstHalf, MoveTo, PageTypeOK, Held, Holding
    <3>2. step[r] = "read1" /\ step'[r] = "read2" /\ copy'[r][1] = data[1]
      BY <2>7 DEF ReadFirstHalf, MoveTo, PageTypeOK
    <3>3. \A q \in Readers \ {r} : step'[q] = step[q] /\ copy'[q] = copy[q]
      BY <2>7 DEF ReadFirstHalf, MoveTo, PageTypeOK
    <3> QED BY <3>1, <3>2, <3>3
            DEF SeqInv, VersionInv, RecordInv, CopyInv, NoTornRead, Reading, Untouched
  <2>8. ASSUME NEW r \in Readers, ReadSecondHalf(r)
        PROVE  SeqInv'
    <3>1. /\ UNCHANGED <<version_lock, data, lock_value, result, cycles, began>>
          /\ \A w \in Writers : step'[w] = step[w]
          /\ Held' = Held
      BY <2>8 DEF ReadSecondHalf, MoveTo, PageTypeOK, Held, Holding
    <3>2. /\ step[r] = "read2" /\ step'[r] = "check"
          /\ copy'[r] = [copy[r] EXCEPT ![2] = data[2]]
      BY <2>8 DEF ReadSecondHalf, MoveTo, PageTypeOK
    <3>3. \A q \in Readers \ {r} : step'[q] = step[q] /\ copy'[q] = copy[q]
      BY <2>8 DEF ReadSecondHalf, MoveTo, PageTypeOK
    <3>4. ASSUME Untouched(r) PROVE copy'[r] = data
      <4>1. copy[r][1] = data[1] /\ copy[r] \in [1 .. 2 -> Nat] /\ data \in [1 .. 2 -> Nat]
        BY <3>2, <3>4 DEF SeqInv, CopyInv, PageTypeOK
      <4> QED BY <4>1, <3>2, SMT
    <3>5. VersionInv' /\ RecordInv'
      BY <3>1 DEF SeqInv, VersionInv, RecordInv
    <3>6. CopyInv' /\ NoTornRead'
      BY <3>1, <3>2, <3>3, <3>4 DEF SeqInv, CopyInv, NoTornRead, Reading, Untouched
    <3> QED BY <3>5, <3>6 DEF SeqInv
  <2>9. ASSUME NEW r \in Readers, ReadReturn(r)
        PROVE  SeqInv'
    <3>1. /\ UNCHANGED <<version_lock, data, lock_value, copy, cycles, began>>
          /\ \A w \in Writers : step'[w] = step[w]
          /\ Held' = Held
      BY <2>9 DEF ReadReturn, MoveTo, PageTypeOK, Held, Holding
    <3>2. /\ step[r] = "check" /\ step'[r] = "idle" /\ result'[r] = copy[r]
          /\ lock_value[r] = version_lock
      BY <2>9 DEF ReadReturn, MoveTo, PageTypeOK, SameVersion
    <3>3. \A q \in Readers \ {r} : step'[q] = step[q] /\ result'[q] = result[q]
      BY <2>9 DEF ReadReturn, MoveTo, PageTypeOK
    <3>4. ASSUME cycles - began[r] < 32
          PROVE  copy[r][1] = copy[r][2]
      <4> DEFINE h == IF Held THEN 1 ELSE 0
      <4>1. (2 * began[r]) % 64 = (2 * cycles + h) % 64
        BY <3>2 DEF SeqInv, VersionInv, CopyInv, Reading, USED_BIT
      <4>2. began[r] \in Nat /\ cycles \in Nat /\ began[r] <= cycles /\ h \in 0 .. 1
        BY DEF SeqInv, CopyInv, PageTypeOK
      <4> HIDE DEF h
      <4>3. began[r] = cycles /\ h = 0
        BY <3>4, <4>1, <4>2, VersionCountsCycles
      <4>4. ~Held
        BY <4>3 DEF h
      <4>5. copy[r] = data
        BY <3>2, <4>3, <4>4 DEF SeqInv, CopyInv, Untouched
      <4> QED BY <4>4, <4>5 DEF SeqInv, RecordInv
    <3>5. NoTornRead'
      BY <3>1, <3>2, <3>3, <3>4 DEF SeqInv, NoTornRead, USED_BIT
    <3> QED BY <3>1, <3>2, <3>3, <3>5 DEF SeqInv, VersionInv, RecordInv, CopyInv, Reading, Untouched
  <2>10. ASSUME NEW r \in Readers, ReadRetry(r)
        PROVE  SeqInv'
    <3>1. /\ UNCHANGED <<version_lock, data, lock_value, copy, result, cycles, began>>
          /\ \A w \in Writers : step'[w] = step[w]
          /\ Held' = Held
      BY <2>10 DEF ReadRetry, MoveTo, PageTypeOK, Held, Holding
    <3>2. step'[r] = "retry" /\ \A q \in Readers \ {r} : step'[q] = step[q]
      BY <2>10 DEF ReadRetry, MoveTo, PageTypeOK
    <3> QED BY <3>1, <3>2
            DEF SeqInv, VersionInv, RecordInv, CopyInv, NoTornRead, Reading, Untouched
  <2>11. CASE OwnerLeaves
    <3>1. version_lock'.count = version_lock.count
      BY <2>11, ByteOperators DEF OwnerLeaves, PageTypeOK
    <3>2. UNCHANGED <<data, step, lock_value, copy, result, cycles, began>> /\ Held' = Held
      BY <2>11 DEF OwnerLeaves, Held, Holding
    <3> QED BY <3>1, <3>2
            DEF SeqInv, VersionInv, RecordInv, CopyInv, NoTornRead, Reading, Untouched
  <2>12. CASE UNCHANGED pageVars
    BY <2>12 DEF pageVars, SeqInv, VersionInv, RecordInv, CopyInv, NoTornRead,
                  Reading, Untouched, Held, Holding
  <2> QED
    BY <2>1, <2>2, <2>3, <2>4, <2>5, <2>6, <2>7, <2>8, <2>9, <2>10, <2>11, <2>12
    DEF PageNext, Write, Read
<1> QED
  BY <1>1, <1>2, TypeCorrect, PTL DEF PageSpec, SeqInv

-----------------------------------------------------------------------------
(* The pool of blocks.                                                     *)

(* After std::terminate no client is anywhere. *)
TerminatedInv == resizer = "terminated" => \A c \in Clients : pc[c] = "terminated"

(* is_resizing is set from the exchange to the end of the thread. *)
ResizeInv ==
    /\ (\E c \in Clients : pc[c] = "spawn") => is_resizing
    /\ resizer \notin {"none", "terminated"} => is_resizing

(* What is claimed was handed out and is mapped. *)
HandedOut == \A c \in Clients : \A b \in Claims(c) : b < current_block
VectorInv ==
    /\ num_v_blocks <= v_blocks
    /\ \A c \in Clients : pc[c] \in {"assert", "claim"} => loc[c].block < num_v_blocks

PoolInv ==
    /\ TypeOK /\ TerminatedInv /\ ResizeInv /\ OneResizer
    /\ VectorInv /\ HandedOut /\ ClaimsAreMapped /\ NoBlockShared

-----------------------------------------------------------------------------
(* Every action keeps the types. *)
LEMMA TypeStep ==
    ASSUME TypeOK, [Next]_vars
    PROVE  TypeOK'
<1> USE PoolAssumption
<1>1. ASSUME NEW c \in Clients, Start(c) PROVE TypeOK'
  BY <1>1 DEF TypeOK, Start, GoTo, FirstStep, vectorVars, resizeVars
<1>2. ASSUME NEW c \in Clients, LoadCurrent(c) PROVE TypeOK'
  BY <1>2 DEF TypeOK, LoadCurrent, GoTo, vectorVars, resizeVars
<1>3. ASSUME NEW c \in Clients, CheckThreshold(c) PROVE TypeOK'
  BY <1>3 DEF TypeOK, CheckThreshold, GoTo, vectorVars, resizeVars
<1>4. ASSUME NEW c \in Clients, TriggerResize(c) PROVE TypeOK'
  BY <1>4 DEF TypeOK, TriggerResize, GoTo, vectorVars
<1>5. ASSUME NEW c \in Clients, SpawnThread(c) PROVE TypeOK'
  BY <1>5 DEF TypeOK, SpawnThread, GoTo, vectorVars
<1>6. ASSUME NEW c \in Clients, StoreThread(c) PROVE TypeOK'
  BY <1>6 DEF TypeOK, StoreThread, Terminate, GoTo, vectorVars
<1>7. ASSUME NEW c \in Clients, DetachThread(c) PROVE TypeOK'
  BY <1>7 DEF TypeOK, DetachThread, GoTo, vectorVars
<1>8. ASSUME NEW c \in Clients, LoadBlock(c) PROVE TypeOK'
  BY <1>8 DEF TypeOK, LoadBlock, GoTo, vectorVars, resizeVars
<1>9. ASSUME NEW c \in Clients, WaitMapped(c) PROVE TypeOK'
  BY <1>9 DEF TypeOK, WaitMapped, GoTo, vectorVars, resizeVars
<1>10. ASSUME NEW c \in Clients, ClaimBlock(c) PROVE TypeOK'
  BY <1>10 DEF TypeOK, ClaimBlock, BlockAfter, GoTo, vectorVars, resizeVars
<1>11. ASSUME NEW c \in Clients, WaitMove(c) PROVE TypeOK'
  BY <1>11 DEF TypeOK, WaitMove, GoTo, vectorVars, resizeVars
<1>12. ASSUME NEW c \in Clients, LeaveBlock(c) PROVE TypeOK'
  BY <1>12 DEF TypeOK, LeaveBlock, GoTo, vectorVars, resizeVars
<1>13. ASSUME NEW c \in Clients, LoadBuffer(c) PROVE TypeOK'
  BY <1>13 DEF TypeOK, LoadBuffer, GoTo, vectorVars, resizeVars
<1>14. ASSUME NEW c \in Clients, ReadBlock(c) PROVE TypeOK'
  <2>1. NoLocals \in [block : Nat, buffer : Nat]
    BY DEF NoLocals
  <2>2. loc' \in [Clients -> [block : Nat, buffer : Nat]]
    BY <1>14, <2>1 DEF TypeOK, ReadBlock
  <2>3. v_block' \in [Clients -> Nat \cup {NONE}] /\ op' \in [Clients -> {"claim", "get", "free"}]
    BY <1>14 DEF TypeOK, ReadBlock
  <2>4. QED
    BY <1>14, <2>2, <2>3 DEF TypeOK, ReadBlock, Terminate, GoTo, vectorVars
<1>15. ASSUME Resize PROVE TypeOK'
  <2>1. ASSUME AllocateBlocks PROVE TypeOK'
    BY <2>1 DEF TypeOK, AllocateBlocks, ResizerGoTo
  <2>2. ASSUME BeginMove PROVE TypeOK'
    BY <2>2 DEF TypeOK, BeginMove, ResizerGoTo
  <2>3. ASSUME Move PROVE TypeOK'
    BY <2>3 DEF TypeOK, Move, ResizerGoTo
  <2>4. ASSUME EndMove PROVE TypeOK'
    BY <2>4 DEF TypeOK, EndMove, ResizerGoTo
  <2>5. ASSUME PushBlock PROVE TypeOK'
    BY <2>5 DEF TypeOK, PushBlock, ResizerGoTo
  <2>6. ASSUME PublishBlocks PROVE TypeOK'
    BY <2>6 DEF TypeOK, PublishBlocks, ResizerGoTo
  <2>7. ASSUME EndResize PROVE TypeOK'
    BY <2>7 DEF TypeOK, EndResize, ResizerGoTo, vectorVars
  <2>8. QED
    BY <1>15, <2>1, <2>2, <2>3, <2>4, <2>5, <2>6, <2>7 DEF Resize
<1>16. ASSUME NEW c \in Clients, AssertNextBlock(c) PROVE TypeOK'
  BY <1>16 DEF TypeOK, AssertNextBlock, Terminate, GoTo, vectorVars
<1>17. ASSUME UNCHANGED vars PROVE TypeOK'
  BY <1>17 DEF TypeOK, vars
<1>18. QED
  BY <1>1, <1>2, <1>3, <1>4, <1>5, <1>6, <1>7, <1>8, <1>9, <1>10, <1>11, <1>12, <1>13,
     <1>14, <1>15, <1>16, <1>17 DEF Next, Step, Terminated

(* The protocol around is_resizing. *)
LEMMA ResizeStep ==
    ASSUME TypeOK, TerminatedInv, ResizeInv, OneResizer, [Next]_vars
    PROVE  TerminatedInv' /\ ResizeInv' /\ OneResizer'
<1> USE DEF TerminatedInv, ResizeInv, OneResizer, TypeOK
<1>1. ASSUME NEW c \in Clients, Start(c) \/ LoadCurrent(c) \/ CheckThreshold(c)
      PROVE  TerminatedInv' /\ ResizeInv' /\ OneResizer'
  BY <1>1 DEF Start, LoadCurrent, CheckThreshold, FirstStep, GoTo, vectorVars, resizeVars
<1>2. ASSUME NEW c \in Clients, TriggerResize(c)
      PROVE  TerminatedInv' /\ ResizeInv' /\ OneResizer'
  BY <1>2 DEF TriggerResize, MayResize, GoTo, vectorVars
<1>3. ASSUME NEW c \in Clients, SpawnThread(c)
      PROVE  TerminatedInv' /\ ResizeInv' /\ OneResizer'
  BY <1>3 DEF SpawnThread, GoTo, vectorVars
<1>4. ASSUME NEW c \in Clients, StoreThread(c) \/ DetachThread(c)
      PROVE  TerminatedInv' /\ ResizeInv' /\ OneResizer'
  BY <1>4 DEF StoreThread, DetachThread, Terminate, GoTo, vectorVars
<1>5. ASSUME NEW c \in Clients,
             LoadBlock(c) \/ WaitMapped(c) \/ ClaimBlock(c) \/ WaitMove(c)
                \/ LeaveBlock(c) \/ LoadBuffer(c)
      PROVE  TerminatedInv' /\ ResizeInv' /\ OneResizer'
  BY <1>5 DEF LoadBlock, WaitMapped, ClaimBlock, WaitMove, LeaveBlock, LoadBuffer, GoTo,
              vectorVars, resizeVars
<1>6. ASSUME NEW c \in Clients, ReadBlock(c)
      PROVE  TerminatedInv' /\ ResizeInv' /\ OneResizer'
  BY <1>6 DEF ReadBlock, Terminate, GoTo, vectorVars
<1>7. ASSUME Resize PROVE TerminatedInv' /\ ResizeInv' /\ OneResizer'
  BY <1>7 DEF Resize, AllocateBlocks, BeginMove, Move, EndMove, PushBlock,
              PublishBlocks, EndResize, ResizerGoTo, vectorVars
<1>8. ASSUME NEW c \in Clients, AssertNextBlock(c)
      PROVE  TerminatedInv' /\ ResizeInv' /\ OneResizer'
  BY <1>8 DEF AssertNextBlock, Terminate, GoTo, vectorVars
<1>9. ASSUME UNCHANGED vars PROVE TerminatedInv' /\ ResizeInv' /\ OneResizer'
  BY <1>9 DEF vars
<1>10. QED
  BY <1>1, <1>2, <1>3, <1>4, <1>5, <1>6, <1>7, <1>8, <1>9 DEF Next, Step, Terminated

-----------------------------------------------------------------------------
(* A step other than a successful compare-and-swap gives no one a block    *)
(* and takes nothing back from the vector or the counter.                  *)
Keeps ==
    /\ \A c \in Clients : Claims(c)' \subseteq Claims(c)
    /\ current_block' = current_block
    /\ v_blocks' >= v_blocks

LEMMA OthersKeep ==
    ASSUME TypeOK, [Next]_vars,
           ~\E c \in Clients : ClaimBlock(c) /\ StillCurrent(c)
    PROVE  Keeps
<1> USE DEF TypeOK, Keeps, Claims
<1>1. ASSUME NEW c \in Clients, Start(c) \/ LoadCurrent(c) \/ CheckThreshold(c)
      PROVE  Keeps
  BY <1>1 DEF Start, LoadCurrent, CheckThreshold, FirstStep, GoTo, vectorVars, resizeVars
<1>2. ASSUME NEW c \in Clients, TriggerResize(c) \/ SpawnThread(c) \/ DetachThread(c)
      PROVE  Keeps
  BY <1>2 DEF TriggerResize, SpawnThread, DetachThread, GoTo, vectorVars
<1>3. ASSUME NEW c \in Clients, StoreThread(c) PROVE Keeps
  BY <1>3 DEF StoreThread, Terminate, GoTo, vectorVars
<1>4. ASSUME NEW c \in Clients, LoadBlock(c) \/ WaitMapped(c) PROVE Keeps
  BY <1>4 DEF LoadBlock, WaitMapped, GoTo, vectorVars, resizeVars
<1>5. ASSUME NEW c \in Clients, ClaimBlock(c) PROVE Keeps
  <2>1. ~StillCurrent(c)
    BY <1>5
  <2>2. /\ pc[c] = "claim" /\ pc' = [pc EXCEPT ![c] = "wait_mapped"]
        /\ loc' = [loc EXCEPT ![c].block = current_block]
        /\ UNCHANGED <<current_block, vectorVars, op, v_block>>
    BY <1>5, <2>1 DEF ClaimBlock, GoTo
  <2>3. QED
    BY <2>2 DEF vectorVars
<1>6. ASSUME NEW c \in Clients, WaitMove(c) \/ LeaveBlock(c) \/ LoadBuffer(c) PROVE Keeps
  BY <1>6 DEF WaitMove, LeaveBlock, LoadBuffer, GoTo, vectorVars, resizeVars
<1>7. ASSUME NEW c \in Clients, ReadBlock(c) PROVE Keeps
  BY <1>7 DEF ReadBlock, Terminate, NoLocals, GoTo, vectorVars
<1>8. ASSUME Resize PROVE Keeps
  BY <1>8 DEF Resize, AllocateBlocks, BeginMove, Move, EndMove, PushBlock,
              PublishBlocks, EndResize, ResizerGoTo, vectorVars
<1>9. ASSUME NEW c \in Clients, AssertNextBlock(c) PROVE Keeps
  BY <1>9 DEF AssertNextBlock, Terminate, GoTo, vectorVars
<1>10. ASSUME UNCHANGED vars PROVE Keeps
  BY <1>10 DEF vars
<1>11. QED
  BY <1>1, <1>2, <1>3, <1>4, <1>5, <1>6, <1>7, <1>8, <1>9, <1>10 DEF Next, Step, Terminated

(* A successful compare-and-swap gives its client the block that was next. *)
LEMMA ClaimGives ==
    ASSUME TypeOK, VectorInv, NEW c \in Clients, ClaimBlock(c), StillCurrent(c)
    PROVE  /\ Claims(c)' \subseteq Claims(c) \cup {current_block}
           /\ \A d \in Clients \ {c} : Claims(d)' \subseteq Claims(d)
           /\ current_block' = current_block + 1
           /\ v_blocks' = v_blocks
           /\ current_block < v_blocks
  BY DEF TypeOK, VectorInv, ClaimBlock, StillCurrent, BlockAfter, Claims, GoTo,
         vectorVars, resizeVars

(* The vector never shrinks below what clients were told is mapped. *)
LEMMA VectorStep ==
    ASSUME TypeOK, VectorInv, [Next]_vars
    PROVE  VectorInv'
<1> USE DEF TypeOK, VectorInv
<1>1. ASSUME NEW c \in Clients, Start(c) \/ LoadCurrent(c) \/ CheckThreshold(c)
      PROVE  VectorInv'
  BY <1>1 DEF Start, LoadCurrent, CheckThreshold, FirstStep, GoTo, vectorVars, resizeVars
<1>2. ASSUME NEW c \in Clients, TriggerResize(c) \/ SpawnThread(c) \/ DetachThread(c)
      PROVE  VectorInv'
  BY <1>2 DEF TriggerResize, SpawnThread, DetachThread, GoTo, vectorVars
<1>3. ASSUME NEW c \in Clients, StoreThread(c) PROVE VectorInv'
  BY <1>3 DEF StoreThread, Terminate, GoTo, vectorVars
<1>4. ASSUME NEW c \in Clients, LoadBlock(c) \/ WaitMapped(c) PROVE VectorInv'
  BY <1>4 DEF LoadBlock, WaitMapped, Mapped, GoTo, vectorVars, resizeVars
<1>5. ASSUME NEW c \in Clients, ClaimBlock(c) PROVE VectorInv'
  BY <1>5 DEF ClaimBlock, GoTo, vectorVars, resizeVars
<1>6. ASSUME NEW c \in Clients, WaitMove(c) \/ LeaveBlock(c) \/ LoadBuffer(c) PROVE VectorInv'
  BY <1>6 DEF WaitMove, LeaveBlock, LoadBuffer, GoTo, vectorVars, resizeVars
<1>7. ASSUME NEW c \in Clients, ReadBlock(c) PROVE VectorInv'
  BY <1>7 DEF ReadBlock, Terminate, NoLocals, GoTo, vectorVars
<1>8. ASSUME Resize PROVE VectorInv'
  BY <1>8 DEF Resize, AllocateBlocks, BeginMove, Move, EndMove, PushBlock,
              PublishBlocks, EndResize, ResizerGoTo, vectorVars
<1>9. ASSUME NEW c \in Clients, AssertNextBlock(c) PROVE VectorInv'
  BY <1>9 DEF AssertNextBlock, Terminate, GoTo, vectorVars
<1>10. ASSUME UNCHANGED vars PROVE VectorInv'
  BY <1>10 DEF vars
<1>11. QED
  BY <1>1, <1>2, <1>3, <1>4, <1>5, <1>6, <1>7, <1>8, <1>9, <1>10 DEF Next, Step, Terminated

(* Claims are handed out, mapped and disjoint. *)
LEMMA ClaimsStep ==
    ASSUME TypeOK, VectorInv, HandedOut, ClaimsAreMapped, NoBlockShared, [Next]_vars
    PROVE  HandedOut' /\ ClaimsAreMapped' /\ NoBlockShared'
<1>1. \A c \in Clients : Claims(c) \subseteq Nat
  BY DEF TypeOK, Claims
<1>2. ASSUME NEW c \in Clients, ClaimBlock(c), StillCurrent(c)
      PROVE  HandedOut' /\ ClaimsAreMapped' /\ NoBlockShared'
  <2>1. current_block \in Nat /\ v_blocks \in Nat
    BY DEF TypeOK
  <2>2. /\ Claims(c)' \subseteq Claims(c) \cup {current_block}
        /\ \A d \in Clients \ {c} : Claims(d)' \subseteq Claims(d)
        /\ current_block' = current_block + 1
        /\ v_blocks' = v_blocks
        /\ current_block < v_blocks
    BY <1>2, ClaimGives
  <2>3. HandedOut'
    BY <1>1, <2>1, <2>2 DEF HandedOut
  <2>4. ClaimsAreMapped'
    BY <1>1, <2>1, <2>2 DEF ClaimsAreMapped
  <2>5. \A d \in Clients : current_block \notin Claims(d)
    BY <2>1 DEF HandedOut
  <2>6. NoBlockShared'
    BY <2>2, <2>5 DEF NoBlockShared
  <2>7. QED
    BY <2>3, <2>4, <2>6
<1>3. ASSUME ~\E c \in Clients : ClaimBlock(c) /\ StillCurrent(c)
      PROVE  HandedOut' /\ ClaimsAreMapped' /\ NoBlockShared'
  <2>1. Keeps
    BY <1>3, OthersKeep
  <2>2. v_blocks \in Nat /\ v_blocks' \in Nat
    BY TypeStep DEF TypeOK
  <2>3. HandedOut' /\ ClaimsAreMapped' /\ NoBlockShared'
    BY <1>1, <2>1, <2>2 DEF Keeps, HandedOut, ClaimsAreMapped, NoBlockShared
  <2>4. QED
    BY <2>3
<1>4. QED
  BY <1>2, <1>3

-----------------------------------------------------------------------------
(* The inductive invariant of the pool: types, the protocol of             *)
(* is_resizing_, and claims that are handed out, mapped and disjoint.      *)
THEOREM PoolInvariant == Spec => []PoolInv
<1>1. Init => PoolInv
  <2> SUFFICES ASSUME Init PROVE PoolInv
    OBVIOUS
  <2>1. TypeOK
    BY PoolAssumption DEF Init, TypeOK, NoLocals
  <2>2. TerminatedInv /\ ResizeInv /\ OneResizer /\ VectorInv
    BY PoolAssumption DEF Init, TerminatedInv, ResizeInv, OneResizer, VectorInv
  <2>3. \A c \in Clients : Claims(c) = {}
    BY DEF Init, Claims
  <2>4. HandedOut /\ ClaimsAreMapped /\ NoBlockShared
    BY <2>3 DEF HandedOut, ClaimsAreMapped, NoBlockShared
  <2>5. QED
    BY <2>1, <2>2, <2>4 DEF PoolInv
<1>2. PoolInv /\ [Next]_vars => PoolInv'
  BY TypeStep, ResizeStep, VectorStep, ClaimsStep DEF PoolInv
<1>3. QED
  BY <1>1, <1>2, PTL DEF Spec

(* get_new_block gives each block to one client, whatever the number of    *)
(* clients and however often the compare-and-swap is retried.              *)
THEOREM BlocksAreNotShared == Spec => []NoBlockShared
<1>1. PoolInv => NoBlockShared
  BY DEF PoolInv
<1>2. QED
  BY <1>1, PoolInvariant, PTL

(* A block a client uses is in the vector, although get_new_block waits on *)
(* another counter than the vector's size.                                 *)
THEOREM BlocksAreMapped == Spec => []ClaimsAreMapped
<1>1. PoolInv => ClaimsAreMapped
  BY DEF PoolInv
<1>2. QED
  BY <1>1, PoolInvariant, PTL

(* trigger_resize never starts a second resize thread. *)
THEOREM ResizersExclude == Spec => []OneResizer
<1>1. PoolInv => OneResizer
  BY DEF PoolInv
<1>2. QED
  BY <1>1, PoolInvariant, PTL

(* The types: no block below 0, no counter behind the vector. *)
THEOREM PoolTypes == Spec => []TypeOK
<1>1. PoolInv => TypeOK
  BY DEF PoolInv
<1>2. QED
  BY <1>1, PoolInvariant, PTL
=============================================================================
