----------------------------- MODULE VersionLock -----------------------------
(***************************************************************************)
(* The version-lock byte at the head of every ViperPage                    *)
(* (std::atomic<version_lock_t>, include/viper/viper.hpp).  Bit 7 is       *)
(* CLIENT_BIT (on page 0 of a block: the block belongs to a client), bit 6 *)
(* is USED_BIT (the page has been initialised), bits 0..5 are a counter    *)
(* whose lowest bit is the lock.  The byte is a record of these three      *)
(* fields; the counter keeps its width of six bits.                        *)
(***************************************************************************)
EXTENDS Integers

(* The counter occupies the bits below USED_BIT = 0b01000000. *)
USED_BIT == 64

Byte == [client : BOOLEAN, used : BOOLEAN, count : 0 .. USED_BIT - 1]

(* A byte of a page that was never initialised (zeroed memory), and what   *)
(* reclaim() stores in the head page of a block it frees.                  *)
ZeroByte == [client |-> FALSE, used |-> FALSE, count |-> 0]

(* ViperPage::init stores USED_BIT alone. *)
InitByte == [client |-> FALSE, used |-> TRUE, count |-> 0]

IsLocked(b) == b.count % 2 = 1

(* lock_value &= UNLOCKED_BIT: the byte a locker expects to find. *)
UnlockedKeepingLockBit(b) == b
UnlockedMinusOne(b) == [b EXCEPT !.count = b.count - 1]
Unlocked(b) == [b EXCEPT !.count = b.count - (b.count % 2)]

(* lock_value + 1, for an even lock_value: the byte the CAS installs. *)
LockedByte(b) == [b EXCEPT !.count = b.count + 1]

(* The byte unlock() stores, computed from the byte it loaded. *)
UnlockByteSameVersion(b) == [client |-> b.client, used |-> TRUE, count |-> b.count - 1]
UnlockByteStillLocked(b) == [client |-> b.client, used |-> TRUE, count |-> b.count]
UnlockByte(b) == [client |-> b.client, used |-> TRUE,
                  count |-> (b.count + 1) % USED_BIT]

(* version_lock |= CLIENT_BIT and version_lock &= NO_CLIENT_BIT. *)
SetClient(b) == [client |-> TRUE, used |-> b.used, count |-> b.count]
ClearClient(b) == [client |-> FALSE, used |-> b.used, count |-> b.count]
=============================================================================
