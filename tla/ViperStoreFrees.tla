-------------------------- MODULE ViperStoreFrees --------------------------
(***************************************************************************)
(* ViperStore with a history variable for the two ways in which puts and   *)
(* updates use an offset that is no longer their key's.  A client whose    *)
(* compare-and-swap on the old page failed queues its offset and tries     *)
(* again; if the page's client frees the offset through the queue and      *)
(* unlocks the page, and the swap then succeeds before the queue is looked *)
(* at again, the slot is freed a second time, whatever it holds by then.   *)
(* And update writes to the offset it looked up before it had the lock.    *)
(***************************************************************************)
EXTENDS ViperStore

VARIABLE stale_use    \* an offset was used that was no longer its key's

FreesAgain(c) == FreeLock(c) /\ loc[c].inserted /\ deadlock_offsets[Offset(c)] = 0
WritesStale(c) == UpdateWrite(c) /\ index[call[c].key] # Offset(c)
UsesStale == \E c \in Clients : FreesAgain(c) \/ WritesStale(c)

FreesInit == Init /\ stale_use = FALSE
FreesNext == Next /\ stale_use' = (stale_use \/ UsesStale)
FreesSpec == FreesInit /\ [][FreesNext]_<<vars, stale_use>>
FreesFairSpec == FreesSpec /\ Fairness

\* k's record is being removed: its slot is freed before the index is cleared.
BeingRemoved(k) ==
    \E c \in Clients : Is(c, "remove") /\ call[c].key = k /\ Offset(c) = index[k]

(* put, free_occupied_slot, update, remove and the queue write, free and   *)
(* reuse slots of pages on which several keys of several clients live, and *)
(* which fill: as long as no stale offset is used, the index leads every   *)
(* key to an occupied slot with a record of that key.                      *)
IndexLeadsUntilStaleUse ==
    ~stale_use => \A k \in Keys : index[k] # NONE =>
        \/ BeingRemoved(k)
        \/ /\ Occupied(index[k])
           /\ RecordAt(index[k]).key = k
           /\ RecordAt(index[k]).value.key = k
=============================================================================
