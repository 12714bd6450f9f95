------------------------ MODULE ViperReclaimStrays -------------------------
(***************************************************************************)
(* ViperReclaim with a history variable for what a pass does wrong because *)
(* a bit of a block is not what it was meant to be or because a call runs  *)
(* into it: it compacts a block that is in use or in the free list, which  *)
(* the comment of reclaim says it skips ("Block in use by client or        *)
(* already marked as free"), and it puts again a record that was replaced. *)
(***************************************************************************)
EXTENDS ViperReclaim

VARIABLE stray    \* a pass has done one of the three

\* A client whose page number has come round to 0 has cleared its CLIENT_BIT;
\* that of a client which has claimed its block and not entered it is not set.
InUse(b) ==
    \E w \in Writers : v_block[w] = b \/ (pc[w] = "enter" /\ call[w].offset.page[1] = b)
InFreeList(b) == free_blocks[b] > 0
Compacts == ScanBlock /\ pass'.at = "lock"
CompactsInUse == Compacts /\ InUse(pass.block)
CompactsFree == Compacts /\ InFreeList(pass.block)

\* The record that compact puts is still in its slot, but the index leads to
\* another of its key by now, or to none.
Initialised(page) == page \in used
PutsReplaced ==
    /\ InsertIndex(Reclaimer)
    /\ Initialised(Page) /\ pass.slot \notin free[Page]
    /\ index[call[Reclaimer].record.key] # [page |-> Page, slot |-> pass.slot]

StrayInit == Init /\ stray = FALSE
StrayNext == Next /\ stray' = (stray \/ CompactsInUse \/ CompactsFree \/ PutsReplaced)
StraySpec == StrayInit /\ [][StrayNext]_<<vars, stray>>
StrayFairSpec == StraySpec /\ Fairness

-----------------------------------------------------------------------------
(* What get returns for a key. *)
Value(k) ==
    IF index[k] = NONE THEN NONE
    ELSE LET o == index[k] IN [record |-> data[o.page][o.slot], isFree |-> o.slot \in free[o.page]]


(* Until a pass strays, a block enters the free list with all its records  *)
(* moved - the index has no offset in it and every slot of it is free -    *)
(* and no client has it and the list has it once.                          *)
BlockIsEmpty(b) ==
    /\ \A k \in Keys : index[k] # NONE => index[k].page[1] # b
    /\ FreeSlots(b) = NumPages * NumSlots


-----------------------------------------------------------------------------
(* What the code and its comments lead one to expect, and does not hold:   *)
(* reclaim skips a "Block in use by client or already marked as free",     *)
(* compact puts what the index leads to, and the key 0 is like the others. *)
BlocksInUseAreSkipped == [][~CompactsInUse]_<<vars, stray>>
FreeBlocksAreSkipped == [][~CompactsFree]_<<vars, stray>>
NothingReplacedIsPut == [][~PutsReplaced]_<<vars, stray>>
ZeroKeyIsKept == [][ReclaimStep /\ ~stray' => Value(ZeroKey)' = Value(ZeroKey)]_<<vars, stray>>
=============================================================================
