---------------------------- MODULE ViperReclaim ----------------------------
(***************************************************************************)
(* Reclamation of blocks (include/viper/viper.hpp; enable_reclamation):    *)
(* trigger_reclaim, reclaim and compact, the list free_blocks_, and what   *)
(* clients do to the blocks reclaim looks at: claim, enter and leave them  *)
(* (get_block_based_access, update_access_information, ~Client), put and   *)
(* remove.  reclaim has a client of its own, Reclaimer, and puts the       *)
(* records it finds in a block again through it.                           *)
(*                                                                         *)
(* Of a version-lock byte three bits matter here, kept as the sets locked, *)
(* used and (for page 0 of a block) client_bit; VersionLock and PageLock   *)
(* have the byte.  The search for deadlocks in free_occupied_slot is a     *)
(* single step; ViperStore has its steps.  Mapped blocks do not run out.   *)
(***************************************************************************)
EXTENDS Integers, FiniteSets

CONSTANTS
    Clients, Reclaimer,
    Keys,
    ZeroKey,        \* the key a record of zeroed memory has
    NumPages,       \* num_pages_per_block
    NumSlots,       \* num_slots_per_page
    FreePercentage, \* reclaim_free_percentage, in hundredths
    NumBlocks,      \* bound: blocks mapped
    SpareBlocks,    \* bound: no client opens or calls, and no pass begins,
                    \* with fewer blocks left
    MaxCalls,       \* bound: puts and removes
    MaxPasses,      \* bound: passes of reclaim
    NONE

Writers == Clients \cup {Reclaimer}
Blocks == 0 .. NumBlocks - 1
PageNumbers == 0 .. NumPages - 1
Slots == 1 .. NumSlots
Pages == Blocks \X PageNumbers
Offsets == [page : Pages, slot : Slots]
Records == [key : Keys, value : 0 .. MaxCalls]
ZeroRecord == [key |-> ZeroKey, value |-> 0]

ASSUME ReclaimAssumption ==
    /\ Reclaimer \notin Clients /\ ZeroKey \in Keys
    /\ NumPages \in Nat \ {0} /\ NumSlots \in Nat \ {0} /\ NumBlocks \in Nat \ {0}
    /\ FreePercentage \in 0 .. 100
    /\ SpareBlocks \in Nat /\ MaxCalls \in Nat /\ MaxPasses \in Nat
    /\ NONE \notin Blocks /\ NONE \notin Offsets

VARIABLES
    current_block,  \* the block number of current_block_page_
    free_blocks,    \* free_blocks_: how often each block is in the list
    client_bit,     \* blocks whose page 0 has CLIENT_BIT
    used,           \* pages with USED_BIT
    locked,         \* pages whose lock bit is set
    free,           \* free_slots
    data,
    index,          \* map_
    v_block, v_page, processed,     \* the members of each client
    pc,             \* where each client is: closed, idle or in a call
    call,           \* the put or remove it makes, and the offset it works on
    is_reclaiming,
    pass,           \* where the reclaim thread is, and its locals
    calls, passes   \* how many there have been

poolVars == <<current_block, free_blocks>>
bitVars == <<client_bit, used, locked>>
slotVars == <<free, data, index>>
placeVars == <<v_block, v_page, processed>>
passVars == <<is_reclaiming, pass, passes>>
vars == <<poolVars, bitVars, slotVars, placeVars, pc, call, passVars, calls>>

NoCall == [name |-> "none", record |-> ZeroRecord, delete_old |-> FALSE, offset |-> NONE]
NoPass == [at |-> "off", max_block |-> 0, block |-> 0, page |-> 0, slot |-> 1]

(* The memory of a new pool is zero: no bit is set, so every slot of a     *)
(* page that was never initialised looks occupied.                         *)
Init ==
    /\ current_block = 0
    /\ free_blocks = [b \in Blocks |-> 0]
    /\ client_bit = {} /\ used = {} /\ locked = {}
    /\ free = [p \in Pages |-> {}]
    /\ data = [p \in Pages |-> [s \in Slots |-> ZeroRecord]]
    /\ index = [k \in Keys |-> NONE]
    /\ v_block = [w \in Writers |-> NONE]
    /\ v_page = [w \in Writers |-> 0]
    /\ processed = [w \in Writers |-> 0]
    /\ pc = [w \in Writers |-> "closed"]
    /\ call = [w \in Writers |-> NoCall]
    /\ is_reclaiming = FALSE
    /\ pass = NoPass
    /\ calls = 0 /\ passes = 0

GoTo(w, from, to) == pc[w] = from /\ pc' = [pc EXCEPT ![w] = to]
OwnPage(w) == <<v_block[w], v_page[w]>>
InCall(c) == pc[c] \notin {"closed", "idle"}

\* Bound: blocks are left for the calls and the pass under way.
MayStart ==
    NumBlocks - current_block + Cardinality({b \in Blocks : free_blocks[b] > 0}) >= SpareBlocks

-----------------------------------------------------------------------------
(* The byte.  unlock() adds one to the counter, whoever holds the lock.    *)
LockPage(p) == p \notin locked /\ locked' = locked \cup {p}
Unlocked(ps, p) == IF p \in ps THEN ps \ {p} ELSE ps \cup {p}

(* ViperPage::init on page n of block b: the byte becomes USED_BIT alone.  *)
InitPage(b, n) ==
    /\ used' = used \cup {<<b, n>>}
    /\ locked' = locked \ {<<b, n>>}
    /\ free' = [free EXCEPT ![<<b, n>>] = Slots]

-----------------------------------------------------------------------------
(* get_client and update_access_information.                               *)

Open(c) ==
    /\ MayStart
    /\ GoTo(c, "closed", "claim")
    /\ UNCHANGED <<poolVars, bitVars, slotVars, placeVars, call, passVars, calls>>

(* A page of the block is left, or the block is used up.                   *)
NextPage(w) ==
    /\ pc[w] = "p_next"
    /\ processed' = [processed EXCEPT ![w] = @ + 1]
    /\ IF processed'[w] = NumPages
       THEN /\ GoTo(w, "p_next", "claim")
            /\ UNCHANGED <<bitVars, free, v_page>>
       ELSE LET n == (v_page[w] + 1) % NumPages
            IN  /\ GoTo(w, "p_next", "p_lock")
                /\ v_page' = [v_page EXCEPT ![w] = n]
                /\ InitPage(v_block[w], n)
                /\ client_bit' = IF n = 0 THEN client_bit \ {v_block[w]} ELSE client_bit
    /\ UNCHANGED <<poolVars, data, index, v_block, call, passVars, calls>>

(* get_block_based_access: a block of the free list, from its first page,  *)
(* or a new one, from a random page.  (offset holds the page meanwhile.)   *)
ClaimBlock(w) ==
    /\ GoTo(w, "claim", "enter")
    /\ \E b \in Blocks, n \in PageNumbers :
          /\ call' = [call EXCEPT ![w].offset = [page |-> <<b, n>>, slot |-> 1]]
          /\ \/ /\ free_blocks[b] > 0 /\ n = 0
                /\ free_blocks' = [free_blocks EXCEPT ![b] = @ - 1]
                /\ UNCHANGED current_block
             \/ /\ \A x \in Blocks : free_blocks[x] = 0
                /\ b = current_block /\ (b = 0 => n = 0)
                /\ current_block' = b + 1
                /\ UNCHANGED free_blocks
    /\ UNCHANGED <<bitVars, slotVars, placeVars, passVars, calls>>

(* CLIENT_BIT leaves the old block, the page is initialised, CLIENT_BIT is *)
(* set on page 0; then update_access_information, but not get_client,      *)
(* initialises the page again, and with page 0 the bit is gone.            *)
EnterBlock(w) ==
    LET b == call[w].offset.page[1]
        n == call[w].offset.page[2]
        isNew == call[w].name = "none"
        left == IF v_block[w] = NONE THEN client_bit ELSE client_bit \ {v_block[w]}
    IN  /\ GoTo(w, "enter", IF isNew THEN "idle" ELSE "p_lock")
        /\ InitPage(b, n)
        /\ client_bit' = IF n = 0 /\ ~isNew THEN left \ {b} ELSE left \cup {b}
        /\ v_block' = [v_block EXCEPT ![w] = b]
        /\ v_page' = [v_page EXCEPT ![w] = n]
        /\ processed' = [processed EXCEPT ![w] = 0]
        /\ call' = [call EXCEPT ![w].offset = NONE]
        /\ UNCHANGED <<poolVars, data, index, passVars, calls>>

(* ~Client. *)
Leave(w) ==
    /\ GoTo(w, "idle", "closed")
    /\ client_bit' = client_bit \ {v_block[w]}
    /\ v_block' = [v_block EXCEPT ![w] = NONE]
    /\ v_page' = [v_page EXCEPT ![w] = 0]
    /\ processed' = [processed EXCEPT ![w] = 0]
    /\ UNCHANGED <<poolVars, used, locked, slotVars, call, calls>>

Close(c) == Leave(c) /\ UNCHANGED passVars

-----------------------------------------------------------------------------
(* Client::put and Client::remove.                                         *)

Start(c) ==
    /\ MayStart
    /\ calls < MaxCalls /\ calls' = calls + 1
    /\ \E k \in Keys :
          \/ /\ GoTo(c, "idle", "p_lock")
             /\ call' = [call EXCEPT ![c] =
                           [name |-> "put", record |-> [key |-> k, value |-> calls + 1],
                            delete_old |-> TRUE, offset |-> NONE]]
          \/ /\ index[k] # NONE
             /\ GoTo(c, "idle", "f_lock")
             /\ call' = [call EXCEPT ![c] =
                           [name |-> "remove", record |-> [key |-> k, value |-> 0],
                            delete_old |-> TRUE, offset |-> index[k]]]
    /\ UNCHANGED <<poolVars, bitVars, slotVars, placeVars, passVars>>

(* The page is locked and the record written to its first free slot, or    *)
(* the page is full and the client goes on to the next.                    *)
PutWrite(w) ==
    LET p == OwnPage(w)
    IN  /\ pc[w] = "p_lock"
        /\ p \notin locked
        /\ \/ /\ free[p] # {}
              /\ GoTo(w, "p_lock", "p_insert")
              /\ locked' = locked \cup {p}
              /\ \E s \in free[p] :
                    /\ \A t \in free[p] : s <= t
                    /\ data' = [data EXCEPT ![p][s] = call[w].record]
                    /\ free' = [free EXCEPT ![p] = @ \ {s}]
                    /\ call' = [call EXCEPT ![w].offset = [page |-> p, slot |-> s]]
              /\ UNCHANGED used
           \/ /\ free[p] = {}
              /\ GoTo(w, "p_lock", "p_next")
              /\ used' = used \cup {p}
              /\ UNCHANGED <<locked, free, data, call>>
    /\ UNCHANGED <<poolVars, client_bit, index, placeVars, passVars, calls>>

InsertIndex(w) ==
    LET k == call[w].record.key
        frees == index[k] # NONE /\ call[w].delete_old
    IN  /\ GoTo(w, "p_insert", IF frees THEN "f_lock" ELSE "p_unlock")
        /\ index' = [index EXCEPT ![k] = call[w].offset]
        /\ call' = [call EXCEPT ![w].offset = index[k]]
        /\ UNCHANGED <<poolVars, bitVars, free, data, placeVars, passVars, calls>>

(* free_occupied_slot: with the lock of the record's page, or through the  *)
(* queue when the page's client waits for another page itself.  remove     *)
(* clears the index as well.                                               *)
WaitsHolding(p) == \E x \in Writers : OwnPage(x) = p /\ pc[x] = "f_lock" /\ call[x].name = "put"

FreeOccupiedSlot(w) ==
    LET o == call[w].offset
    IN  /\ GoTo(w, "f_lock", IF call[w].name = "put" THEN "p_unlock" ELSE "end")
        /\ o.page = OwnPage(w) \/ o.page \notin locked \/ WaitsHolding(o.page)
        /\ used' = IF o.page = OwnPage(w) THEN used ELSE used \cup {o.page}
        /\ free' = [free EXCEPT ![o.page] = @ \cup {o.slot}]
        /\ index' = IF call[w].name = "put" THEN index
                    ELSE [index EXCEPT ![call[w].record.key] = NONE]
    /\ UNCHANGED <<poolVars, client_bit, locked, data, placeVars, call, passVars, calls>>

PutUnlock(w) ==
    /\ GoTo(w, "p_unlock", "end")
    /\ locked' = Unlocked(locked, OwnPage(w))
    /\ used' = used \cup {OwnPage(w)}
    /\ UNCHANGED <<poolVars, client_bit, slotVars, placeVars, call, passVars, calls>>

Return(c) ==
    /\ GoTo(c, "end", "idle")
    /\ call' = [call EXCEPT ![c] = NoCall]
    /\ UNCHANGED <<poolVars, bitVars, slotVars, placeVars, passVars, calls>>

-----------------------------------------------------------------------------
(* trigger_reclaim, from info_sync when a put ends or a client claims a    *)
(* block: whichever gets is_reclaiming starts the thread.  (reclaim is     *)
(* public as well, and can be called between two calls.)                   *)
TriggerReclaim(c) ==
    /\ pc[c] \in {"claim", "end", "idle"} /\ passes < MaxPasses
    /\ MayStart
    /\ ~is_reclaiming /\ is_reclaiming' = TRUE
    /\ pass' = [NoPass EXCEPT !.at = "begin"]
    /\ passes' = passes + 1
    /\ UNCHANGED <<poolVars, bitVars, slotVars, placeVars, pc, call, calls>>

At(from, to) == pass.at = from /\ pass' = [pass EXCEPT !.at = to]

(* max_block is read before the thread gets its client.                    *)
Begin ==
    /\ pass.at = "begin"
    /\ pass' = [pass EXCEPT !.at = "scan", !.max_block = current_block]
    /\ GoTo(Reclaimer, "closed", "claim")
    /\ UNCHANGED <<poolVars, bitVars, slotVars, placeVars, call, is_reclaiming, passes, calls>>

IsOwned(b) == b \in client_bit
IsUnused(b) == \A n \in PageNumbers : <<b, n>> \notin used
FreeSlots(b) == Cardinality({o \in Offsets : o.page[1] = b /\ o.slot \in free[o.page]})
Reclaimable(b) ==
    /\ ~IsOwned(b) /\ ~IsUnused(b)
    /\ 100 * FreeSlots(b) > FreePercentage * NumPages * NumSlots

(* The next block is compacted or passed over.                             *)
ScanBlock ==
    /\ pass.at = "scan" /\ pc[Reclaimer] = "idle"
    /\ pass.block < pass.max_block
    /\ pass' = IF Reclaimable(pass.block)
               THEN [pass EXCEPT !.at = "lock", !.page = 0]
               ELSE [pass EXCEPT !.block = @ + 1]
    /\ UNCHANGED <<poolVars, bitVars, slotVars, placeVars, pc, call, is_reclaiming, passes, calls>>

(* compact, page by page under the page's lock, slot by slot.              *)
Page == <<pass.block, pass.page>>

CompactLock ==
    /\ pass.at = "lock"
    /\ LockPage(Page)
    /\ pass' = [pass EXCEPT !.at = "slot", !.slot = 1]
    /\ UNCHANGED <<poolVars, client_bit, used, slotVars, placeVars, pc, call,
                   is_reclaiming, passes, calls>>

SlotIsFree == pass.slot \in free[Page]

CompactSlot ==
    /\ pass.at = "slot" /\ pass.slot \in Slots
    /\ IF SlotIsFree
       THEN /\ pass' = [pass EXCEPT !.slot = @ + 1]
            /\ UNCHANGED <<pc, call>>
       ELSE /\ pass' = [pass EXCEPT !.at = "put"]
            /\ GoTo(Reclaimer, "idle", "p_lock")
            /\ call' = [call EXCEPT ![Reclaimer] =
                          [name |-> "put", record |-> data[Page][pass.slot],
                           delete_old |-> FALSE, offset |-> NONE]]
    /\ UNCHANGED <<poolVars, bitVars, slotVars, placeVars, is_reclaiming, passes, calls>>

(* The put has returned: the slot of the old record is free.               *)
CompactFree ==
    /\ pass.at = "put" /\ GoTo(Reclaimer, "end", "idle")
    /\ call' = [call EXCEPT ![Reclaimer] = NoCall]
    /\ free' = [free EXCEPT ![Page] = @ \cup {pass.slot}]
    /\ pass' = [pass EXCEPT !.at = "slot", !.slot = @ + 1]
    /\ UNCHANGED <<poolVars, bitVars, data, index, placeVars, is_reclaiming, passes, calls>>

LastPageLate(n) == n = NumPages
LastPage(n) == n = NumPages - 1

CompactUnlock ==
    /\ pass.at = "slot" /\ pass.slot > NumSlots
    /\ locked' = Unlocked(locked, Page)
    /\ used' = used \cup {Page}
    /\ pass' = IF LastPage(pass.page) THEN [pass EXCEPT !.at = "clear"]
               ELSE [pass EXCEPT !.at = "lock", !.page = @ + 1]
    /\ UNCHANGED <<poolVars, client_bit, slotVars, placeVars, pc, call,
                   is_reclaiming, passes, calls>>

(* head_page.version_lock = 0, whoever has the bit or the lock.            *)
ClearHead ==
    /\ At("clear", "enqueue")
    /\ client_bit' = client_bit \ {pass.block}
    /\ used' = used \ {<<pass.block, 0>>}
    /\ locked' = locked \ {<<pass.block, 0>>}
    /\ UNCHANGED <<poolVars, slotVars, placeVars, pc, call, is_reclaiming, passes, calls>>

EnqueueBlock ==
    /\ pass.at = "enqueue"
    /\ free_blocks' = [free_blocks EXCEPT ![pass.block] = @ + 1]
    /\ pass' = [pass EXCEPT !.at = "scan", !.block = @ + 1]
    /\ UNCHANGED <<current_block, bitVars, slotVars, placeVars, pc, call,
                   is_reclaiming, passes, calls>>

DoneReclaiming == FALSE

EndPass ==
    \/ /\ pass.at = "scan" /\ pc[Reclaimer] = "idle" /\ pass.block >= pass.max_block
       /\ Leave(Reclaimer)
       /\ pass' = [pass EXCEPT !.at = "end"]
       /\ UNCHANGED <<is_reclaiming, passes>>
    \/ /\ pass.at = "end" /\ pass' = NoPass
       /\ is_reclaiming' = DoneReclaiming
       /\ UNCHANGED <<poolVars, bitVars, slotVars, placeVars, pc, call, passes, calls>>

-----------------------------------------------------------------------------
PutSteps(w) ==
    \/ ClaimBlock(w) \/ EnterBlock(w) \/ NextPage(w)
    \/ PutWrite(w) \/ InsertIndex(w) \/ FreeOccupiedSlot(w) \/ PutUnlock(w)

ClientStep(c) == PutSteps(c) \/ Return(c)

ReclaimStep ==
    \/ Begin \/ ScanBlock
    \/ CompactLock \/ CompactSlot \/ CompactFree \/ CompactUnlock
    \/ ClearHead \/ EnqueueBlock \/ EndPass
    \/ PutSteps(Reclaimer)

(* Nothing is left to do within the bounds. *)
Finished ==
    /\ \A c \in Clients : ~InCall(c)
    /\ UNCHANGED vars

Next ==
    \/ \E c \in Clients :
          Open(c) \/ Close(c) \/ Start(c) \/ ClientStep(c) \/ TriggerReclaim(c)
    \/ ReclaimStep
    \/ Finished

Spec == Init /\ [][Next]_vars

(* Clients in a call and the reclaim thread are running threads. *)
Fairness == WF_vars(ReclaimStep) /\ \A c \in Clients : WF_vars(ClientStep(c))

FairSpec == Spec /\ Fairness

-----------------------------------------------------------------------------
(* Properties.                                                             *)

CallType == [name : {"none", "put", "remove"}, record : Records,
             delete_old : BOOLEAN, offset : Offsets \cup {NONE}]
PassType == [at : {"off", "begin", "scan", "lock", "slot", "put", "clear", "enqueue", "end"},
             max_block : 0 .. NumBlocks, block : 0 .. NumBlocks,
             page : PageNumbers, slot : 1 .. NumSlots + 1]

(* The type invariant. *)
TypeOK ==
    /\ current_block \in 0 .. NumBlocks
    /\ free_blocks \in [Blocks -> Nat]
    /\ client_bit \subseteq Blocks /\ used \subseteq Pages /\ locked \subseteq Pages
    /\ free \in [Pages -> SUBSET Slots]
    /\ data \in [Pages -> [Slots -> Records]]
    /\ index \in [Keys -> Offsets \cup {NONE}]
    /\ v_block \in [Writers -> Blocks \cup {NONE}]
    /\ v_page \in [Writers -> PageNumbers]
    /\ processed \in [Writers -> 0 .. NumPages]
    /\ pc \in [Writers -> {"closed", "idle", "claim", "enter", "p_lock", "p_insert",
                           "p_next", "p_unlock", "f_lock", "end"}]
    /\ call \in [Writers -> CallType]
    /\ is_reclaiming \in BOOLEAN
    /\ pass \in PassType
    /\ calls \in 0 .. MaxCalls /\ passes \in 0 .. MaxPasses

=============================================================================
