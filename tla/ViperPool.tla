------------------------------ MODULE ViperPool ------------------------------
(***************************************************************************)
(* How clients get blocks of pages (include/viper/viper.hpp):              *)
(* get_new_access_information, get_block_based_access and get_new_block,   *)
(* with trigger_resize and the background thread that maps more blocks     *)
(* (allocate_v_page_blocks, add_v_page_blocks), and the other operations   *)
(* that follow v_blocks_ while it may be moved.                            *)
(*                                                                         *)
(* Reclamation is off, as it is by default: free_blocks_ is always empty.  *)
(* Of current_block_page_ only the block number is kept; the page number   *)
(* is random and chooses the client's first page.  The assertion of        *)
(* get_new_block is checked, as in a build that does not define NDEBUG.    *)
(***************************************************************************)
EXTENDS Integers

CONSTANTS
    Clients,
    InitialBlocks,  \* blocks mapped when the store is created
    ChunkBlocks,    \* alloc_size / sizeof(VPageBlock)
    Threshold,      \* resize_threshold, in hundredths
    MaxBlocks,      \* bound: no request begins once this many blocks are used
    NONE

ASSUME PoolAssumption ==
    /\ InitialBlocks \in Nat \ {0} /\ ChunkBlocks \in Nat \ {0}
    /\ Threshold \in Nat /\ MaxBlocks \in Nat
    /\ NONE \notin Nat

VARIABLES
    current_block,  \* current_block_page_: the next block to hand out
    mapped,         \* num_allocated_blocks
    v_blocks,       \* the size of the vector v_blocks_
    buffer,         \* how often the elements of v_blocks_ have been moved
    num_v_blocks,
    is_v_blocks_resizing,
    is_resizing,
    resizer,        \* where the resize thread is, or "none"
    resize_thread,  \* the std::thread in resize_thread_
    pc,             \* where each client is
    op,             \* the operation it makes: claim a block, get or free
    loc,            \* its locals: block number read, buffer of v_blocks_ read
    v_block         \* the block each client owns, or NONE

vars == <<current_block, mapped, v_blocks, buffer, num_v_blocks, is_v_blocks_resizing,
          is_resizing, resizer, resize_thread, pc, op, loc, v_block>>
vectorVars == <<mapped, v_blocks, buffer, num_v_blocks, is_v_blocks_resizing>>
resizeVars == <<is_resizing, resizer, resize_thread>>

NoLocals == [block |-> 0, buffer |-> 0]

Init ==
    /\ current_block = 0
    /\ mapped = InitialBlocks
    /\ v_blocks = InitialBlocks
    /\ buffer = 0
    /\ num_v_blocks = InitialBlocks
    /\ is_v_blocks_resizing = FALSE
    /\ is_resizing = FALSE
    /\ resizer = "none"
    /\ resize_thread = "none"
    /\ pc = [c \in Clients |-> "idle"]
    /\ op = [c \in Clients |-> "claim"]
    /\ loc = [c \in Clients |-> NoLocals]
    /\ v_block = [c \in Clients |-> NONE]

GoTo(c, from, to) == pc[c] = from /\ pc' = [pc EXCEPT ![c] = to]

-----------------------------------------------------------------------------
(* A client needs a block when it is created and when its own is full; get *)
(* and update follow v_blocks_ at once; free_occupied_slot first waits for *)
(* a move to end.                                                          *)

FirstStep == [claim |-> "check", get |-> "load", free |-> "wait_move"]

Start(c) ==
    /\ \E o \in DOMAIN FirstStep :
          /\ o = "claim" => current_block < MaxBlocks
          /\ GoTo(c, "idle", FirstStep[o])
          /\ op' = [op EXCEPT ![c] = o]
    /\ UNCHANGED <<current_block, vectorVars, resizeVars, loc, v_block>>

(* get_new_access_information. *)
LoadCurrent(c) ==
    /\ GoTo(c, "check", "threshold")
    /\ loc' = [loc EXCEPT ![c].block = current_block]
    /\ UNCHANGED <<current_block, vectorVars, resizeVars, op, v_block>>

NeedsResize(block) == 100 * block > Threshold * v_blocks

(* v_blocks_.size() is read without synchronisation: while the elements    *)
(* are moved it can be anything.                                           *)
CheckThreshold(c) ==
    /\ \E resize \in BOOLEAN :
          /\ resizer # "move" => (resize <=> NeedsResize(loc[c].block))
          /\ GoTo(c, "threshold", IF resize THEN "trigger" ELSE "new_block")
    /\ UNCHANGED <<current_block, vectorVars, resizeVars, op, loc, v_block>>

-----------------------------------------------------------------------------
(* trigger_resize: the exchange of is_resizing_, then the thread is        *)
(* started, stored in resize_thread_ and detached, three steps.            *)
MayResizeAlways == TRUE
MayResize == ~is_resizing

TriggerResize(c) ==
    /\ GoTo(c, "trigger", IF MayResize THEN "spawn" ELSE "new_block")
    /\ is_resizing' = TRUE
    /\ UNCHANGED <<current_block, vectorVars, resizer, resize_thread, op, loc, v_block>>

SpawnThread(c) ==
    /\ GoTo(c, "spawn", "store")
    /\ resizer' = "allocate"
    /\ UNCHANGED <<current_block, vectorVars, is_resizing, resize_thread, op, loc, v_block>>

(* The process ends: no one takes another step. *)
Terminate ==
    /\ pc' = [c \in Clients |-> "terminated"]
    /\ resizer' = "terminated"

(* Assigning to resize_thread_ destroys the thread it held; destroying a   *)
(* thread that was not detached calls std::terminate.                      *)
StoreThread(c) ==
    /\ pc[c] = "store"
    /\ \/ resize_thread = "joinable" /\ Terminate
       \/ resize_thread # "joinable" /\ GoTo(c, "store", "detach") /\ UNCHANGED resizer
    /\ resize_thread' = "joinable"
    /\ UNCHANGED <<current_block, vectorVars, is_resizing, op, loc, v_block>>

DetachThread(c) ==
    /\ GoTo(c, "detach", "new_block")
    /\ resize_thread' = "detached"
    /\ UNCHANGED <<current_block, vectorVars, is_resizing, resizer, op, loc, v_block>>

-----------------------------------------------------------------------------
(* The resize thread.                                                      *)

ResizerGoTo(from, to) ==
    /\ resizer = from
    /\ resizer' = to
    /\ UNCHANGED <<current_block, resize_thread, pc, op, loc, v_block>>

AllocateBlocks ==
    /\ ResizerGoTo("allocate", "begin_move")
    /\ mapped' = mapped + ChunkBlocks
    /\ UNCHANGED <<v_blocks, buffer, num_v_blocks, is_v_blocks_resizing, is_resizing>>

BeginMove ==
    /\ ResizerGoTo("begin_move", "move")
    /\ is_v_blocks_resizing' = TRUE
    /\ UNCHANGED <<mapped, v_blocks, buffer, num_v_blocks, is_resizing>>

(* v_blocks_.reserve: the elements move, the old buffer is freed. *)
Move ==
    /\ ResizerGoTo("move", "end_move")
    /\ buffer' = buffer + 1
    /\ UNCHANGED <<mapped, v_blocks, num_v_blocks, is_v_blocks_resizing, is_resizing>>

EndMove ==
    /\ ResizerGoTo("end_move", "push")
    /\ is_v_blocks_resizing' = FALSE
    /\ UNCHANGED <<mapped, v_blocks, buffer, num_v_blocks, is_resizing>>

PushBlock ==
    /\ ResizerGoTo("push", IF v_blocks + 1 = mapped THEN "publish" ELSE "push")
    /\ v_blocks' = v_blocks + 1
    /\ UNCHANGED <<mapped, buffer, num_v_blocks, is_v_blocks_resizing, is_resizing>>

PublishNothing ==
    /\ ResizerGoTo("publish", "end")
    /\ UNCHANGED vectorVars /\ UNCHANGED is_resizing

PublishBlocks ==
    /\ ResizerGoTo("publish", "end")
    /\ num_v_blocks' = v_blocks
    /\ UNCHANGED <<mapped, v_blocks, buffer, is_v_blocks_resizing, is_resizing>>

EndResize ==
    /\ ResizerGoTo("end", "none")
    /\ is_resizing' = FALSE
    /\ UNCHANGED vectorVars

-----------------------------------------------------------------------------
(* get_new_block.                                                          *)

LoadBlock(c) ==
    /\ GoTo(c, "new_block", "wait_mapped")
    /\ loc' = [loc EXCEPT ![c].block = current_block]
    /\ UNCHANGED <<current_block, vectorVars, resizeVars, op, v_block>>

MappedOffByOne(block) == block <= num_v_blocks
Mapped(block) == block < num_v_blocks

WaitMapped(c) ==
    /\ GoTo(c, "wait_mapped", "assert")
    /\ Mapped(loc[c].block)
    /\ UNCHANGED <<current_block, vectorVars, resizeVars, op, loc, v_block>>

BlockBefore(block) == block - 1
BlockAfter(block) == block + 1

(* assert(new_block < v_blocks_.size()), the size read without             *)
(* synchronisation: when it fails the process aborts.                      *)
AssertNextBlock(c) ==
    /\ pc[c] = "assert"
    /\ \E holds \in BOOLEAN :
          /\ resizer # "move" => (holds <=> BlockAfter(loc[c].block) < v_blocks)
          /\ \/ holds /\ GoTo(c, "assert", "claim") /\ UNCHANGED resizer
             \/ ~holds /\ Terminate
    /\ UNCHANGED <<current_block, vectorVars, is_resizing, resize_thread, op, loc, v_block>>

ClaimUnchecked(c) == TRUE
StillCurrent(c) == current_block = loc[c].block

(* compare_exchange: the block is the client's, or try the one found. *)
ClaimBlock(c) ==
    /\ GoTo(c, "claim", IF StillCurrent(c) THEN "wait_move" ELSE "wait_mapped")
    /\ IF StillCurrent(c)
       THEN current_block' = BlockAfter(loc[c].block) /\ UNCHANGED loc
       ELSE loc' = [loc EXCEPT ![c].block = current_block] /\ UNCHANGED current_block
    /\ UNCHANGED <<vectorVars, resizeVars, op, v_block>>

-----------------------------------------------------------------------------
(* v_blocks_[block]: the flag is checked (by some), CLIENT_BIT of the old  *)
(* block is cleared, then the buffer of the vector and its element are     *)
(* read.                                                                   *)

WaitMove(c) ==
    /\ GoTo(c, "wait_move", IF op[c] = "claim" THEN "leave" ELSE "load")
    /\ ~is_v_blocks_resizing
    /\ UNCHANGED <<current_block, vectorVars, resizeVars, op, loc, v_block>>

LeaveBlock(c) ==
    /\ GoTo(c, "leave", "load")
    /\ v_block' = [v_block EXCEPT ![c] = NONE]
    /\ UNCHANGED <<current_block, vectorVars, resizeVars, op, loc>>

LoadBuffer(c) ==
    /\ GoTo(c, "load", "read")
    /\ loc' = [loc EXCEPT ![c].buffer = buffer]
    /\ UNCHANGED <<current_block, vectorVars, resizeVars, op, v_block>>

(* Reading a buffer that was freed finds the old pointers or crashes. *)
ReadBlock(c) ==
    /\ \/ /\ GoTo(c, "read", "idle")
          /\ v_block' = [v_block EXCEPT ![c] = IF op[c] = "claim" THEN loc[c].block ELSE @]
          /\ op' = [op EXCEPT ![c] = "claim"]
          /\ loc' = [loc EXCEPT ![c] = NoLocals]
          /\ UNCHANGED resizer
       \/ /\ pc[c] = "read"
          /\ loc[c].buffer # buffer
          /\ Terminate
          /\ UNCHANGED <<op, loc, v_block>>
    /\ UNCHANGED <<current_block, vectorVars, is_resizing, resize_thread>>

-----------------------------------------------------------------------------
Step(c) ==
    \/ LoadCurrent(c) \/ CheckThreshold(c)
    \/ TriggerResize(c) \/ SpawnThread(c) \/ StoreThread(c) \/ DetachThread(c)
    \/ LoadBlock(c) \/ WaitMapped(c) \/ AssertNextBlock(c) \/ ClaimBlock(c)
    \/ WaitMove(c) \/ LeaveBlock(c) \/ LoadBuffer(c) \/ ReadBlock(c)

Resize ==
    \/ AllocateBlocks \/ BeginMove \/ Move \/ EndMove \/ PushBlock
    \/ PublishBlocks \/ EndResize

(* A process that was terminated does nothing more. *)
Terminated == resizer = "terminated" /\ UNCHANGED vars

Next == (\E c \in Clients : Start(c) \/ Step(c)) \/ Resize \/ Terminated

Spec == Init /\ [][Next]_vars

(* Clients in an operation and the resize thread keep running. *)
FairSpec ==
    /\ Spec
    /\ \A c \in Clients : WF_vars(Step(c))
    /\ WF_vars(Resize)

-----------------------------------------------------------------------------
(* Properties.                                                             *)

(* The block a client owns or has claimed and is about to own. *)
Claims(c) ==
    (IF v_block[c] = NONE THEN {} ELSE {v_block[c]})
    \cup (IF op[c] = "claim" /\ pc[c] \in {"wait_move", "leave", "load", "read"}
          THEN {loc[c].block} ELSE {})

(* The type invariant. *)
TypeOK ==
    /\ current_block \in Nat /\ mapped \in Nat /\ v_blocks \in Nat
    /\ buffer \in Nat /\ num_v_blocks \in Nat
    /\ is_v_blocks_resizing \in BOOLEAN /\ is_resizing \in BOOLEAN
    /\ resizer \in {"none", "allocate", "begin_move", "move", "end_move", "push",
                    "publish", "end", "terminated"}
    /\ resize_thread \in {"none", "joinable", "detached"}
    /\ pc \in [Clients -> {"idle", "check", "threshold", "trigger", "spawn", "store",
                           "detach", "new_block", "wait_mapped", "assert", "claim",
                           "wait_move", "leave", "load", "read", "terminated"}]
    /\ op \in [Clients -> {"claim", "get", "free"}]
    /\ loc \in [Clients -> [block : Nat, buffer : Nat]]
    /\ v_block \in [Clients -> Nat \cup {NONE}]

(* get_new_block hands out each block once: no two clients ever write to   *)
(* pages of one block.                                                     *)
NoBlockShared ==
    \A c, d \in Clients : c # d => Claims(c) \cap Claims(d) = {}

(* get_new_block waits for the block to be mapped: v_blocks_[client_block] *)
(* is in the vector, although the size checked is not the vector's.        *)
ClaimsAreMapped ==
    \A c \in Clients : \A b \in Claims(c) : b < v_blocks

(* trigger_resize: the exchange of is_resizing_ admits no second resize    *)
(* thread while one is about to start or running.                          *)
OneResizer ==
    \A c \in Clients :
        pc[c] = "spawn" =>
            /\ resizer = "none"
            /\ \A d \in Clients : pc[d] = "spawn" => c = d

(* No client spins for ever in get_new_block or get_block_based_access:    *)
(* the resize it waits for publishes its blocks and ends the move, and the *)
(* request is granted, unless the process ended before (an assertion, an   *)
(* overwritten thread or a freed buffer: StoreThread, AssertNextBlock and  *)
(* ReadBlock).                                                             *)
NoRequestHangs ==
    \A c \in Clients : pc[c] = "check" ~> pc[c] \in {"idle", "terminated"}

(* The assertion of get_new_block: a client only takes a block with        *)
(* another one mapped behind it.                                           *)
NextBlockIsMapped ==
    [][\A c \in Clients :
          AssertNextBlock(c) /\ resizer # "move" => BlockAfter(loc[c].block) < v_blocks]_vars

(* The comment of trigger_resize: only one thread can be between the       *)
(* exchange of is_resizing_ and the end of the function.                   *)
AloneInTrigger ==
    \A c, d \in Clients :
        pc[c] \in {"spawn", "store", "detach"} /\ pc[d] \in {"spawn", "store", "detach"} => c = d
=============================================================================
