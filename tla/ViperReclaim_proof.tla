------------------------- MODULE ViperReclaim_proof -------------------------
(***************************************************************************)
(* Proofs about ViperReclaim: its types, whether or not calls run into a   *)
(* pass and however many passes there are.                                 *)
(***************************************************************************)
EXTENDS ViperReclaim, FiniteSetTheorems, TLAPS

-----------------------------------------------------------------------------
(* Reclamation: types.                                                     *)

(* A client in a call has a block and has not used it up; a step that      *)
(* needs an offset has one; a pass is at a block below max_block.          *)
PlaceInv ==
    /\ \A w \in Writers :
          /\ pc[w] \notin {"closed", "claim", "enter"} =>
                v_block[w] # NONE /\ processed[w] < NumPages
          /\ pc[w] \in {"enter", "p_insert", "f_lock"} => call[w].offset # NONE
    /\ pass.at = "put" => pass.slot \in Slots
    /\ pass.at \in {"lock", "slot", "put", "clear", "enqueue"} => pass.block < pass.max_block

-----------------------------------------------------------------------------
(* Every action keeps the types.                                           *)
LEMMA Writer == Clients \subseteq Writers /\ Reclaimer \in Writers
  BY DEF Writers

(* One field of one call changes. *)
LEMMA NewOffset ==
    ASSUME call \in [Writers -> CallType], NEW w \in Writers, NEW o \in Offsets \cup {NONE},
           call' = [call EXCEPT ![w].offset = o]
    PROVE  /\ call' \in [Writers -> CallType]
           /\ call'[w].offset = o
           /\ call'[w].name = call[w].name /\ call'[w].record = call[w].record
           /\ call'[w].delete_old = call[w].delete_old
           /\ \A x \in Writers \ {w} : call'[x] = call[x]
<1> DEFINE y == [call[w] EXCEPT !.offset = o]
<1>1. /\ y \in CallType /\ y.offset = o /\ y.name = call[w].name /\ y.record = call[w].record
      /\ y.delete_old = call[w].delete_old
  BY DEF CallType
<1>2. call' = [call EXCEPT ![w] = y]
  OBVIOUS
<1> HIDE DEF y
<1> QED BY <1>1, <1>2

LEMMA ReclaimTypesInit == Init => TypeOK /\ PlaceInv
<1> SUFFICES ASSUME Init PROVE TypeOK /\ PlaceInv
  OBVIOUS
<1>1. NumBlocks \in Nat \ {0} /\ NumPages \in Nat \ {0} /\ NumSlots \in Nat \ {0}
      /\ MaxCalls \in Nat /\ MaxPasses \in Nat
  BY ReclaimAssumption
<1>2. ZeroRecord \in Records
  BY <1>1, ReclaimAssumption DEF ZeroRecord, Records
<1>3. /\ call \in [Writers -> CallType]
      /\ data \in [Pages -> [Slots -> Records]]
  BY <1>2 DEF Init, NoCall, CallType
<1>4. /\ pass \in PassType
      /\ v_page \in [Writers -> PageNumbers] /\ processed \in [Writers -> 0 .. NumPages]
  BY <1>1 DEF Init, NoPass, PageNumbers, PassType
<1>5. TypeOK
  <2>1. /\ free_blocks \in [Blocks -> Nat] /\ free \in [Pages -> SUBSET Slots]
        /\ index \in [Keys -> Offsets \cup {NONE}] /\ v_block \in [Writers -> Blocks \cup {NONE}]
        /\ client_bit \subseteq Blocks /\ used \subseteq Pages /\ locked \subseteq Pages
    BY DEF Init
  <2>2. /\ current_block \in 0 .. NumBlocks
        /\ calls \in 0 .. MaxCalls /\ passes \in 0 .. MaxPasses
    <3>1. current_block = 0 /\ calls = 0 /\ passes = 0
      BY DEF Init
    <3> QED BY <1>1, <3>1
  <2>3. pc \in [Writers -> {"closed", "idle", "claim", "enter", "p_lock", "p_insert",
                           "p_next", "p_unlock", "f_lock", "end"}]
    BY DEF Init
  <2>4. is_reclaiming \in BOOLEAN
    BY Zenon DEF Init
  <2> QED BY <1>3, <1>4, <2>1, <2>2, <2>3, <2>4 DEF TypeOK
<1>6. PlaceInv
  BY DEF Init, PlaceInv, NoPass
<1> QED BY <1>5, <1>6

(* What a put or remove does, for a client and for the reclaimer.          *)
LEMMA PutTypes ==
    ASSUME TypeOK, PlaceInv, NEW w \in Writers, PutSteps(w)
    PROVE  TypeOK' /\ PlaceInv'
<1> USE DEF poolVars, bitVars, slotVars, placeVars, passVars, GoTo
<1>0. /\ NumBlocks \in Nat \ {0} /\ NumPages \in Nat \ {0} /\ NumSlots \in Nat \ {0}
      /\ MaxCalls \in Nat /\ MaxPasses \in Nat
      /\ NONE \notin Blocks /\ NONE \notin Offsets
  BY ReclaimAssumption
<1>1. ASSUME ClaimBlock(w) PROVE TypeOK' /\ PlaceInv'
  <2>1. PICK b \in Blocks, n \in PageNumbers :
           /\ call' = [call EXCEPT ![w].offset = [page |-> <<b, n>>, slot |-> 1]]
           /\ \/ /\ free_blocks[b] > 0 /\ n = 0
                 /\ free_blocks' = [free_blocks EXCEPT ![b] = @ - 1]
                 /\ UNCHANGED current_block
              \/ /\ \A x \in Blocks : free_blocks[x] = 0
                 /\ b = current_block /\ (b = 0 => n = 0)
                 /\ current_block' = b + 1
                 /\ UNCHANGED free_blocks
    BY <1>1 DEF ClaimBlock
  <2>2. [page |-> <<b, n>>, slot |-> 1] \in Offsets
    BY <1>0 DEF Offsets, Pages, Slots
  <2>3. call' \in [Writers -> CallType]
    BY <2>1, <2>2, NewOffset DEF TypeOK
  <2>4. current_block' \in 0 .. NumBlocks /\ free_blocks' \in [Blocks -> Nat]
    BY <1>0, <2>1 DEF TypeOK, Blocks
  <2>5. TypeOK'
    BY <1>1, <2>3, <2>4 DEF ClaimBlock, TypeOK
  <2>6. call'[w].offset # NONE /\ \A x \in Writers \ {w} : call'[x] = call[x]
    <3>1. call \in [Writers -> CallType]
      BY DEF TypeOK
    <3> QED BY <1>0, <2>1, <2>2, <3>1, NewOffset
  <2>7. PlaceInv'
    BY <1>1, <2>6 DEF ClaimBlock, TypeOK, PlaceInv
  <2> QED BY <2>5, <2>7
<1>2. ASSUME EnterBlock(w) PROVE TypeOK' /\ PlaceInv'
  <2> DEFINE b == call[w].offset.page[1]
             n == call[w].offset.page[2]
  <2>1. call[w].offset \in Offsets
    BY <1>2 DEF EnterBlock, TypeOK, PlaceInv, CallType, GoTo
  <2>2. b \in Blocks /\ n \in PageNumbers /\ <<b, n>> \in Pages
    BY <2>1 DEF Offsets, Pages
  <2>3. call' \in [Writers -> CallType] /\ \A x \in Writers \ {w} : call'[x] = call[x]
    BY <1>2, NewOffset DEF EnterBlock, TypeOK
  <2>4. /\ used' = used \cup {<<b, n>>} /\ locked' = locked \ {<<b, n>>}
        /\ free' = [free EXCEPT ![<<b, n>>] = Slots]
        /\ client_bit' \subseteq client_bit \cup {b}
        /\ v_block' = [v_block EXCEPT ![w] = b]
        /\ v_page' = [v_page EXCEPT ![w] = n]
        /\ processed' = [processed EXCEPT ![w] = 0]
        /\ \E to \in {"idle", "p_lock"} : pc' = [pc EXCEPT ![w] = to]
        /\ call' = [call EXCEPT ![w].offset = NONE]
        /\ UNCHANGED <<poolVars, data, index, passVars, calls>>
    BY <1>2 DEF EnterBlock, InitPage
  <2> HIDE DEF b, n
  <2>5. 0 \in 0 .. NumPages /\ 0 < NumPages
    BY <1>0
  <2>6. TypeOK'
    BY <2>2, <2>3, <2>4, <2>5 DEF TypeOK
  <2>7. PlaceInv'
    BY <1>0, <2>2, <2>3, <2>4, <2>5 DEF TypeOK, PlaceInv
  <2> QED BY <2>6, <2>7
<1>3. ASSUME NextPage(w) PROVE TypeOK' /\ PlaceInv'
  <2>1. processed[w] \in 0 .. NumPages /\ processed[w] < NumPages /\ v_block[w] \in Blocks
    BY <1>3 DEF NextPage, TypeOK, PlaceInv
  <2>2. processed' = [processed EXCEPT ![w] = processed[w] + 1]
        /\ processed' \in [Writers -> 0 .. NumPages] /\ processed'[w] = processed[w] + 1
    BY <1>0, <1>3, <2>1 DEF NextPage, TypeOK
  <2>3. CASE processed'[w] = NumPages
    BY <1>3, <2>1, <2>2, <2>3 DEF NextPage, TypeOK, PlaceInv
  <2>4. CASE processed'[w] # NumPages
    <3> DEFINE n == (v_page[w] + 1) % NumPages
    <3>1. n \in PageNumbers
      BY <1>0 DEF TypeOK, PageNumbers
    <3>2. /\ pc[w] = "p_next" /\ pc' = [pc EXCEPT ![w] = "p_lock"]
          /\ v_page' = [v_page EXCEPT ![w] = n]
          /\ used' = used \cup {<<v_block[w], n>>} /\ locked' = locked \ {<<v_block[w], n>>}
          /\ free' = [free EXCEPT ![<<v_block[w], n>>] = Slots]
          /\ client_bit' \subseteq client_bit
          /\ UNCHANGED <<poolVars, data, index, v_block, call, passVars, calls>>
      BY <1>3, <2>4 DEF NextPage, InitPage
    <3> HIDE DEF n
    <3>3. <<v_block[w], n>> \in Pages
      BY <2>1, <3>1 DEF Pages
    <3>4. TypeOK'
      BY <2>2, <3>1, <3>2, <3>3 DEF TypeOK
    <3>5. processed'[w] < NumPages
      BY <1>0, <2>1, <2>2, <2>4
    <3>6. PlaceInv'
      BY <2>2, <3>2, <3>5 DEF TypeOK, PlaceInv
    <3> QED BY <3>4, <3>6
  <2> QED BY <2>3, <2>4
<1>4. ASSUME PutWrite(w) PROVE TypeOK' /\ PlaceInv'
  <2>1. OwnPage(w) \in Pages
    BY <1>4 DEF PutWrite, TypeOK, PlaceInv, OwnPage, Pages
  <2>2. CASE free[OwnPage(w)] # {} /\ pc'[w] # "p_next"
    <3>1. PICK s \in free[OwnPage(w)] :
            /\ data' = [data EXCEPT ![OwnPage(w)][s] = call[w].record]
            /\ free' = [free EXCEPT ![OwnPage(w)] = @ \ {s}]
            /\ call' = [call EXCEPT ![w].offset = [page |-> OwnPage(w), slot |-> s]]
      BY <1>4, <2>2 DEF PutWrite
    <3>2. [page |-> OwnPage(w), slot |-> s] \in Offsets /\ s \in Slots
      BY <2>1 DEF TypeOK, Offsets
    <3>3. call' \in [Writers -> CallType]
      BY <3>1, <3>2, NewOffset DEF TypeOK
    <3>4. data' \in [Pages -> [Slots -> Records]] /\ free' \in [Pages -> SUBSET Slots]
      BY <2>1, <3>1, <3>2 DEF TypeOK, CallType
    <3>5. /\ pc[w] = "p_lock" /\ pc' = [pc EXCEPT ![w] = "p_insert"]
          /\ locked' = locked \cup {OwnPage(w)}
          /\ UNCHANGED <<poolVars, used, client_bit, index, placeVars, passVars, calls>>
      BY <1>4, <2>2 DEF PutWrite
    <3>6. TypeOK'
      BY <2>1, <3>3, <3>4, <3>5 DEF TypeOK
    <3>7. call'[w].offset # NONE /\ \A x \in Writers \ {w} : call'[x] = call[x]
      BY <1>0, <3>1, <3>2, NewOffset DEF TypeOK
    <3>8. PlaceInv'
      BY <3>5, <3>7 DEF TypeOK, PlaceInv
    <3> QED BY <3>6, <3>8
  <2>3. CASE ~(free[OwnPage(w)] # {} /\ pc'[w] # "p_next")
    <3>1. /\ pc[w] = "p_lock" /\ pc' = [pc EXCEPT ![w] = "p_next"]
          /\ used' = used \cup {OwnPage(w)}
          /\ UNCHANGED <<locked, free, data, call>>
          /\ UNCHANGED <<poolVars, client_bit, index, placeVars, passVars, calls>>
      BY <1>4, <2>3 DEF PutWrite, TypeOK
    <3>2. TypeOK'
      BY <2>1, <3>1 DEF TypeOK
    <3>3. PlaceInv'
      BY <3>1 DEF TypeOK, PlaceInv
    <3> QED BY <3>2, <3>3
  <2> QED BY <2>2, <2>3
<1>5. ASSUME InsertIndex(w) PROVE TypeOK' /\ PlaceInv'
  <2> DEFINE k == call[w].record.key
  <2>1. k \in Keys /\ index[k] \in Offsets \cup {NONE}
    BY DEF TypeOK, Records, CallType
  <2>2. call[w].offset \in Offsets \cup {NONE}
    BY DEF TypeOK, CallType
  <2>3. PICK to \in {"f_lock", "p_unlock"} :
          /\ pc[w] = "p_insert" /\ pc' = [pc EXCEPT ![w] = to]
          /\ to = "f_lock" => index[k] # NONE
          /\ index' = [index EXCEPT ![k] = call[w].offset]
          /\ call' = [call EXCEPT ![w].offset = index[k]]
          /\ UNCHANGED <<poolVars, bitVars, free, data, placeVars, passVars, calls>>
    BY <1>5 DEF InsertIndex
  <2> HIDE DEF k
  <2>4. call' \in [Writers -> CallType]
    BY <2>1, <2>3, NewOffset DEF TypeOK
  <2>5. TypeOK'
    BY <2>1, <2>2, <2>3, <2>4 DEF TypeOK
  <2>6. call'[w].offset = index[k] /\ \A x \in Writers \ {w} : call'[x] = call[x]
    BY <2>1, <2>3, NewOffset DEF TypeOK
  <2>7. PlaceInv'
    BY <2>3, <2>6 DEF TypeOK, PlaceInv
  <2> QED BY <2>5, <2>7
<1>6. ASSUME FreeOccupiedSlot(w) PROVE TypeOK' /\ PlaceInv'
  <2>1. call[w].offset \in Offsets /\ call[w].record.key \in Keys
    BY <1>6 DEF FreeOccupiedSlot, TypeOK, PlaceInv, Records, CallType
  <2>2. call[w].offset.page \in Pages /\ call[w].offset.slot \in Slots
    BY <2>1 DEF Offsets
  <2>3. TypeOK'
    <3>1. index' \in [Keys -> Offsets \cup {NONE}]
      BY <1>6, <2>1 DEF FreeOccupiedSlot, TypeOK
    <3>2. free' \in [Pages -> SUBSET Slots] /\ used' \subseteq Pages
      BY <1>6, <2>2 DEF FreeOccupiedSlot, TypeOK
    <3> QED BY <1>6, <3>1, <3>2 DEF FreeOccupiedSlot, TypeOK
  <2>4. PlaceInv'
    BY <1>6 DEF FreeOccupiedSlot, TypeOK, PlaceInv
  <2> QED BY <2>3, <2>4
<1>7. ASSUME PutUnlock(w) PROVE TypeOK' /\ PlaceInv'
  <2>1. OwnPage(w) \in Pages
    BY <1>7 DEF PutUnlock, TypeOK, PlaceInv, OwnPage, Pages
  <2>2. TypeOK'
    BY <1>7, <2>1 DEF PutUnlock, TypeOK, Unlocked
  <2>3. PlaceInv'
    BY <1>7 DEF PutUnlock, TypeOK, PlaceInv
  <2> QED BY <2>2, <2>3
<1> QED BY <1>1, <1>2, <1>3, <1>4, <1>5, <1>6, <1>7 DEF PutSteps

(* What a client does outside of its calls. *)
LEMMA ClientTypes ==
    ASSUME TypeOK, PlaceInv, NEW c \in Clients,
           Open(c) \/ Close(c) \/ Start(c) \/ Return(c) \/ TriggerReclaim(c)
    PROVE  TypeOK' /\ PlaceInv'
<1> USE DEF poolVars, bitVars, slotVars, placeVars, passVars, GoTo
<1>0. /\ NumBlocks \in Nat \ {0} /\ NumPages \in Nat \ {0} /\ NumSlots \in Nat \ {0}
      /\ MaxCalls \in Nat /\ MaxPasses \in Nat
      /\ NONE \notin Blocks /\ NONE \notin Offsets
      /\ c \in Writers
  BY ReclaimAssumption, Writer
<1>1. NoCall \in CallType
  <2>1. ZeroRecord \in Records
    BY <1>0, ReclaimAssumption DEF ZeroRecord, Records
  <2> QED BY <2>1 DEF NoCall, CallType
<1>2. ASSUME Open(c) PROVE TypeOK' /\ PlaceInv'
  BY <1>2, <1>0 DEF Open, TypeOK, PlaceInv
<1>3. ASSUME Close(c) PROVE TypeOK' /\ PlaceInv'
  <2>1. 0 \in PageNumbers /\ 0 \in 0 .. NumPages
    BY <1>0 DEF PageNumbers
  <2>2. TypeOK'
    BY <1>3, <2>1, <1>0 DEF Close, Leave, TypeOK
  <2>3. PlaceInv'
    BY <1>3, <1>0 DEF Close, Leave, TypeOK, PlaceInv
  <2> QED BY <2>2, <2>3
<1>4. ASSUME Start(c) PROVE TypeOK' /\ PlaceInv'
  <2>1. calls' = calls + 1 /\ calls' \in 0 .. MaxCalls
    BY <1>4, <1>0 DEF Start, TypeOK
  <2>2. PICK k \in Keys :
          \/ /\ GoTo(c, "idle", "p_lock")
             /\ call' = [call EXCEPT ![c] =
                           [name |-> "put", record |-> [key |-> k, value |-> calls + 1],
                            delete_old |-> TRUE, offset |-> NONE]]
          \/ /\ index[k] # NONE
             /\ GoTo(c, "idle", "f_lock")
             /\ call' = [call EXCEPT ![c] =
                           [name |-> "remove", record |-> [key |-> k, value |-> 0],
                            delete_old |-> TRUE, offset |-> index[k]]]
    BY <1>4 DEF Start
  <2>3. [key |-> k, value |-> calls + 1] \in Records /\ [key |-> k, value |-> 0] \in Records
    BY <2>1, <1>0 DEF Records
  <2>4. k \in Keys /\ index[k] \in Offsets \cup {NONE}
    BY DEF TypeOK
  <2>5. PICK x \in CallType :
          /\ call' = [call EXCEPT ![c] = x]
          /\ \/ pc' = [pc EXCEPT ![c] = "p_lock"]
             \/ pc' = [pc EXCEPT ![c] = "f_lock"] /\ x.offset # NONE
    <3>1. CASE pc' = [pc EXCEPT ![c] = "p_lock"] /\ pc'[c] # "f_lock"
      <4> DEFINE x == [name |-> "put", record |-> [key |-> k, value |-> calls + 1],
                            delete_old |-> TRUE, offset |-> NONE]
      <4>1. x \in CallType
        BY <2>3 DEF CallType
      <4>2. call' = [call EXCEPT ![c] = x]
        BY <2>2, <3>1, <1>0 DEF TypeOK
      <4> QED BY <4>1, <4>2, <3>1
    <3>2. CASE ~(pc' = [pc EXCEPT ![c] = "p_lock"] /\ pc'[c] # "f_lock")
      <4> DEFINE x == [name |-> "remove", record |-> [key |-> k, value |-> 0],
                            delete_old |-> TRUE, offset |-> index[k]]
      <4>1. x \in CallType
        BY <2>3, <2>4 DEF CallType
      <4>2. call' = [call EXCEPT ![c] = x] /\ index[k] # NONE
            /\ pc' = [pc EXCEPT ![c] = "f_lock"]
        BY <2>2, <3>2, <1>0 DEF TypeOK
      <4> QED BY <4>1, <4>2
    <3> QED BY <3>1, <3>2
  <2>6. pc[c] = "idle" /\ UNCHANGED <<poolVars, bitVars, slotVars, placeVars, passVars>>
    BY <1>4 DEF Start
  <2>7. TypeOK'
    BY <1>0, <2>1, <2>5, <2>6 DEF TypeOK
  <2>8. call'[c] = x /\ \A d \in Writers \ {c} : call'[d] = call[d]
    BY <1>0, <2>5 DEF TypeOK
  <2>9. PlaceInv'
    BY <1>0, <2>5, <2>6, <2>8 DEF TypeOK, PlaceInv
  <2> QED BY <2>7, <2>9
<1>5. ASSUME Return(c) PROVE TypeOK' /\ PlaceInv'
  <2>1. TypeOK'
    BY <1>5, <1>0, <1>1 DEF Return, TypeOK
  <2>2. PlaceInv'
    BY <1>5, <1>0 DEF Return, TypeOK, PlaceInv
  <2> QED BY <2>1, <2>2
<1>6. ASSUME TriggerReclaim(c) PROVE TypeOK' /\ PlaceInv'
  <2>1. pass' = [at |-> "begin", max_block |-> 0, block |-> 0, page |-> 0, slot |-> 1]
    BY <1>6 DEF TriggerReclaim, NoPass
  <2>2. pass' \in PassType
    BY <2>1, <1>0 DEF PageNumbers, PassType
  <2>3. passes' \in 0 .. MaxPasses /\ is_reclaiming' \in BOOLEAN
    BY <1>6, <1>0 DEF TriggerReclaim, TypeOK
  <2>4. TypeOK'
    BY <1>6, <2>2, <2>3 DEF TriggerReclaim, TypeOK
  <2>5. PlaceInv'
    BY <1>6, <2>1 DEF TriggerReclaim, TypeOK, PlaceInv
  <2> QED BY <2>4, <2>5
<1> QED BY <1>2, <1>3, <1>4, <1>5, <1>6

(* What the reclaim thread does, but for the puts it makes. *)
PassStep ==
    \/ Begin \/ ScanBlock
    \/ CompactLock \/ CompactSlot \/ CompactFree \/ CompactUnlock
    \/ ClearHead \/ EnqueueBlock \/ EndPass

LEMMA PassTypes ==
    ASSUME TypeOK, PlaceInv, PassStep
    PROVE  TypeOK' /\ PlaceInv'
<1> USE DEF poolVars, bitVars, slotVars, placeVars, passVars, GoTo
<1>0. /\ NumBlocks \in Nat \ {0} /\ NumPages \in Nat \ {0} /\ NumSlots \in Nat \ {0}
      /\ NONE \notin Blocks /\ NONE \notin Offsets
      /\ Reclaimer \in Writers
  BY ReclaimAssumption, Writer
<1>p. pass \in PassType
  BY DEF TypeOK
<1>z. 0 \in PageNumbers /\ 1 \in 1 .. NumSlots + 1
  BY <1>0 DEF PageNumbers
<1>q. pass.at \in {"lock", "slot", "put", "clear", "enqueue"} =>
        pass.block \in Blocks /\ Page \in Pages
  BY <1>0, <1>p DEF PlaceInv, Blocks, Page, Pages, PassType
<1>c. NoCall \in CallType
  <2>1. ZeroRecord \in Records
    BY ReclaimAssumption DEF ZeroRecord, Records
  <2> QED BY <2>1 DEF NoCall, CallType
<1>1. ASSUME Begin PROVE TypeOK' /\ PlaceInv'
  <2>1. pass' \in PassType
    BY <1>1, <1>p DEF Begin, TypeOK, PassType
  <2>2. TypeOK'
    BY <1>1, <1>0, <2>1 DEF Begin, TypeOK
  <2>3. PlaceInv'
    BY <1>1, <1>0, <1>p DEF Begin, TypeOK, PlaceInv, PassType
  <2> QED BY <2>2, <2>3
<1>2. ASSUME ScanBlock PROVE TypeOK' /\ PlaceInv'
  <2>1. CASE Reclaimable(pass.block)
    <3>1. pass' = [pass EXCEPT !.at = "lock", !.page = 0]
      BY <1>2, <2>1 DEF ScanBlock
    <3>2. pass' \in PassType
      BY <1>p, <1>z, <3>1 DEF PassType
    <3>3. TypeOK'
      BY <1>2, <3>2 DEF ScanBlock, TypeOK
    <3>4. PlaceInv'
      BY <1>2, <3>1, <1>p DEF ScanBlock, TypeOK, PlaceInv, PassType
    <3> QED BY <3>3, <3>4
  <2>2. CASE ~Reclaimable(pass.block)
    <3>1. pass' = [pass EXCEPT !.block = @ + 1] /\ pass.at = "scan"
      BY <1>2, <2>2 DEF ScanBlock
    <3>2. pass' \in PassType
      BY <1>2, <1>p, <1>0, <3>1 DEF ScanBlock, PassType
    <3>3. TypeOK'
      BY <1>2, <3>2 DEF ScanBlock, TypeOK
    <3>4. PlaceInv'
      BY <1>2, <3>1, <1>p DEF ScanBlock, TypeOK, PlaceInv, PassType
    <3> QED BY <3>3, <3>4
  <2> QED BY <2>1, <2>2
<1>3. ASSUME CompactLock PROVE TypeOK' /\ PlaceInv'
  <2>1. pass' \in PassType
    BY <1>3, <1>p, <1>z DEF CompactLock, PassType
  <2>2. TypeOK'
    BY <1>3, <1>q, <2>1 DEF CompactLock, LockPage, TypeOK
  <2>3. PlaceInv'
    BY <1>3, <1>p, <1>0 DEF CompactLock, TypeOK, PlaceInv, PassType
  <2> QED BY <2>2, <2>3
<1>4. ASSUME CompactSlot PROVE TypeOK' /\ PlaceInv'
  <2>1. CASE SlotIsFree
    <3>1. pass' = [pass EXCEPT !.slot = @ + 1] /\ pass.at = "slot" /\ pass.slot \in Slots
      BY <1>4, <2>1 DEF CompactSlot
    <3>2. pass' \in PassType
      BY <1>p, <1>0, <3>1 DEF Slots, PassType
    <3>3. TypeOK'
      BY <1>4, <2>1, <3>2 DEF CompactSlot, TypeOK
    <3>4. PlaceInv'
      BY <1>4, <2>1, <3>1, <1>p DEF CompactSlot, TypeOK, PlaceInv, PassType
    <3> QED BY <3>3, <3>4
  <2>2. CASE ~SlotIsFree
    <3>1. /\ pass' = [pass EXCEPT !.at = "put"] /\ pass.at = "slot" /\ pass.slot \in Slots
          /\ pc[Reclaimer] = "idle" /\ pc' = [pc EXCEPT ![Reclaimer] = "p_lock"]
          /\ call' = [call EXCEPT ![Reclaimer] =
                          [name |-> "put", record |-> data[Page][pass.slot],
                           delete_old |-> FALSE, offset |-> NONE]]
          /\ UNCHANGED <<poolVars, bitVars, slotVars, placeVars, is_reclaiming, passes, calls>>
      BY <1>4, <2>2 DEF CompactSlot
    <3>2. data[Page][pass.slot] \in Records
      BY <1>q, <3>1 DEF TypeOK
    <3>3. [name |-> "put", record |-> data[Page][pass.slot],
           delete_old |-> FALSE, offset |-> NONE] \in CallType
      BY <3>2 DEF CallType
    <3>4. pass' \in PassType
      BY <1>p, <3>1 DEF PassType
    <3>5. TypeOK'
      BY <1>0, <3>1, <3>3, <3>4 DEF TypeOK
    <3>6. PlaceInv'
      BY <1>0, <1>p, <3>1 DEF TypeOK, PlaceInv, PassType
    <3> QED BY <3>5, <3>6
  <2> QED BY <2>1, <2>2
<1>5. ASSUME CompactFree PROVE TypeOK' /\ PlaceInv'
  <2>1. /\ pass.at = "put" /\ pass' = [pass EXCEPT !.at = "slot", !.slot = @ + 1]
        /\ pc[Reclaimer] = "end" /\ pc' = [pc EXCEPT ![Reclaimer] = "idle"]
        /\ call' = [call EXCEPT ![Reclaimer] = NoCall]
        /\ free' = [free EXCEPT ![Page] = @ \cup {pass.slot}]
        /\ UNCHANGED <<poolVars, bitVars, data, index, placeVars, is_reclaiming, passes, calls>>
    BY <1>5 DEF CompactFree
  <2>2. pass.slot \in Slots
    BY <2>1 DEF PlaceInv
  <2>3. pass' \in PassType
    <3>1. pass.slot + 1 \in 1 .. NumSlots + 1
      BY <1>0, <2>2 DEF Slots
    <3> QED BY <1>p, <2>1, <3>1 DEF PassType
  <2>4. free' \in [Pages -> SUBSET Slots]
    BY <1>q, <2>1, <2>2 DEF TypeOK
  <2>5. TypeOK'
    BY <1>0, <1>c, <2>1, <2>3, <2>4 DEF TypeOK
  <2>6. PlaceInv'
    BY <1>0, <1>p, <2>1 DEF TypeOK, PlaceInv, PassType
  <2> QED BY <2>5, <2>6
<1>6. ASSUME CompactUnlock PROVE TypeOK' /\ PlaceInv'
  <2>1. pass.at = "slot" /\ Page \in Pages
    BY <1>6, <1>q DEF CompactUnlock
  <2>2. \/ pass' = [pass EXCEPT !.at = "clear"]
        \/ pass.page # NumPages - 1 /\ pass' = [pass EXCEPT !.at = "lock", !.page = @ + 1]
    BY <1>6 DEF CompactUnlock, LastPage
  <2>3. pass' \in PassType
    <3>1. pass.page \in PageNumbers
      BY <1>p DEF PassType
    <3>2. pass.page # NumPages - 1 => pass.page + 1 \in PageNumbers
      BY <1>0, <3>1 DEF PageNumbers
    <3> QED BY <1>p, <2>2, <3>2 DEF PassType
  <2>4. TypeOK'
    BY <1>6, <2>1, <2>3 DEF CompactUnlock, Unlocked, TypeOK
  <2>5. PlaceInv'
    BY <1>6, <1>p, <2>1, <2>2 DEF CompactUnlock, TypeOK, PlaceInv, PassType
  <2> QED BY <2>4, <2>5
<1>7. ASSUME ClearHead PROVE TypeOK' /\ PlaceInv'
  BY <1>7, <1>p DEF ClearHead, At, TypeOK, PlaceInv, PassType
<1>8. ASSUME EnqueueBlock PROVE TypeOK' /\ PlaceInv'
  <2>1. /\ pass.at = "enqueue" /\ pass' = [pass EXCEPT !.at = "scan", !.block = @ + 1]
        /\ free_blocks' = [free_blocks EXCEPT ![pass.block] = @ + 1]
        /\ UNCHANGED <<current_block, bitVars, slotVars, placeVars, pc, call,
                   is_reclaiming, passes, calls>>
    BY <1>8 DEF EnqueueBlock
  <2>2. pass.block \in Blocks /\ pass.block + 1 \in 0 .. NumBlocks
    BY <1>0, <1>q, <2>1 DEF Blocks
  <2>3. pass' \in PassType
    BY <1>p, <2>1, <2>2 DEF PassType
  <2>4. free_blocks' \in [Blocks -> Nat]
    BY <2>1, <2>2 DEF TypeOK
  <2>5. TypeOK'
    BY <2>1, <2>3, <2>4 DEF TypeOK
  <2>6. PlaceInv'
    BY <1>p, <2>1 DEF TypeOK, PlaceInv, PassType
  <2> QED BY <2>5, <2>6
<1>9. ASSUME EndPass PROVE TypeOK' /\ PlaceInv'
  <2>1. CASE pass.at = "scan"
    <3>1. /\ Leave(Reclaimer) /\ pass' = [pass EXCEPT !.at = "end"]
          /\ UNCHANGED <<is_reclaiming, passes>>
      BY <1>9, <2>1 DEF EndPass
    <3>2. pass' \in PassType
      BY <1>p, <3>1 DEF PassType
    <3>3. 0 \in PageNumbers /\ 0 \in 0 .. NumPages
      BY <1>0 DEF PageNumbers
    <3>4. TypeOK'
      BY <1>0, <3>1, <3>2, <3>3 DEF Leave, TypeOK
    <3>5. PlaceInv'
      BY <1>0, <1>p, <3>1 DEF Leave, TypeOK, PlaceInv, PassType
    <3> QED BY <3>4, <3>5
  <2>2. CASE pass.at # "scan"
    <3>1. /\ pass' = NoPass /\ is_reclaiming' = FALSE
          /\ UNCHANGED <<poolVars, bitVars, slotVars, placeVars, pc, call, passes, calls>>
      BY <1>9, <2>2 DEF EndPass, DoneReclaiming
    <3>2. pass' \in PassType
      BY <1>0, <3>1 DEF NoPass, PageNumbers, PassType
    <3>3. TypeOK'
      BY <3>1, <3>2 DEF TypeOK
    <3>4. PlaceInv'
      BY <3>1 DEF NoPass, TypeOK, PlaceInv
    <3> QED BY <3>3, <3>4
  <2> QED BY <2>1, <2>2
<1> QED BY <1>1, <1>2, <1>3, <1>4, <1>5, <1>6, <1>7, <1>8, <1>9 DEF PassStep

(* The steps of the system, by who makes them. *)
LEMMA NextCases ==
    ASSUME [Next]_vars
    PROVE  \/ \E c \in Clients : Open(c) \/ Close(c) \/ Start(c) \/ Return(c) \/ TriggerReclaim(c)
           \/ \E w \in Writers : PutSteps(w)
           \/ PassStep
           \/ UNCHANGED vars
  BY Writer DEF Next, ClientStep, ReclaimStep, PassStep, Finished

LEMMA ReclaimTypesStep == TypeOK /\ PlaceInv /\ [Next]_vars => TypeOK' /\ PlaceInv'
<1> SUFFICES ASSUME TypeOK, PlaceInv, [Next]_vars PROVE TypeOK' /\ PlaceInv'
  OBVIOUS
<1>1. ASSUME UNCHANGED vars PROVE TypeOK' /\ PlaceInv'
  BY <1>1 DEF vars, poolVars, bitVars, slotVars, placeVars, passVars, TypeOK, PlaceInv
<1> QED BY <1>1, NextCases, PutTypes, ClientTypes, PassTypes

(* Reclamation keeps the types, for any numbers of clients, blocks, pages, *)
(* slots, calls and passes, whether or not calls run into a pass: the      *)
(* offsets and pages that compact and the clients use exist.               *)
THEOREM ReclaimTypes == Spec => []TypeOK
<1>1. Init => TypeOK /\ PlaceInv
  BY ReclaimTypesInit
<1>2. (TypeOK /\ PlaceInv) /\ [Next]_vars => (TypeOK /\ PlaceInv)'
  BY ReclaimTypesStep
<1>3. QED BY <1>1, <1>2, PTL DEF Spec

=============================================================================
