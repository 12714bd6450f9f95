-------------------------- MODULE ViperStoreHistory --------------------------
(***************************************************************************)
(* ViperStore with one history variable, and the map it implements: the    *)
(* value of a key is the value in the slot the index has for it.  A put    *)
(* takes effect when it exchanges the offset in the index, an update when  *)
(* it writes the slot, a remove when it clears the index.                  *)
(***************************************************************************)
EXTENDS ViperStore

VARIABLE seen   \* values the key of each client's call has had since it began

Current(k) == IF index[k] = NONE THEN NONE ELSE RecordAt(index[k]).value

HistoryInit == Init /\ seen = [c \in Clients |-> {}]

HistoryNext ==
    /\ Next
    /\ seen' = [c \in Clients |-> IF pc'[c] = "idle" THEN {}
                                  ELSE seen[c] \cup {Current(call[c].key)'}]

HistorySpec == HistoryInit /\ [][HistoryNext]_<<vars, seen>>

Applied(c) ==
    \/ Is(c, "put") /\ pc[c] \in {"p_unlock", "f_start", "f_cas", "f_queue", "f_scan",
                                  "f_dequeue", "f_erase", "f_unlock", "f_end"}
    \/ Is(c, "update") /\ pc[c] = "u_unlock"
    \/ Is(c, "remove") /\ pc[c] \in {"f_dequeue", "f_erase", "f_unlock", "f_end"}

AppliedResult(c) ==
    IF pc[c] # "idle" /\ Applied(c)
    THEN [ok |-> IF Is(c, "put") THEN loc[c].is_new ELSE TRUE, value |-> NONE]
    ELSE result[c]

AMap == [k \in Keys |-> Current(k)]
ARequest ==
    [c \in Clients |->
        IF pc[c] = "idle" THEN [name |-> "none", key |-> NONE, value |-> NONE]
        ELSE [name |-> call[c].name, key |-> call[c].key, value |-> Value(c)]]

AApplied == [c \in Clients |-> pc[c] # "idle" /\ Applied(c)]
AResult == [c \in Clients |-> AppliedResult(c)]

IsNew(new) == new

Map == INSTANCE KVStore WITH
          PutAnswer <- IsNew,
          Missing <- NONE,
          map <- AMap,
          request <- ARequest,
          applied <- AApplied,
          result <- AResult

(* The store implements the map: every step of every call is one step of   *)
(* KVStore or changes nothing a client can see, no call takes effect       *)
(* twice, and every answer is the one the map gives.                       *)
ImplementsMap == Map!Spec

(* get's comment: "If the item was found, `value` will contain the found   *)
(* entry", a value the key had at some moment of the call.                 *)
GetReturnsFoundEntry ==
    [][\A c \in Clients :
          /\ pc[c] = "g_read" /\ pc'[c] = "idle"
          => result'[c].value \in seen[c]]_<<vars, seen>>
=============================================================================
