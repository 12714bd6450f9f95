------------------------------- MODULE KVStore -------------------------------
(***************************************************************************)
(* What Viper promises its clients (the comments of put, get, update and   *)
(* remove in include/viper/viper.hpp), and XIndex its workers: a map from  *)
(* keys to values on which every call takes effect at one moment between   *)
(* its request and its answer.  A get that finds the key returns a value   *)
(* the key had at some moment of the call, and one that does not, a moment *)
(* at which it had none.  Viper's put tells whether the key was absent     *)
(* when it took effect.                                                    *)
(***************************************************************************)
CONSTANTS
    Clients, Keys, Values, Missing,
    PutAnswer(_)    \* put's answer, given whether the key was new

VARIABLES
    map,        \* the value of every key, or Missing
    request,    \* the call each client waits for, or NoRequest
    applied,    \* it has taken effect
    seen,       \* values its key has had since it was requested
    result      \* the last answer of each client

vars == <<map, request, applied, seen, result>>

Names == {"put", "get", "update", "remove"}
NoRequest == [name |-> "none", key |-> Missing, value |-> Missing]

Init ==
    /\ map \in [Keys -> Values \cup {Missing}]
    /\ request = [c \in Clients |-> NoRequest]
    /\ applied = [c \in Clients |-> FALSE]
    /\ seen = [c \in Clients |-> {}]
    /\ result = [c \in Clients |-> [ok |-> FALSE, value |-> Missing]]

(* What every waiting client sees of the map after a step. *)
Observe ==
    seen' = [c \in Clients |-> IF request'[c] = NoRequest THEN {}
                               ELSE seen[c] \cup {map'[request'[c].key]}]

Request(c) ==
    /\ request[c] = NoRequest
    /\ request'[c] \in [name : Names, key : Keys, value : Values]
    /\ request' = [request EXCEPT ![c] = request'[c]]
    /\ result' = [result EXCEPT ![c] = [ok |-> FALSE, value |-> Missing]]
    /\ UNCHANGED <<map, applied>>

(* A call takes effect at most once, while its client waits. *)
Apply(c, name, value) ==
    /\ request[c].name = name /\ ~applied[c]
    /\ map' = [map EXCEPT ![request[c].key] = value]
    /\ applied' = [applied EXCEPT ![c] = TRUE]
    /\ UNCHANGED request

ApplyPut(c) ==
    /\ Apply(c, "put", request[c].value)
    /\ result' = [result EXCEPT ![c].ok = PutAnswer(map[request[c].key] = Missing)]

ApplyUpdate(c) ==
    /\ Apply(c, "update", request[c].value)
    /\ map[request[c].key] # Missing
    /\ result' = [result EXCEPT ![c].ok = TRUE]

ApplyRemove(c) ==
    /\ Apply(c, "remove", Missing)
    /\ map[request[c].key] # Missing
    /\ result' = [result EXCEPT ![c].ok = TRUE]

Answer(c) ==
    /\ request' = [request EXCEPT ![c] = NoRequest]
    /\ applied' = [applied EXCEPT ![c] = FALSE]
    /\ UNCHANGED map

Answered(c) == applied[c] /\ Answer(c) /\ UNCHANGED result

NotFound(c) ==
    /\ request[c].name \in {"get", "update", "remove"} /\ ~applied[c]
    /\ Missing \in seen[c]
    /\ Answer(c) /\ UNCHANGED result

Found(c) ==
    /\ request[c].name = "get"
    /\ \E v \in seen[c] \ {Missing} :
          result' = [result EXCEPT ![c] = [ok |-> TRUE, value |-> v]]
    /\ Answer(c)

Next ==
    /\ \E c \in Clients :
          \/ Request(c) \/ ApplyPut(c) \/ ApplyUpdate(c) \/ ApplyRemove(c)
          \/ Answered(c) \/ NotFound(c) \/ Found(c)
    /\ Observe

Spec == Init /\ [][Next]_vars
=============================================================================
