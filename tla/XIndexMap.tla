------------------------------ MODULE XIndexMap ------------------------------
(***************************************************************************)
(* XIndex with two history variables, and the map it implements: the value *)
(* of a key is what a get that begins now and is not disturbed returns.  A *)
(* put and a remove take effect when they write a record.                  *)
(***************************************************************************)
EXTENDS XIndex

VARIABLES
    value,  \* the value of every key
    seen    \* values the key of each worker's call has had since it began

(* The group that locate_group finds for a key whose slot has this group,  *)
(* and what a get finds in it.                                             *)
Onward(head, k) ==
    IF group[head].next # NONE /\ group[group[head].next].pivot <= k THEN group[head].next ELSE head

GroupsOf(k) == {Onward(roots[root][j].group, k) : j \in SlotsOf(roots[root], k)}

ValueIn(g, k) ==
    IF IsLive(g.array, k) THEN Reads(g.array, k).val
    ELSE IF IsLive(g.buffer, k) THEN Reads(g.buffer, k).val
    ELSE IF g.buffer_temp # NONE /\ IsLive(g.buffer_temp, k) THEN Reads(g.buffer_temp, k).val
    ELSE NONE

Current(k) == CHOOSE v \in {ValueIn(group[g], k) : g \in GroupsOf(k)} : TRUE

MapInit ==
    /\ Init
    /\ value = [k \in Keys |-> Current(k)]
    /\ seen = [w \in Workers |-> {}]

MapNext ==
    /\ Next
    /\ value' = [k \in Keys |-> Current(k)']
    /\ seen' = [w \in Workers |-> IF pc'[w] = "idle" THEN {} ELSE seen[w] \cup {value'[Key(w)']}]

MapSpec == MapInit /\ [][MapNext]_<<vars, value, seen>> /\ Fairness

Always(new) == TRUE

Map == INSTANCE KVStore WITH
          Clients <- Workers,
          Missing <- NONE,
          PutAnswer <- Always,
          map <- value,
          request <- [w \in Workers |->
                        IF pc[w] = "idle" THEN [name |-> "none", key |-> NONE, value |-> NONE]
                        ELSE [name |-> call[w].name, key |-> Key(w), value |-> call[w].value]],
          applied <- [w \in Workers |-> pc[w] = "return"],
          result <- [w \in Workers |->
                        IF pc[w] = "return" THEN [ok |-> TRUE, value |-> NONE] ELSE result[w]]

(* The index is a map, whatever the background thread does meanwhile: no   *)
(* adjustment changes the value of a key, a put or a remove that a worker  *)
(* was told has succeeded has taken effect once, and every get returns a   *)
(* value its key had, or says it had none, at some moment of the call.     *)
ImplementsMap == Map!Spec
=============================================================================
