------------------------------ MODULE MCXIndex ------------------------------
(* Calls of the workers of XIndex, and what is loaded first.               *)
EXTENDS XIndexMap, TLC

CONSTANTS a, b

AllKeys == {1, 2, 3}
Numbers == {1, 2}

TwoGroups == <<(1 :> 1) @@ (2 :> 1), 3 :> 1>>
OneGroup == <<(1 :> 1) @@ (3 :> 1)>>
HighGroup == <<3 :> 1>>

Can(names, keys, values) == [name : names, key : keys, value : values]

\* One worker writes a key, which a split moves to the second group, and
\* the other reads it.
OneWriter(w) == IF w = a THEN Can({"put", "remove"}, {2}, {2}) ELSE Can({"get"}, {2}, {2})

\* Both put a key that was not loaded.
BothPut(w) == Can({"put"}, {2}, {1})

\* Keys below the first pivot.
PutLow(w) == Can({"put"}, {1, 2}, {1})
=============================================================================
