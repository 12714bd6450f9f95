---------------------------- MODULE MCFITingTree ----------------------------
(* Instances of FITingTree: keys below, between and above the loaded ones. *)
EXTENDS FITingTree

CONSTANTS p1, p2

PayloadPair == {p1, p2}

LoadedKeys == <<3, 6>>

\* One payload reads as the key 8, which may be below a key that goes into the
\* tree, the other as a key above all.
ReadAsKey == [p \in PayloadPair |-> IF p = p1 THEN 8 ELSE 10]

\* Constraint: the properties say nothing of the states after a misread, and a
\* misread is never undone.
NotYetMisread == ~misread

\* The search of a leaf's array, on its own: in arrays of up to 12 records it
\* ends at the key or, when the array does not hold it, next to its place, for
\* every error up to 8 (EPSILON of parameters.h) and every prediction within.
ASSUME SearchEndsAtTheKey ==
  \A size \in 1 .. 12, extra \in 0 .. 8 - EPSILON :
    LET leaf == [NewLeaf([i \in 1 .. size |-> Record(2 * i, p1)]) EXCEPT !.inserted = extra]
    IN  \A key \in 1 .. 2 * size + 1 : \A predicted \in Predicted(leaf, key) :
          2 * PrecisePosition(leaf, key, predicted) \in key - 1 .. key + 1

=============================================================================
