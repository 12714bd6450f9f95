---------------------------- MODULE MCDynamicPGM ----------------------------
(* Instances of DynamicPGM: a first level of three items. *)
EXTENDS DynamicPGM, TLC

CONSTANTS p1, p2

PayloadPair == {p1, p2}

\* Key 1 is put and erased, 2 is put with the payload it is not loaded with, 3
\* is erased, 4 and 5 are put: with five items a merge passes over a full level.
Some == {<<1, p1>>, <<1, Deleted>>, <<2, p2>>, <<3, Deleted>>, <<4, p1>>, <<5, p1>>}

\* The index starts empty, or from all keys.
NoneOrAll == {{}, Keys}

=============================================================================
