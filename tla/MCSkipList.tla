----------------------------- MODULE MCSkipList -----------------------------
(* SkipList with the clients named. *)
EXTENDS SkipList

CONSTANTS w, r
=============================================================================
