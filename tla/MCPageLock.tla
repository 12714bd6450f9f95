----------------------------- MODULE MCPageLock -----------------------------
(* Two clients that write one page, one of them the owner of its block, and *)
(* one client that reads it.                                               *)
EXTENDS PageLock
=============================================================================
