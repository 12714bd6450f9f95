----------------------------- MODULE MCViperPool -----------------------------
(* Two clients that use up a pool with a block of headroom for each above  *)
(* the resize threshold: they run out of it only if the resize is late.    *)
EXTENDS ViperPool, FiniteSets

ASSUME Headroom ==
    100 * InitialBlocks >= Threshold * InitialBlocks + 100 * (Cardinality(Clients) + 1)
=============================================================================
