------------------------- MODULE MCViperStoreFrees -------------------------
(* The programs of MCViperStore for ViperStore with its record of stale    *)
(* offsets.                                                                *)
EXTENDS MCViperStore, ViperStoreFrees
=============================================================================
