-------------------------- MODULE MCViperStoreMap --------------------------
(* The programs of MCViperStore for ViperStore with its history variable.  *)
EXTENDS MCViperStore, ViperStoreHistory
=============================================================================
