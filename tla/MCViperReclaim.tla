--------------------------- MODULE MCViperReclaim ---------------------------
(* A few blocks of two pages of one slot, one client.                     *)
EXTENDS ViperReclaimStrays

\* Constraint: the properties say nothing of the states after a pass has
\* strayed, and stray is never reset.
NotYetStray == ~stray
=============================================================================
