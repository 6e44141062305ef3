----------------------------- MODULE MCCursor -----------------------------
(***************************************************************************)
(* Cursor for TLC.  The whole state is kept, page names and references     *)
(* included: a loop that comes back to a leaf has to be told from one that *)
(* goes on to another, and no view of the state is sound for liveness.     *)
(***************************************************************************)
EXTENDS Cursor
============================================================================
