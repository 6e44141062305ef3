--------------------------- MODULE MCPageAllocator ---------------------------
(***************************************************************************)
(* Two reserved pages and four data pages; counters modulo 8, so that the  *)
(* lifetime counters wrap and the state space is finite without a bound.   *)
(***************************************************************************)
EXTENDS PageAllocator
=============================================================================
