---------------------------- MODULE MCFreeSpaceMap ----------------------------
(***************************************************************************)
(* Seven managed pages: up to four disjoint, non-adjacent free extents, and *)
(* ranges that cover two of them and parts of their neighbours.            *)
(***************************************************************************)
EXTENDS FreeSpaceMap
=============================================================================
