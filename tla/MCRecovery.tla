---------------------------- MODULE MCRecovery ----------------------------
(***************************************************************************)
(* Recovery of all logs of a few records; keys and references are          *)
(* interchangeable.                                                        *)
(***************************************************************************)
EXTENDS Recovery, TLC

Symmetry == Permutations(Keys) \cup Permutations(Values)
=============================================================================
