---------------------------- MODULE MCDatabase ----------------------------
(***************************************************************************)
(* Database with a few interchangeable keys.                               *)
(***************************************************************************)
EXTENDS Database, TLC

KeySymmetry == Permutations(Keys)
=============================================================================
