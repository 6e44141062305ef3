----------------------------- MODULE MCPageFile -----------------------------
(***************************************************************************)
(* The data file with two pages and two contents: enough for a page to be  *)
(* overwritten, torn between two contents, and cut behind another one.     *)
(***************************************************************************)
EXTENDS PageFile

MCPageIds == {0, 1}
MCMarks == {"a", "b"}
=============================================================================
