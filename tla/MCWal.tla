------------------------------- MODULE MCWal -------------------------------
(***************************************************************************)
(* The layout in small: a header of 4 bytes, prefixes of 2, bodies of 4 or *)
(* 6, alignment to 4.  A record of 8 bytes needs no padding, one of 6      *)
(* does; the buffer takes one of each, and not two of the longer ones; the *)
(* file takes two flushes, and a second process appends behind a first.    *)
(***************************************************************************)
EXTENDS Wal
=============================================================================
