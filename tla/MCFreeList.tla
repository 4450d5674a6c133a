----------------------------- MODULE MCFreeList -----------------------------
(***************************************************************************)
(* Instances of FreeList for TLC.  GARBAGE is a word of caller data that   *)
(* is no block number: what a list block holds once a caller has written   *)
(* over it.                                                                *)
(***************************************************************************)
EXTENDS FreeList

GARBAGE == 99
MCClientWords == {0, GARBAGE}
=============================================================================
