---------------------------- MODULE MCFileBlocks ----------------------------
(***************************************************************************)
(* Instances of FileBlocks for TLC: two direct blocks, two block numbers   *)
(* per block and two bytes per block, so that the direct region ends at    *)
(* block 2, the single indirect one at 4, the double indirect one at 8 and *)
(* the triple indirect one at 16.                                          *)
(***************************************************************************)
EXTENDS FileBlocks

CONSTANTS FileA, Dir
=============================================================================
