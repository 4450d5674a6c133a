----------------------------- MODULE MCThreads ------------------------------
(***************************************************************************)
(* Instances of Threads for TLC.  Of data blocks 2 to 5, blocks 2 and 4 are*)
(* list blocks and 3 and 5 their entries.                                  *)
(***************************************************************************)
EXTENDS Threads, TLC

CONSTANTS t1, t2, t3

Alike == Permutations(Threads)
=============================================================================
