----------------------------- MODULE MCLruCache -----------------------------
(***************************************************************************)
(* Instances of LruCache for TLC.  Apart puts every key into a bucket of   *)
(* its own; Together puts all keys into one, as happens to some of the     *)
(* paths when there are a few hundred.                                     *)
(***************************************************************************)
EXTENDS LruCache, TLC

CONSTANTS A, B, C, n1, n2, n3, n4

MCKeys == {A, B, C}
MCNodes == {n1, n2, n3, n4}
Apart == (A :> 0) @@ (B :> 1) @@ (C :> 2)
Together == [k \in MCKeys |-> 0]
=============================================================================
