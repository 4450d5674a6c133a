---------------------------- MODULE MCNamespace -----------------------------
(***************************************************************************)
(* Instances of Namespace for TLC.  The records of "a" and "b" take 4 and 5*)
(* bytes, as those of "." and "..", and that of "c" takes 9.  A block of 14*)
(* has room for ".", ".." and "a" or "b", or for "c" and "a" or "b"; so    *)
(* three names in the right order make a directory of three blocks.        *)
(***************************************************************************)
EXTENDS Namespace, TLC

CONSTANTS b1, b2, b3, b4, b5, b6

MCNameLen == (".":> 1) @@ (".." :> 2) @@ ("a" :> 1) @@ ("b" :> 2) @@ ("c" :> 6)
MCPaths == {<<"a">>, <<"b">>, <<"c">>, <<"a", "b">>, <<"a", "c">>}
TwoDirs == {<<"a">>, <<"c">>, <<"a", "b">>, <<"c", "b">>}
Exchangeable == Permutations(Blocks)
=============================================================================
