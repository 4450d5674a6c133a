----------------------------- MODULE MCFileData -----------------------------
(***************************************************************************)
(* An instance of FileData for TLC: the bytes of a payload are all         *)
(* different, so that a byte at the wrong place shows.                     *)
(***************************************************************************)
EXTENDS FileData

MCPayloads == {<<1>>, <<1, 2, 3, 4>>}
=============================================================================
