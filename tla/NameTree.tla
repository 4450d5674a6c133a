------------------------------ MODULE NameTree ------------------------------
(***************************************************************************)
(* What file_layer promises about names, with no word about inodes, records*)
(* or the path cache: a tree in which every name stands for one object,    *)
(* which gets a number never used before, keeps it and its kind, and goes  *)
(* only when nothing is below it.  A directory for which there is no room  *)
(* may leave its name behind with an object of no kind.  Once a directory  *)
(* that is gone was used nothing is promised any more.                     *)
(***************************************************************************)
EXTENDS Integers, Sequences, SequencesExt

CONSTANTS
    Paths,    \* sequences of names
    Root      \* the number of the root

VARIABLES
    tree,     \* what each path stands for: a number, 0 for nothing, and a kind
    taken,    \* the numbers that were ever used
    sound     \* FALSE from the step on that uses a directory that is gone

vars == <<tree, taken, sound>>

Absent == [num |-> 0, kind |-> "none"]

TypeOK == sound => tree \in [Paths -> [num : {0} \cup taken, kind : {"none", "file", "dir"}]]

Init == tree = [p \in Paths |-> Absent] /\ taken = {Root} /\ sound = TRUE

IsDir(p) == p = <<>> \/ (p \in Paths /\ tree[p].kind = "dir")

Create(p) ==
    /\ tree[p] = Absent /\ IsDir(Front(p))
    /\ \E n \in taken' \ taken, k \in {"none", "file", "dir"} :
          tree' = [tree EXCEPT ![p] = [num |-> n, kind |-> k]]

Delete(p) ==
    /\ tree[p] # Absent
    /\ \A q \in Paths : Len(q) = Len(p) + 1 /\ Front(q) = p => tree[q] = Absent
    /\ tree' = [tree EXCEPT ![p] = Absent]

\* A creation that fails may use up a number.
Refuse == UNCHANGED tree

Broken == ~ sound'

Next ==
    \/ /\ Refuse \/ \E p \in Paths : Create(p) \/ Delete(p)
       /\ taken \subseteq taken'
       /\ UNCHANGED sound
    \/ Broken

Spec == Init /\ [][Next]_vars
=============================================================================
