------------------------------ MODULE FileMap ------------------------------
(***************************************************************************)
(* What file_layer promises about the data blocks of files, with no word   *)
(* about inodes and indirect blocks: each file is a sequence of data       *)
(* blocks, no two of which are the same, that only changes at its end.     *)
(* When a file is deleted, one block of its directory may go as well, and  *)
(* the last block of the directory takes its place.  Once a block was freed*)
(* that was in use elsewhere nothing is promised any more.                 *)
(***************************************************************************)
EXTENDS Integers, Sequences

CONSTANTS Blocks, Files, Dirs

VARIABLES
    fblocks,  \* the data blocks of each file
    sound     \* FALSE from the step on that frees a wrong block

vars == <<fblocks, sound>>

TypeOK == sound => fblocks \in [Files -> Seq(Blocks)]

Init == fblocks = [f \in Files |-> <<>>] /\ sound = TRUE

Used == UNION {{fblocks[f][i] : i \in DOMAIN fblocks[f]} : f \in Files}

Distinct(s) == \A i, j \in DOMAIN s : s[i] = s[j] => i = j

Grow(f) ==
    /\ Len(fblocks'[f]) > Len(fblocks[f])
    /\ SubSeq(fblocks'[f], 1, Len(fblocks[f])) = fblocks[f]
    /\ Distinct(fblocks'[f])
    /\ \A i \in Len(fblocks[f]) + 1 .. Len(fblocks'[f]) : fblocks'[f][i] \in Blocks \ Used
    /\ fblocks' = [fblocks EXCEPT ![f] = fblocks'[f]]

Cut(f) == \E n \in 0 .. Len(fblocks[f]) : fblocks' = [fblocks EXCEPT ![f] = SubSeq(@, 1, n)]

\* A file goes, and with it a block of the directory it was in.
Delete(f, d) ==
    LET s == fblocks[d]
        last == Len(s)
    IN  \E n \in 1 .. last :
           fblocks' = [fblocks EXCEPT ![f] = <<>>, ![d] = SubSeq([s EXCEPT ![n] = s[last]], 1, last - 1)]

\* The step that frees a wrong block, and any step after it.
Broken == ~ sound'

Next ==
    \/ /\ \E f \in Files : Grow(f) \/ Cut(f) \/ \E d \in Dirs \ {f} : Delete(f, d)
       /\ UNCHANGED sound
    \/ Broken

Spec == Init /\ [][Next]_vars
=============================================================================
