----------------------------- MODULE BlockPool -----------------------------
(***************************************************************************)
(* What block_layer promises its callers about data blocks, with no word   *)
(* about how free blocks are recorded on the device: a block is free or    *)
(* held by a caller, never both; create_new_dblock hands out some free     *)
(* block; free_dblock takes a held one back.  Where the device can fail, a *)
(* free block may become unreachable for good.  Once the pool is corrupt   *)
(* nothing is promised any more.                                           *)
(***************************************************************************)
CONSTANTS
    Blocks,     \* the data blocks of the device
    Fallible    \* TRUE when an I/O error may lose a free block

VARIABLES
    free,       \* blocks create_new_dblock may hand out
    held,       \* blocks handed out and not yet given back
    sound       \* FALSE from the event on that corrupts the pool

vars == <<free, held, sound>>

TypeOK == sound => free \in SUBSET Blocks /\ held \in SUBSET Blocks

Init == free = Blocks /\ held = {} /\ sound = TRUE

Alloc ==
    /\ \E b \in free : free' = free \ {b} /\ held' = held \cup {b}
    /\ UNCHANGED sound

Release ==
    /\ \E b \in held : held' = held \ {b} /\ free' = free \cup {b}
    /\ UNCHANGED sound

Lose ==
    /\ Fallible
    /\ \E b \in free : free' = free \ {b}
    /\ UNCHANGED <<held, sound>>

\* The step that corrupts the pool, and any step after it.
Corrupt == ~ sound'

Next == Alloc \/ Release \/ Lose \/ Corrupt

Spec == Init /\ [][Next]_vars

(* No block is free while a caller still uses it. *)
Exclusive == sound => free \cap held = {}
=============================================================================
