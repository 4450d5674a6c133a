----------------------------- MODULE DirRecords -----------------------------
(***************************************************************************)
(* The records inside the blocks of a directory.  A record is an inode     *)
(* number, the length to the next record, and a name; its length also      *)
(* covers the bytes that are free behind it.  An image maps the positions  *)
(* of a block at which a record was written to that record, records that   *)
(* no search reaches any more included; everywhere else it holds zeros.    *)
(***************************************************************************)
EXTENDS Integers, Sequences, FiniteSetsExt

CONSTANTS
    BLOCK_SIZE,
    Header,     \* INODE_SZ + ADDRESS_PTR_SZ + STRING_LENGTH_SZ
    NameLen     \* the length of every name, "." and ".." included

ASSUME RecordAssumption ==
    /\ BLOCK_SIZE \in Nat /\ Header \in Nat \ {0}
    /\ \A n \in DOMAIN NameLen : NameLen[n] \in Nat \ {0} /\ Header + NameLen[n] <= BLOCK_SIZE
    /\ {".", ".."} \subseteq DOMAIN NameLen

NameSet == DOMAIN NameLen
Record(inum, len, name) == [inum |-> inum, len |-> len, name |-> name]
Size(name) == Header + NameLen[name]
Extent(img, p) == p .. p + Size(img[p].name) - 1

EmptyImage == [p \in {} |-> Record(0, 0, ".")]
Lone(inum, name) == [p \in {0} |-> Record(inum, BLOCK_SIZE, name)]

\* A record is written over whatever records its bytes overlap.
Put(img, p, r) ==
    LET over == {q \in DOMAIN img : Extent(img, q) \cap (p .. p + Size(r.name) - 1) # {}}
    IN  [q \in (DOMAIN img \ over) \cup {p} |-> IF q = p THEN r ELSE img[q]]

SetLen(img, p, len) == [img EXCEPT ![p].len = len]

\* The positions a search visits: it stops behind the block, or at zeros.
Positions(img) ==
    LET from[p \in 0 .. BLOCK_SIZE] ==
            IF p \notin DOMAIN img THEN <<>>
            ELSE <<p>> \o (IF img[p].len <= 0 THEN <<>> ELSE from[Min({p + img[p].len, BLOCK_SIZE})])
    IN  from[0]

\* Where the search ends.
EndOf(img) ==
    LET s == Positions(img) IN IF s = <<>> THEN 0 ELSE s[Len(s)] + img[s[Len(s)]].len

Reached(img) == {Positions(img)[j] : j \in DOMAIN Positions(img)}

\* Mutant: a search that comes to the end of the block counts as broken off.
BrokenOffMutant(img) == EndOf(img) <= BLOCK_SIZE
\* find_file gives up at a record whose length is not positive.
BrokenOff(img) == EndOf(img) < BLOCK_SIZE

(* find_file in the images of a directory's blocks: the block, the         *)
(* position and the position of the record before, -1 for none.  A search  *)
(* broken off in one block ends the search of all.                         *)
FindFile(imgs, name) ==
    LET there(i) == {j \in DOMAIN Positions(imgs[i]) : imgs[i][Positions(imgs[i])[j]].name = name}
        hits == {i \in DOMAIN imgs : there(i) # {} /\ \A k \in 1 .. i - 1 : ~ BrokenOff(imgs[k])}
        spot(i, s, j) == [block |-> i, pos |-> s[j], prev |-> IF j = 1 THEN -1 ELSE s[j - 1]]
        first(i) == spot(i, Positions(imgs[i]), Min(there(i)))
    IN  IF hits = {} THEN [block |-> 0, pos |-> -1, prev |-> -1] ELSE first(Min(hits))

\* The records charm_readdir passes on.
Listing(imgs) == UNION {{imgs[i][p] : p \in Reached(imgs[i])} : i \in DOMAIN imgs}

\* Mutant: the number of blocks does not matter.
IsEmptyDirMutant(imgs) ==
    LET up == FindFile(imgs, "..") IN up.pos # -1 /\ up.pos + imgs[1][up.pos].len = BLOCK_SIZE

(* is_empty_dir: one block at most, in which ".." is the last record.      *)
IsEmptyDir(imgs) ==
    LET up == FindFile(imgs, "..")
    IN  Len(imgs) <= 1 /\ up.pos # -1 /\ up.pos + imgs[1][up.pos].len = BLOCK_SIZE

(* add_new_entry within one block: the first record with enough room behind*)
(* its name gives it away.                                                 *)
Room(img, name) == {p \in Reached(img) : img[p].len - Size(img[p].name) >= Size(name)}

\* Mutant: the record that gives room away keeps its length.
SplitMutant(img, inum, name) ==
    LET p == Min(Room(img, name))
        own == Size(img[p].name)
    IN  Put(img, p + own, Record(inum, img[p].len - own, name))

Split(img, inum, name) ==
    LET p == Min(Room(img, name))
        own == Size(img[p].name)
    IN  Put(SetLen(img, p, own), p + own, Record(inum, img[p].len - own, name))

(* The removal of the record at p in custom_unlink: the record before takes*)
(* over its bytes; or the next record moves to the front of the block.     *)
Merge(img, p, prev) == SetLen(img, prev, img[prev].len + img[p].len)

MoveUpMutant(img) ==  \* the moved record keeps its length
    Put(img, 0, img[img[0].len])
MoveUp(img) ==
    LET next == img[img[0].len]
    IN  Put(img, 0, [next EXCEPT !.len = @ + img[0].len])

(* Records follow one another to the end of the block without a gap, and   *)
(* each has room for its name.                                             *)
Tiled(img) ==
    /\ EndOf(img) = BLOCK_SIZE
    /\ \A p \in Reached(img) : img[p].len >= Size(img[p].name)
=============================================================================
