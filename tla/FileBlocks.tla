----------------------------- MODULE FileBlocks -----------------------------
(***************************************************************************)
(* The blocks of files and directories: the tree of direct, single, double *)
(* and triple indirect blocks that file_layer.c grows (custom_write,       *)
(* add_new_entry), cuts (custom_truncate) and gives back (free_inode).     *)
(*                                                                         *)
(* The free blocks are a set, which is what FreeList implements: taking a  *)
(* block removes some free block full of zeros, freeing one zeroes it and  *)
(* puts it back.  Who took a block is remembered, and the model stops when *)
(* the free list is no longer a set of unused blocks: at the first block   *)
(* that is given back while it is free or another file's, and at the first *)
(* one that is given back when no block is free, which becomes the head of *)
(* the list and an entry of itself (FreeIntoExhausted of FreeList).  It    *)
(* also stops after a cut that reads an index block past its end.          *)
(***************************************************************************)
EXTENDS Integers, Sequences, FiniteSetsExt

CONSTANTS
    Blocks,             \* the data blocks
    RegFiles,           \* the regular files
    Dirs,               \* the directories
    Nobody,             \* the owner of a free block
    DIRECT_B_COUNT,
    DBLOCKS_PER_BLOCK,  \* block numbers one block can store
    BLOCK_SIZE,         \* in units of the offsets below
    Offsets,            \* offsets at which writes start and end
    Cuts,               \* offsets to which files are truncated
    MaxDirSize          \* bound on the size of a directory, which never shrinks

ASSUME ShapeAssumption ==
    /\ Blocks \subseteq Nat \ {0}
    /\ RegFiles \cap Dirs = {} /\ Nobody \notin RegFiles \cup Dirs
    /\ DIRECT_B_COUNT \in Nat \ {0} /\ DBLOCKS_PER_BLOCK \in Nat \ {0}
    /\ BLOCK_SIZE \in Nat \ {0}
    /\ Offsets \subseteq Nat /\ Cuts \subseteq Nat /\ MaxDirSize \in Nat

VARIABLES
    owner,    \* Nobody for a free block, for others (history) the file that took it
    words,    \* the block numbers stored in each block; 0 in data blocks
    inodes,   \* the inode of every file and directory, as it is on the device
    misfreed, \* (history) blocks given back while free, or while another file's
    emptied,  \* (history) a block was given back when none was free
    overrun,  \* (history) an index block was read past its end
    failed,   \* (history) a write or a new entry ran out of blocks half-way
    shrunk    \* (history) a directory lost a block, whose last slot is now stale

vars == <<owner, words, inodes, misfreed, emptied, overrun, failed, shrunk>>

Files == RegFiles \cup Dirs
D == DIRECT_B_COUNT
P == DBLOCKS_PER_BLOCK
Slots == 0 .. P - 1
Words == Blocks \cup {0}
ZeroBlock == [i \in Slots |-> 0]

FreshInode == [direct |-> [i \in 0 .. D - 1 |-> 0], single |-> 0, double |-> 0, triple |-> 0,
               num_blocks |-> 0, file_size |-> 0]

Init ==
    /\ owner = [b \in Blocks |-> Nobody]
    /\ words = [b \in Blocks |-> ZeroBlock]
    /\ inodes = [f \in Files |-> FreshInode]
    /\ misfreed = {} /\ emptied = FALSE /\ overrun = FALSE /\ failed = FALSE /\ shrunk = FALSE

(***************************************************************************)
(* The operations below are functions of a device: what an operation on    *)
(* the file f reads and leaves of the block layer.                         *)
(***************************************************************************)
Device(f) == [file |-> f, owner |-> owner, words |-> words,
              misfreed |-> misfreed, overrun |-> overrun]

FreeOf(dev) == {b \in Blocks : dev.owner[b] = Nobody}
NextFree(dev) == CHOOSE b \in FreeOf(dev) : TRUE
TakeMutant(dev) == dev  \* the block stays on the free list
Take(dev) == [dev EXCEPT !.owner[NextFree(dev)] = dev.file]
Store(dev, b, i, w) == [dev EXCEPT !.words[b][i] = w]

(* free_dblock rejects 0 and takes any block number, free or not.  What    *)
(* it does to an exhausted list is left to Install.                        *)
FreeDblock(dev, b) ==
    IF b = 0 THEN dev
    ELSE [dev EXCEPT !.owner[b] = Nobody, !.words[b] = ZeroBlock,
                     !.misfreed = @ \cup (IF dev.owner[b] = dev.file THEN {} ELSE {b})]

-----------------------------------------------------------------------------
(* Where a file keeps its n-th block: under which pointer of the inode,    *)
(* and the slots to follow from there.                                     *)

Path(n) ==
    LET s == n - D
        d == s - P
        t == d - P * P
    IN  CASE s < 0 -> [root |-> "direct", at |-> <<n>>]
          [] s >= 0 /\ d < 0 -> [root |-> "single", at |-> <<s>>]
          [] d >= 0 /\ t < 0 -> [root |-> "double", at |-> <<d \div P, d % P>>]
          [] t >= 0 -> [root |-> "triple", at |-> <<t \div (P * P), (t \div P) % P, t % P>>]

(* op applied to base and then, one after the other, to the elements of s: *)
(* a loop.  A function, and not FoldLeft, whose definition proofs cannot   *)
(* expand.                                                                 *)
Each(op(_, _), base, s) ==
    LET done[k \in 0 .. Len(s)] == IF k = 0 THEN base ELSE op(done[k - 1], s[k])
    IN  done[Len(s)]

\* The block at the end of a list of slots, 0 when a pointer on the way is 0.
Follow(wds, inode, root, at) ==
    IF root = "direct" THEN inode.direct[at[1]]
    ELSE Each(LAMBDA b, i : IF b = 0 THEN 0 ELSE wds[b][i], inode[root], at)

(* fblock_num_to_dblock_num; 0 stands for its failures, which callers test *)
(* with <= 0.  A block number equal to num_blocks passes its range check.  *)
Lookup(wds, inode, n) ==
    IF n > inode.num_blocks THEN 0 ELSE Follow(wds, inode, Path(n).root, Path(n).at)

(* write_dblock_to_inode: the n-th block becomes b.                        *)
SetBlock(r, n, b) ==
    LET p == Path(n)
        last == Len(p.at)
    IN  IF p.root = "direct" THEN [r EXCEPT !.inode.direct[n] = b]
        ELSE [r EXCEPT !.dev = Store(@, Follow(r.dev.words, r.inode, p.root, SubSeq(p.at, 1, last - 1)),
                                     p.at[last], b)]

(* add_dblock_to_inode.  Every index block on the way whose first slot the *)
(* new block will use is created on the way down, and linked to the one    *)
(* above it at once; the inode itself is changed in memory only.           *)
Descend(r, level) ==
    LET p == Path(r.inode.num_blocks)
        new == \A j \in level .. Len(p.at) : p.at[j] = 0
        b == NextFree(r.dev)
        above == SubSeq(p.at, 1, level - 1)
    IN  CASE ~ r.ok \/ ~ new -> r
          [] r.ok /\ new /\ FreeOf(r.dev) = {} -> [r EXCEPT !.ok = FALSE]
          [] r.ok /\ new /\ FreeOf(r.dev) # {} /\ level = 1 ->
                [r EXCEPT !.dev = Take(@), !.inode[p.root] = b]
          [] r.ok /\ new /\ FreeOf(r.dev) # {} /\ level > 1 ->
                [r EXCEPT !.dev = Store(Take(@),
                     Follow(r.dev.words, r.inode, p.root, SubSeq(above, 1, level - 2)),
                     above[level - 1], b)]

AddDblock(r, b) ==
    LET n == r.inode.num_blocks
        down == IF n < D THEN r ELSE Each(Descend, r, [k \in 1 .. Len(Path(n).at) |-> k])
    IN  IF ~ down.ok THEN down
        ELSE [SetBlock(down, n, b) EXCEPT !.inode.num_blocks = @ + 1]

\* create_new_dblock and add_dblock_to_inode, as every caller pairs them.
AddNewBlock(r) ==
    IF ~ r.ok THEN r
    ELSE IF FreeOf(r.dev) = {} THEN [r EXCEPT !.ok = FALSE]
    ELSE AddDblock([r EXCEPT !.dev = Take(@)], NextFree(r.dev))

-----------------------------------------------------------------------------
(* Giving blocks back                                                      *)

FreeAll(dev, bs) == Each(FreeDblock, dev, bs)

\* Mutant: the loop stops one entry short.
UsedMutant(index) ==
    LET zeros == {i \in DOMAIN index : index[i] = 0}
        n == IF zeros = {} THEN Max(DOMAIN index) ELSE Min(zeros)
    IN  [i \in 1 .. n |-> index[i - 1]]

\* The entries of an index before the first 0, where the loops break.
Used(index) ==
    LET zeros == {i \in DOMAIN index : index[i] = 0}
        n == IF zeros = {} THEN Max(DOMAIN index) + 1 ELSE Min(zeros)
    IN  [i \in 1 .. n |-> index[i - 1]]

Full(index) == \A i \in DOMAIN index : index[i] # 0

\* Mutant: the index block itself is kept.
RemoveSingleMutant(dev, b) == IF b = 0 THEN dev ELSE FreeAll(dev, Used(dev.words[b]))

\* remove_single_indirect, remove_double_indirect, remove_triple_indirect
RemoveSingle(dev, b) ==
    IF b = 0 THEN dev ELSE FreeDblock(FreeAll(dev, Used(dev.words[b])), b)

RemoveDouble(dev, b) ==
    IF b = 0 THEN dev ELSE FreeDblock(Each(RemoveSingle, dev, Used(dev.words[b])), b)

(* free_dblocks_from_inode.  Each level is given back only when the one    *)
(* before it was full; under the triple indirect block the loop frees data *)
(* blocks and single indirect blocks, and no double indirect block.        *)
FreeTree(dev, inode) ==
    LET direct == FreeAll(dev, Used(inode.direct))
        single == RemoveSingle(direct, inode.single)
        double == RemoveDouble(single, inode.double)
        triple == FreeDblock(Each(LAMBDA d, b : Each(RemoveSingle, d, Used(d.words[b])),
                                  double, Used(double.words[inode.triple])), inode.triple)
    IN  IF ~ Full(inode.direct) \/ inode.single = 0 THEN direct
        ELSE IF ~ Full(direct.words[inode.single]) \/ inode.double = 0 THEN single
        ELSE IF \/ inode.triple = 0
                \/ ~ Full(single.words[inode.double])
                \/ \E i \in Slots : ~ Full(single.words[single.words[inode.double][i]])
             THEN double
        ELSE triple

-----------------------------------------------------------------------------
(* remove_dblocks_from_inode: what lies from block n on is given back.     *)
(* The index blocks that keep a part of their entries are changed in a     *)
(* buffer that is never written back.                                      *)

\* The entries from..to - 1 of an index block, read past its end as garbage.
Range0(index, from, to) == [i \in 1 .. to - from |-> IF from + i - 1 < P THEN index[from + i - 1] ELSE 0]

ClearedMutant(index, from, to) ==  \* a freed pointer becomes -1
    [i \in DOMAIN index |-> IF i \in from .. to - 1 THEN -1 ELSE index[i]]

Cleared(index, from, to) == [i \in DOMAIN index |-> IF i \in from .. to - 1 THEN 0 ELSE index[i]]

RemoveFromDirect(r, n, curr) ==
    LET last == IF curr < D THEN curr ELSE D
        direct == [dev |-> FreeAll(r.dev, [i \in 1 .. last - n |-> r.inode.direct[n + i - 1]]),
                   inode |-> [r.inode EXCEPT !.direct = Cleared(@, n, last)]]
        single == [dev |-> RemoveSingle(direct.dev, r.inode.single),
                   inode |-> [direct.inode EXCEPT !.single = 0]]
        double == [dev |-> RemoveDouble(single.dev, r.inode.double),
                   inode |-> [single.inode EXCEPT !.double = 0]]
        triple == [dev |-> RemoveDouble(double.dev, r.inode.triple),
                   inode |-> [double.inode EXCEPT !.triple = 0]]
    IN  CASE curr <= D -> direct
          [] curr > D /\ curr <= D + P -> single
          [] curr > D + P /\ curr <= D + P + P * P -> double
          [] curr > D + P + P * P -> triple

RemoveFromSingle(r, n, curr) ==
    LET off == n - D
        total == curr - D
        count == IF total < P - off THEN total - off ELSE P - off
        single == FreeAll(r.dev, Range0(r.dev.words[r.inode.single], off, off + count))
    IN  IF curr <= D + P THEN [dev |-> single, inode |-> r.inode]
        ELSE [dev |-> RemoveDouble(single, r.inode.double), inode |-> [r.inode EXCEPT !.double = 0]]

RemoveFromDouble(r, n, curr) ==
    LET off == n - D - P
        i == off \div P
        total == curr - D - P
        index == r.dev.words[r.inode.double]
        b == IF i < P THEN index[i] ELSE 0
        first == IF off % P = 0 \/ b = 0 THEN RemoveSingle(r.dev, b)
                 ELSE FreeAll(r.dev, Range0(r.dev.words[b], off % P, P))
        count == IF total \div P < P - i THEN total - i ELSE P - i
        rest == Each(RemoveSingle, first, Range0(index, i + 1, i + count))
    IN  [dev |-> [rest EXCEPT !.overrun = @ \/ i >= P \/ i + count > P], inode |-> r.inode]

RemoveFromTriple(r, n, curr) ==
    LET off == n - D - P - P * P
        i == off \div (P * P)
        j == (off \div P) % P
        k == off % P
        total == curr - D - P - P * P
        index == r.dev.words[r.inode.triple]
        inner == r.dev.words[index[i]]
        first == CASE j = 0 /\ k = 0 -> RemoveDouble(r.dev, index[i])
                   [] j # 0 /\ k = 0 -> Each(RemoveSingle, r.dev, Range0(inner, j, P))
                   [] k # 0 -> Each(RemoveSingle,
                                     FreeAll(r.dev, Range0(r.dev.words[inner[j]], k, P)),
                                     Range0(inner, j + 1, P))
        count == IF total < P - i THEN total - i ELSE P - i
    IN  [dev |-> Each(RemoveDouble, first, Range0(index, i + 1, i + count)), inode |-> r.inode]

\* Mutant: num_blocks is not lowered.
RemoveDblocksMutant(r, n) ==
    LET curr == r.inode.num_blocks
    IN  CASE n <= D -> RemoveFromDirect(r, n, curr)
          [] n > D /\ n <= D + P -> RemoveFromSingle(r, n, curr)
          [] n > D + P -> RemoveFromDouble(r, n, curr)

RemoveDblocks(r, n) ==
    LET curr == r.inode.num_blocks
        s == [r EXCEPT !.inode.num_blocks = n]
    IN  CASE n <= D -> RemoveFromDirect(s, n, curr)
          [] n > D /\ n <= D + P -> RemoveFromSingle(s, n, curr)
          [] n > D + P /\ n <= D + P + P * P -> RemoveFromDouble(s, n, curr)
          [] n > D + P + P * P -> RemoveFromTriple(s, n, curr)

-----------------------------------------------------------------------------
(* The operations                                                          *)

\* The places in a file's tree that hold a block: index blocks and data blocks.
Places(inode) ==
    UNION {LET p == Path(n) IN {<<p.root, SubSeq(p.at, 1, k)>> :
                                   k \in IF p.root = "direct" THEN {1} ELSE 0 .. Len(p.at)}
             : n \in 0 .. inode.num_blocks - 1}

BlockAt(f, place) == Follow(words, inodes[f], place[1], place[2])
Tree(f) == {BlockAt(f, place) : place \in Places(inodes[f])}

(* What an operation leaves.  No operation both takes and gives back: if   *)
(* none was free before and one is now, the list was exhausted when the    *)
(* first block came back.                                                  *)
Install(dev) ==
    /\ owner' = dev.owner /\ words' = dev.words
    /\ emptied' = (emptied \/ (FreeOf(Device(dev.file)) = {} /\ FreeOf(dev) # {}))
    /\ overrun' = dev.overrun /\ misfreed' = dev.misfreed

Opened(f) == [dev |-> Device(f), inode |-> inodes[f], ok |-> TRUE]

(* custom_write of the bytes from..to - 1, past the end of the file.       *)
(* A write inside the file changes no block pointer.                       *)
Write(f, from, to) ==
    /\ f \in RegFiles /\ from < to /\ to > inodes[f].file_size
    /\ LET missing == to \div BLOCK_SIZE - inodes[f].num_blocks + 1
           grown == Each(LAMBDA r, i : AddNewBlock(r), Opened(f), [i \in 1 .. missing |-> i])
           written == /\ grown.ok
                      /\ \A n \in from \div BLOCK_SIZE .. to \div BLOCK_SIZE :
                             Lookup(grown.dev.words, grown.inode, n) # 0
       IN  /\ Install(grown.dev)
           /\ \/ /\ written
                 /\ inodes' = [inodes EXCEPT ![f] = [grown.inode EXCEPT !.file_size = to]]
                 /\ UNCHANGED failed
              \/ /\ ~ written
                 /\ failed' = TRUE
                 /\ UNCHANGED inodes
    /\ UNCHANGED shrunk

(* custom_truncate; the cut block must be there before the inode, already  *)
(* stripped in memory, is written.                                         *)
Truncate(f, cut) ==
    /\ f \in RegFiles /\ cut <= inodes[f].file_size /\ inodes[f].file_size # 0
    /\ LET last == cut \div BLOCK_SIZE
           kept == IF inodes[f].num_blocks > last + 1 THEN RemoveDblocks(Opened(f), last + 1)
                   ELSE Opened(f)
       IN  /\ Install(kept.dev)
           /\ \/ /\ Lookup(kept.dev.words, kept.inode, last) # 0
                 /\ inodes' = [inodes EXCEPT ![f] = [kept.inode EXCEPT !.file_size = cut]]
              \/ /\ Lookup(kept.dev.words, kept.inode, last) = 0
                 /\ UNCHANGED inodes
    /\ UNCHANGED <<failed, shrunk>>

(* add_new_entry and write_inode, when the last block of the directory has *)
(* no room, or when custom_mkdir or init_file_layer adds the first entry.  *)
(* An entry that fits changes no block pointer.                            *)
AddDirBlock(f) ==
    /\ f \in Dirs /\ inodes[f].file_size < MaxDirSize
    /\ LET grown == AddNewBlock(Opened(f))
       IN  /\ Install(grown.dev)
           /\ \/ /\ grown.ok
                 /\ inodes' = [inodes EXCEPT ![f] =
                                 [grown.inode EXCEPT !.file_size = @ + BLOCK_SIZE]]
                 /\ UNCHANGED failed
              \/ /\ ~ grown.ok /\ failed' = TRUE /\ UNCHANGED inodes
    /\ UNCHANGED shrunk

\* The only entry of block n of a directory goes: the last block takes its place.
DropMutant(r, n) ==  \* ... or does not
    [r EXCEPT !.dev = FreeDblock(@, Lookup(r.dev.words, r.inode, n)), !.inode.num_blocks = @ - 1]

Drop(r, n) ==
    LET gone == Lookup(r.dev.words, r.inode, n)
        end == Lookup(r.dev.words, r.inode, r.inode.num_blocks - 1)
    IN  [SetBlock([r EXCEPT !.dev = FreeDblock(@, gone)], n, end) EXCEPT !.inode.num_blocks = @ - 1]

(* custom_unlink of a file, or of a directory that is_empty_dir accepts,   *)
(* whose entry shares its block of the parent with others.  Inode numbers  *)
(* are not used again: the next file of that name starts from a fresh one. *)
Unlink(f) ==
    /\ inodes[f] # FreshInode
    /\ f \in Dirs => inodes[f].num_blocks <= 1
    /\ Install(FreeTree(Device(f), inodes[f]))
    /\ inodes' = [inodes EXCEPT ![f] = FreshInode]
    /\ UNCHANGED <<failed, shrunk>>

(* custom_unlink of f, perhaps a file without blocks, that is the only     *)
(* entry of block n of its parent d.  Block 0 of a directory begins with   *)
(* "." and is never left without an entry.                                 *)
UnlinkAlone(f, d, n) ==
    /\ f \in Dirs => inodes[f].num_blocks = 1
    /\ Lookup(words, inodes[d], n) # 0 /\ Lookup(words, inodes[d], inodes[d].num_blocks - 1) # 0
    /\ LET parent == Drop(Opened(d), n)
       IN  /\ Install(FreeTree([parent.dev EXCEPT !.file = f], inodes[f]))
           /\ inodes' = [inodes EXCEPT ![f] = FreshInode, ![d] = parent.inode]
    /\ shrunk' = TRUE
    /\ UNCHANGED failed

Next ==
    /\ misfreed = {} /\ ~ emptied /\ ~ overrun
    /\ \E f \in Files :
          \/ \E from, to \in Offsets : Write(f, from, to)
          \/ \E cut \in Cuts : Truncate(f, cut)
          \/ AddDirBlock(f)
          \/ Unlink(f)
          \/ \E d \in Dirs \ {f} : \E n \in 1 .. inodes[d].num_blocks - 1 : UnlinkAlone(f, d, n)

Spec == Init /\ [][Next]_vars

-----------------------------------------------------------------------------
(* Types of the state.                                                     *)
TypeOK ==
    /\ owner \in [Blocks -> Files \cup {Nobody}] /\ misfreed \subseteq Blocks
    /\ words \in [Blocks -> [Slots -> Words]]
    /\ \A f \in Files :
          /\ inodes[f].direct \in [0 .. D - 1 -> Words]
          /\ {inodes[f].single, inodes[f].double, inodes[f].triple} \subseteq Words
          /\ inodes[f].num_blocks \in Nat /\ inodes[f].file_size \in Nat
    /\ {emptied, overrun, failed, shrunk} \subseteq BOOLEAN

(* Every block of every file is there, was taken by it, and is in one place*)
(* of one file only, as long as no block has been given back that the file *)
(* did not hold.  (After one was given back to an exhausted list the model *)
(* makes no further step: create_new_dblock hands out the head next.)      *)
NoBlockShared ==
    misfreed = {} =>
      \A f \in Files : \A p \in Places(inodes[f]) :
        /\ BlockAt(f, p) \in Blocks /\ owner[BlockAt(f, p)] = f
        /\ \A g \in Files : \A q \in Places(inodes[g]) :
              BlockAt(f, p) = BlockAt(g, q) => f = g /\ p = q

(* Every block that is not free belongs to a file, unless a write ran out  *)
(* of blocks half-way and abandoned what it had taken, or a directory grew *)
(* again after it had lost a block, and made its index block anew.         *)
NothingLeaked ==
    ~ failed /\ ~ shrunk /\ misfreed = {} =>
      {b \in Blocks : owner[b] # Nobody} = UNION {Tree(f) : f \in Files}

(* free_inode, which follows pointers until it meets a 0, would give back  *)
(* all blocks that num_blocks says the file has, and none that is free,    *)
(* whatever writes have failed; until a directory has lost a block.        *)
UnlinkFreesTheFile ==
    ~ shrunk =>
      \A f \in Files :
        LET after == FreeTree(Device(f), inodes[f])
        IN  Tree(f) \subseteq FreeOf(after) /\ after.misfreed = {}

(* A regular file that is not empty has as many blocks as its size calls   *)
(* for, the block in which the next byte would go included: custom_write   *)
(* computes how many to add, and custom_truncate which one to cut, from it.*)
BlocksMatchSize ==
    \A f \in RegFiles :
        inodes[f].file_size # 0 => inodes[f].num_blocks = inodes[f].file_size \div BLOCK_SIZE + 1

(* No block is given back that is free already or belongs to another file. *)
OnlyOwnBlocksFreed == misfreed = {}

(* What callers of fblock_num_to_dblock_num see: each file a sequence of   *)
(* blocks that grows and shrinks at its end and shares none, until the     *)
(* free list is no longer a set of unused blocks or a cut has overrun.     *)
Map == INSTANCE FileMap WITH
          sound <- misfreed = {} /\ ~ emptied /\ ~ overrun,
          fblocks <- [f \in Files |-> [n \in 1 .. inodes[f].num_blocks |->
                                          Lookup(words, inodes[f], n - 1)]]

ImplementsFileMap == Map!Spec
=============================================================================
