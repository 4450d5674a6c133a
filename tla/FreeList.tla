------------------------------ MODULE FreeList ------------------------------
(***************************************************************************)
(* The free list of block_layer.c: a linked list, kept in the free data    *)
(* blocks themselves, of blocks whose slot 0 names the next list block and *)
(* whose other slots each name one free block or hold 0.  The head of the  *)
(* list lives in the superblock, of which the program keeps one copy in    *)
(* memory and one in block 0 of the device.                                *)
(*                                                                         *)
(* One action per way out of create_new_dblock and free_dblock; a call     *)
(* that is rejected, or fails before it changes anything, is a stutter.    *)
(***************************************************************************)
EXTENDS Integers, Sequences

CONSTANTS
    BLOCK_COUNT,        \* blocks of the device, block 0 is the superblock
    INODE_B_COUNT,      \* blocks 1..INODE_B_COUNT hold inodes
    DBLOCKS_PER_BLOCK,  \* block numbers one block can store
    ClientWords,        \* words callers store in the blocks they hold
    IOFaults            \* TRUE when read_block and write_block may fail

ASSUME GeometryAssumption ==
    /\ BLOCK_COUNT \in Nat
    /\ INODE_B_COUNT \in Nat \ {0}
    /\ INODE_B_COUNT + 1 < BLOCK_COUNT
    /\ DBLOCKS_PER_BLOCK \in Nat \ {0, 1}

\* Caller data is never mistaken for the number of an inode block.
ASSUME ClientAssumption ==
    /\ ClientWords \in SUBSET Nat
    /\ ClientWords \cap (1 .. INODE_B_COUNT) = {}
    /\ IOFaults \in BOOLEAN

VARIABLES
    free_list_head,  \* super_block->free_list_head, the copy in memory
    super_disk,      \* the free_list_head last written to block 0
    disk,            \* contents of every data block, slot by slot
    held,            \* (history) blocks the callers have and may use
    chain,           \* (history) the list blocks, the head last; empty once corrupt
    mishaps          \* (history) which of the events named in Mishaps happened

vars == <<free_list_head, super_disk, disk, held, chain, mishaps>>

DataBlocks == INODE_B_COUNT + 1 .. BLOCK_COUNT - 1
Slots == 0 .. DBLOCKS_PER_BLOCK - 1
EntrySlots == 1 .. DBLOCKS_PER_BLOCK - 1
Words == Nat \ (1 .. INODE_B_COUNT)
Zero == [s \in Slots |-> 0]

(***************************************************************************)
(* "corrupt": a block was freed into an exhausted list, or the new head    *)
(* of the list was installed in memory by a free that then failed;         *)
(* "lost": create_new_dblock failed after it had moved the head;           *)
(* "dirty": free_dblock ignored the failure of its zeroing write.          *)
(***************************************************************************)
Mishaps == {"corrupt", "lost", "dirty"}
Sound == "corrupt" \notin mishaps

\* The outcomes of the calls of read_block and write_block in one operation.
IO == IF IOFaults THEN [read : BOOLEAN, zero : BOOLEAN, super : BOOLEAN, node : BOOLEAN]
                  ELSE {[read |-> TRUE, zero |-> TRUE, super |-> TRUE, node |-> TRUE]}

-----------------------------------------------------------------------------
(* make_fs: init_superblock and init_freelist.                             *)

\* Mutant: the list begins in the last inode block.
FirstListBlockMutant == INODE_B_COUNT

FirstListBlock == INODE_B_COUNT + 1

\* The list blocks are every DBLOCKS_PER_BLOCK-th data block.
ListBlocks == (BLOCK_COUNT - FirstListBlock + DBLOCKS_PER_BLOCK - 1) \div DBLOCKS_PER_BLOCK
ListBlock(k) == FirstListBlock + k * DBLOCKS_PER_BLOCK

\* Mutant: the bound check of write_dblock, which lets BLOCK_COUNT through.
OnDeviceMutant(n) == IF n > BLOCK_COUNT THEN 0 ELSE n

OnDevice(n) == IF n >= BLOCK_COUNT THEN 0 ELSE n

ListImage(b) == [s \in Slots |-> OnDevice(IF s = 0 THEN b + DBLOCKS_PER_BLOCK ELSE b + s)]

Init ==
    /\ free_list_head = FirstListBlock
    /\ super_disk = free_list_head
    /\ disk = [b \in DataBlocks |->
                 IF \E k \in 0 .. ListBlocks - 1 : b = ListBlock(k) THEN ListImage(b) ELSE Zero]
    /\ held = {}
    /\ chain = [i \in 1 .. ListBlocks |-> ListBlock(ListBlocks - i)]
    /\ mishaps = {}

-----------------------------------------------------------------------------
(* create_new_dblock                                                       *)

FirstUsed(image, s) ==
    /\ s \in EntrySlots /\ image[s] # 0
    /\ \A t \in EntrySlots : t < s => image[t] = 0

\* Mutant: free_dblock stores into the first entry without looking.
FirstUnusedMutant(image, s) == s = 1

FirstUnused(image, s) ==
    /\ s \in EntrySlots /\ image[s] = 0
    /\ \A t \in EntrySlots : t < s => image[t] # 0

\* The head is not 0 and read_block accepts and reads it.
HeadRead(io) == free_list_head \in DataBlocks /\ io.read

\* Mutant: the erased entry is not written back.
CreateFromEntryMutant(io) ==
    /\ HeadRead(io) /\ io.node
    /\ \E s \in EntrySlots :
         /\ FirstUsed(disk[free_list_head], s)
         /\ held' = held \cup {disk[free_list_head][s]}
    /\ UNCHANGED <<free_list_head, super_disk, disk, chain, mishaps>>

\* The first entry of the head is handed out and erased from the head.
CreateFromEntry(io) ==
    /\ HeadRead(io) /\ io.node
    /\ \E s \in EntrySlots :
         /\ FirstUsed(disk[free_list_head], s)
         /\ held' = held \cup {disk[free_list_head][s]}
         /\ disk' = [disk EXCEPT ![free_list_head] = [@ EXCEPT ![s] = 0]]
    /\ UNCHANGED <<free_list_head, super_disk, chain, mishaps>>

\* Mutant: the superblock is not written after the head moved.
CreateFromHeadMutant(io) ==
    /\ HeadRead(io) /\ io.super /\ io.node
    /\ \A s \in EntrySlots : disk[free_list_head][s] = 0
    /\ free_list_head' = disk[free_list_head][0]
    /\ chain' = IF Sound THEN SubSeq(chain, 1, Len(chain) - 1) ELSE chain
    /\ disk' = [disk EXCEPT ![free_list_head] = [@ EXCEPT ![0] = 0]]
    /\ held' = held \cup {free_list_head}
    /\ UNCHANGED <<super_disk, mishaps>>

(* The head has no entry left: it is handed out itself, and its successor  *)
(* becomes the head before the superblock and the block are written.       *)
CreateFromHead(io) ==
    /\ HeadRead(io)
    /\ \A s \in EntrySlots : disk[free_list_head][s] = 0
    /\ free_list_head' = disk[free_list_head][0]
    /\ super_disk' = IF io.super THEN free_list_head' ELSE super_disk
    /\ chain' = IF Sound THEN SubSeq(chain, 1, Len(chain) - 1) ELSE chain
    /\ \/ /\ io.super /\ io.node
          /\ disk' = [disk EXCEPT ![free_list_head] = [@ EXCEPT ![0] = 0]]
          /\ held' = held \cup {free_list_head}
          /\ UNCHANGED mishaps
       \/ /\ ~ (io.super /\ io.node)
          /\ mishaps' = mishaps \cup {"lost"}
          /\ UNCHANGED <<disk, held>>

-----------------------------------------------------------------------------
(* free_dblock, and write_dblock of a caller                               *)

\* Mutant: the block is not filled with zeros.
ZeroedMutant(b, io) == disk

\* The device after the first write of free_dblock, whose result is ignored.
Zeroed(b, io) == IF io.zero THEN [disk EXCEPT ![b] = Zero] ELSE disk

\* The block goes into the first slot of the head that holds 0.
FreeIntoEntry(b, io) ==
    /\ HeadRead(io) /\ io.node
    /\ \E s \in EntrySlots :
         /\ FirstUnused(Zeroed(b, io)[free_list_head], s)
         /\ disk' = [Zeroed(b, io) EXCEPT ![free_list_head] = [@ EXCEPT ![s] = b]]
    /\ held' = held \ {b}
    /\ mishaps' = IF io.zero \/ disk[b] = Zero THEN mishaps ELSE mishaps \cup {"dirty"}
    /\ UNCHANGED <<free_list_head, super_disk, chain>>

(* The head is full: the block becomes the head, in memory first, then in  *)
(* the superblock, and last its own contents are written.                  *)
FreeAsHead(b, io) ==
    /\ HeadRead(io)
    /\ \A s \in EntrySlots : Zeroed(b, io)[free_list_head][s] # 0
    /\ free_list_head' = b
    /\ super_disk' = IF io.super THEN b ELSE super_disk
    /\ \/ /\ io.super /\ io.node
          /\ disk' = [Zeroed(b, io) EXCEPT ![b] = [Zero EXCEPT ![0] = free_list_head]]
          /\ held' = held \ {b}
          /\ chain' = IF Sound THEN Append(chain, b) ELSE chain
          /\ UNCHANGED mishaps
       \/ /\ ~ (io.super /\ io.node)
          /\ disk' = Zeroed(b, io)
          /\ chain' = <<>>
          /\ mishaps' = mishaps \cup {"corrupt"}
          /\ UNCHANGED held

(* The list is exhausted: the block becomes the head and then, as the head *)
(* just read, receives itself as its first entry.                          *)
FreeIntoExhausted(b, io) ==
    /\ free_list_head = 0
    /\ free_list_head' = b
    /\ super_disk' = IF io.super THEN b ELSE super_disk
    /\ \/ /\ io.super /\ io.read /\ io.node
          /\ \/ \E s \in EntrySlots :
                  /\ FirstUnused(Zeroed(b, io)[b], s)
                  /\ disk' = [Zeroed(b, io) EXCEPT ![b] = [@ EXCEPT ![s] = b]]
             \/ /\ \A s \in EntrySlots : Zeroed(b, io)[b][s] # 0
                /\ disk' = [Zeroed(b, io) EXCEPT ![b] = [Zero EXCEPT ![0] = b]]
          /\ held' = held \ {b}
       \/ /\ ~ (io.super /\ io.read /\ io.node)
          /\ disk' = Zeroed(b, io)
          /\ UNCHANGED held
    /\ chain' = <<>>
    /\ mishaps' = mishaps \cup {"corrupt"}

\* free_dblock fails after the zeroing write and before the list changes.
FreeFails(b, io) ==
    /\ free_list_head # 0
    /\ \/ ~ HeadRead(io)
       \/ /\ HeadRead(io) /\ ~ io.node
          /\ \E s \in EntrySlots : Zeroed(b, io)[free_list_head][s] = 0
    /\ disk' = Zeroed(b, io)
    /\ UNCHANGED <<free_list_head, super_disk, held, chain, mishaps>>

\* A caller overwrites a block it holds.
WriteDblock(b, w) ==
    /\ disk' = [disk EXCEPT ![b] = [s \in Slots |-> w]]
    /\ UNCHANGED <<free_list_head, super_disk, held, chain, mishaps>>

Create == \E io \in IO : CreateFromEntry(io) \/ CreateFromHead(io)

\* The callers free and write the blocks they hold; others are rejected.
Free == \E io \in IO, b \in held \cap DataBlocks :
           \/ FreeIntoEntry(b, io)
           \/ FreeAsHead(b, io)
           \/ FreeIntoExhausted(b, io)
           \/ FreeFails(b, io)

Write == \E b \in held \cap DataBlocks, w \in ClientWords : WriteDblock(b, w)

Next == Create \/ Free \/ Write

Spec == Init /\ [][Next]_vars

-----------------------------------------------------------------------------
(* Type correctness of the state, corrupt or not: whatever the list has    *)
(* become, no word read from it sends the allocator into the inode blocks. *)
TypeOK ==
    /\ free_list_head \in Words
    /\ super_disk \in Words
    /\ disk \in [DataBlocks -> [Slots -> Words]]
    /\ held \in SUBSET Words
    /\ chain \in Seq(DataBlocks)
    /\ mishaps \in SUBSET Mishaps

ListNodes == {chain[i] : i \in DOMAIN chain}
Entries == {disk[n][s] : n \in ListNodes, s \in EntrySlots} \ {0}
FreeBlocks == ListNodes \cup Entries

HeadIsLast == free_list_head = IF chain = <<>> THEN 0 ELSE chain[Len(chain)]

LinksFollowChain ==
    \A i \in DOMAIN chain :
        /\ disk[chain[i]][0] = IF i = 1 THEN 0 ELSE chain[i - 1]
        /\ \A j \in DOMAIN chain : chain[i] = chain[j] => i = j

EntriesAreDataBlocks ==
    \A n \in ListNodes, s \in EntrySlots :
        disk[n][s] # 0 => disk[n][s] \in DataBlocks \ ListNodes

EntriesUnique ==
    \A n1, n2 \in ListNodes, s1, s2 \in EntrySlots :
        disk[n1][s1] = disk[n2][s2] /\ disk[n1][s1] # 0 => n1 = n2 /\ s1 = s2

(* The list is the one the allocator believes in: following slot 0 from    *)
(* free_list_head visits distinct data blocks and ends, and every free     *)
(* block is recorded exactly once, as a list block or as one entry.        *)
ListWellFormed ==
    Sound => HeadIsLast /\ LinksFollowChain /\ EntriesAreDataBlocks /\ EntriesUnique

(* No block in the hands of a caller is on the free list, so the next      *)
(* create_new_dblock cannot hand it out a second time.                     *)
HeldNotFree == Sound => held \subseteq DataBlocks /\ held \cap FreeBlocks = {}

(* No data block disappears: each is held or reachable from the head,      *)
(* unless create_new_dblock failed half-way; so "No more blocks left" is   *)
(* said only when callers really hold everything.                          *)
NothingLost ==
    mishaps \cap {"corrupt", "lost"} = {} =>
        /\ DataBlocks \subseteq held \cup FreeBlocks
        /\ free_list_head = 0 => held = DataBlocks

(* The superblock on the device names the same list as the one in memory   *)
(* unless one of its writes failed.                                        *)
SuperblockCurrent == mishaps \cap {"corrupt", "lost"} = {} => super_disk = free_list_head

(* Every entry is a block full of zeros, unless a zeroing write was lost.  *)
EntriesZero ==
    mishaps \cap {"corrupt", "dirty"} = {} => \A b \in Entries : disk[b] = Zero

(* create_new_dblock hands out blocks of zeros: an inode's callers use a   *)
(* new block as an indirect block without clearing it, and stop at the     *)
(* first 0.                                                                *)
HandsOutZeros ==
    [][mishaps' \cap {"corrupt", "dirty"} = {} => \A b \in held' \ held : disk'[b] = Zero]_vars

(* The block a caller got is not the head of the free list.                *)
HeadNotHeld == free_list_head \notin held

(* Seen from the callers, the free list is the pool of blocks it stands    *)
(* for, up to the first corrupting event.                                  *)
Pool == INSTANCE BlockPool WITH Blocks <- DataBlocks, Fallible <- IOFaults,
                                free <- FreeBlocks, held <- held, sound <- Sound

ImplementsPool == Pool!Spec
=============================================================================
