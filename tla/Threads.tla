------------------------------ MODULE Threads -------------------------------
(***************************************************************************)
(* Callbacks in the threads of fuse_main, block access by block access.    *)
(* There is no lock in the program: threads share the file position of the *)
(* device, the head of the free list and the blocks.  An access is two     *)
(* steps, lseek and then read or write at the position; the code between   *)
(* two accesses is part of the step before it.                             *)
(*                                                                         *)
(* One inode block holds all files, an inode is the sequence of its data   *)
(* blocks, and accesses do not fail.  The kernel runs one writer of a file *)
(* at a time, but readers beside it.                                       *)
(***************************************************************************)
EXTENDS Integers, SequencesExt, FiniteSets

CONSTANTS
    Threads,
    Inodes,             \* the inodes of regular files
    MaxBlocks,          \* (bound) blocks of one file
    BLOCK_COUNT, INODE_B_COUNT, DBLOCKS_PER_BLOCK,
    Data                \* the word callers fill their blocks with

ASSUME ThreadAssumption ==
    /\ MaxBlocks \in Nat
    /\ BLOCK_COUNT \in Nat /\ INODE_B_COUNT = 1 /\ INODE_B_COUNT + 1 < BLOCK_COUNT
    /\ DBLOCKS_PER_BLOCK \in Nat \ {0, 1}
    /\ Data \in Nat /\ Data > BLOCK_COUNT
    /\ Inodes \cap {"position", "wild", "list", "empty"} = {}    \* what else is in mixed

VARIABLES
    pos,             \* the file position of the device, in blocks
    free_list_head,  \* super_block->free_list_head, in memory
    super_disk,      \* the head in block 0
    disk,            \* the data blocks
    inode_block,     \* block 1: the data blocks of every file
    threads,         \* what every thread is doing, with its local variables
    held,            \* (history) data blocks handed out and not given back
    files,           \* (history) the blocks every file should have
    settled,         \* (history) the free list as the list calls that returned left it
    mixed            \* (history) what went wrong: see Mixups

vars == <<pos, free_list_head, super_disk, disk, inode_block, threads, held, files, settled, mixed>>

(***************************************************************************)
(* "position": an access was made at a position another thread had set;    *)
(* "wild": an access to what is no data block was due; "list": two threads *)
(* were in the free list at once; "empty": a block was freed into an       *)
(* exhausted list, which corrupts it (FreeList); and every inode of which  *)
(* one update overlapped with another of it, or the write of which         *)
(* overlapped with that of another inode in the block.                     *)
(***************************************************************************)
Mixups == {"position", "wild", "list", "empty"}

DataBlocks == INODE_B_COUNT + 1 .. BLOCK_COUNT - 1
Slots == 0 .. DBLOCKS_PER_BLOCK - 1
Zero == [s \in Slots |-> 0]
Words == {0, Data} \cup DataBlocks

\* The list blocks from the first to the head.
ChainFrom(list) ==
    LET to[n \in 0 .. BLOCK_COUNT] ==
            [b \in Words |->
               IF n = 0 \/ b \notin DataBlocks THEN <<>> ELSE Append(to[n - 1][list.disk[b][0]], b)]
    IN  to[BLOCK_COUNT][list.head]

Atomic == INSTANCE FreeList WITH
    free_list_head <- settled.head, super_disk <- settled.super, disk <- settled.disk,
    chain <- IF "empty" \in mixed THEN <<>> ELSE ChainFrom(settled),
    mishaps <- IF "empty" \in mixed THEN {"corrupt"} ELSE {},
    ClientWords <- {0, Data}, IOFaults <- FALSE

Idle == [pc |-> "idle"]

Init ==
    /\ pos = 0
    /\ settled = [head |-> Atomic!FirstListBlock, super |-> Atomic!FirstListBlock,
                  disk |-> [b \in DataBlocks |->
                              IF \E k \in 0 .. Atomic!ListBlocks - 1 : b = Atomic!ListBlock(k)
                              THEN Atomic!ListImage(b) ELSE Zero]]
    /\ free_list_head = settled.head /\ super_disk = settled.super /\ disk = settled.disk
    /\ inode_block = [f \in Inodes |-> <<>>] /\ files = inode_block
    /\ threads = [t \in Threads |-> Idle]
    /\ held = {} /\ mixed = {}

\* A thread with the next access it has to make.
Access(th, pc, block) == [th EXCEPT !.pc = pc, !.want = block, !.moved = FALSE]

BusyWith(u, f) == threads[u].pc # "idle" /\ threads[u].file = f

\* custom_read, custom_write and custom_truncate begin with read_inode.
Begin(t, call, f) ==
    LET others == {u \in Threads : BusyWith(u, f)}
        writers == {u \in others : threads[u].call # "read"}
    IN  /\ threads[t].pc = "idle"
        /\ call # "read" => writers = {}
        /\ call = "write" => Len(files[f]) < MaxBlocks
        /\ threads' = [threads EXCEPT ![t] =
              [pc |-> "inode", want |-> 1, moved |-> FALSE, call |-> call, file |-> f, copy |-> <<>>,
               block |-> 0, node |-> Zero, target |-> 0, head |-> 0, empty |-> FALSE, image |-> inode_block]]
        /\ mixed' = IF writers # {} \/ (call # "read" /\ others # {}) THEN mixed \cup {f} ELSE mixed
        /\ UNCHANGED <<pos, free_list_head, super_disk, disk, inode_block, held, files, settled>>

\* What the accesses to data blocks refuse.
Refused(th) == th.pc \in {"list", "node", "zero", "data", "fill"} /\ th.want \notin DataBlocks

Seek(t) ==
    /\ threads[t].pc # "idle" /\ ~ threads[t].moved /\ ~ Refused(threads[t])
    /\ pos' = threads[t].want
    /\ threads' = [threads EXCEPT ![t].moved = TRUE]
    /\ UNCHANGED <<free_list_head, super_disk, disk, inode_block, held, files, settled, mixed>>

\* The model goes no further.
GoAstray(t) ==
    /\ threads[t].pc # "idle"
    /\ \/ threads[t].moved /\ pos # threads[t].want /\ mixed' = mixed \cup {"position"}
       \/ Refused(threads[t]) /\ mixed' = mixed \cup {"wild"}
    /\ UNCHANGED <<pos, free_list_head, super_disk, disk, inode_block, threads, held, files, settled>>

\* The read or write of a thread at the position it has set; the position moves on.
At(t, pc) ==
    /\ threads[t].pc = pc /\ threads[t].moved /\ pos = threads[t].want
    /\ pos' = pos + 1

Becomes(t, th) == threads' = [threads EXCEPT ![t] = th]

-----------------------------------------------------------------------------
(* create_new_dblock and free_dblock                                       *)
InList(u) == threads[u].pc \in {"list", "super", "node"}
EnterList(t) == mixed' = IF \E u \in Threads \ {t} : InList(u) THEN mixed \cup {"list"} ELSE mixed

\* read_inode, and the code up to the next access.
ReadInode(t) ==
    LET th == [threads[t] EXCEPT !.copy = inode_block[threads[t].file]]
        n == Len(th.copy)
    IN  /\ At(t, "inode")
        /\ \/ /\ th.call = "write" /\ free_list_head # 0
              /\ Becomes(t, Access(th, "list", free_list_head)) /\ EnterList(t)
           \/ /\ th.call = "truncate" /\ n > 1
              /\ Becomes(t, Access([th EXCEPT !.block = Last(th.copy)], "zero", Last(th.copy)))
              /\ UNCHANGED mixed
           \/ /\ (th.call = "read" /\ n > 0) \/ (th.call = "truncate" /\ n = 1)
              /\ Becomes(t, Access(th, "data", Last(th.copy))) /\ UNCHANGED mixed
           \/ /\ IF th.call = "write" THEN free_list_head = 0 ELSE n = 0
              /\ Becomes(t, Idle) /\ UNCHANGED mixed
        /\ UNCHANGED <<free_list_head, super_disk, disk, inode_block, held, files, settled>>

\* free_dblock clears the block and looks at the head.
ZeroBlock(t) ==
    LET th == threads[t]
    IN  /\ At(t, "zero")
        /\ disk' = [disk EXCEPT ![th.block] = Zero]
        /\ settled' = [settled EXCEPT !.disk[th.block] = Zero]
        /\ IF free_list_head = 0
           THEN /\ free_list_head' = th.block
                /\ Becomes(t, Access([th EXCEPT !.head = th.block, !.empty = TRUE], "super", 0))
           ELSE /\ UNCHANGED free_list_head
                /\ Becomes(t, Access(th, "list", free_list_head))
        /\ EnterList(t)
        /\ UNCHANGED <<super_disk, inode_block, held, files>>

\* Mutant: the list block is written where the new head is.
MoveHeadMutant(t, th, head, node, target) ==
    /\ free_list_head' = head
    /\ Becomes(t, Access([th EXCEPT !.head = head, !.node = node, !.target = head], "super", 0))

\* The head moves in memory, and then on the device.
MoveHead(t, th, head, node, target) ==
    /\ free_list_head' = head
    /\ Becomes(t, Access([th EXCEPT !.head = head, !.node = node, !.target = target], "super", 0))

KeepHead(t, th, node) ==
    /\ UNCHANGED free_list_head
    /\ Becomes(t, Access([th EXCEPT !.node = node], "node", free_list_head))

\* Mutant: the entry handed out stays in the list block.
ErasedMutant(node, s) == node
Erased(node, s) == [node EXCEPT ![s] = 0]

ReadListToCreate(t) ==
    LET th == threads[t]
        read == disk[th.want]
    IN  /\ At(t, "list") /\ th.call = "write"
        /\ \/ \E s \in Atomic!EntrySlots :
                 /\ Atomic!FirstUsed(read, s)
                 /\ KeepHead(t, [th EXCEPT !.block = read[s]], Erased(read, s))
           \/ /\ \A s \in Atomic!EntrySlots : read[s] = 0
              /\ MoveHead(t, [th EXCEPT !.block = free_list_head], read[0], Erased(read, 0), free_list_head)
        /\ UNCHANGED <<super_disk, disk, inode_block, held, files, settled, mixed>>

ReadListToFree(t) ==
    LET th == threads[t]
        read == disk[th.want]
    IN  /\ At(t, "list") /\ th.call = "truncate"
        /\ \/ \E s \in Atomic!EntrySlots :
                 Atomic!FirstUnused(read, s) /\ KeepHead(t, th, [read EXCEPT ![s] = th.block])
           \/ /\ \A s \in Atomic!EntrySlots : read[s] # 0
              /\ MoveHead(t, th, th.block, [Zero EXCEPT ![0] = free_list_head], th.block)
        /\ UNCHANGED <<super_disk, disk, inode_block, held, files, settled, mixed>>

WriteSuper(t) ==
    LET th == threads[t]
        again == th.empty /\ th.target = 0  \* the block freed into an empty list is read as the head
    IN  /\ At(t, "super")
        /\ super_disk' = th.head
        /\ Becomes(t, IF again THEN Access(th, "list", free_list_head) ELSE Access(th, "node", th.target))
        /\ UNCHANGED <<free_list_head, disk, inode_block, held, files, settled, mixed>>

\* The last access of both: the call returns, and the block is looked for in the inode.
WriteNode(t) ==
    LET th == threads[t]
        now == [disk EXCEPT ![th.want] = th.node]
        copy == IF th.call = "write" THEN Append(th.copy, th.block) ELSE Front(th.copy)
    IN  /\ At(t, "node")
        /\ disk' = now
        /\ settled' = [head |-> free_list_head, super |-> super_disk, disk |-> now]
        /\ held' = IF th.call = "write" THEN held \cup {th.block} ELSE held \ {th.block}
        /\ mixed' = IF th.empty THEN mixed \cup {"empty"} ELSE mixed
        /\ Becomes(t, Access([th EXCEPT !.copy = copy, !.node = Zero, !.target = 0, !.head = 0], "data", Last(copy)))
        /\ UNCHANGED <<free_list_head, super_disk, inode_block, files>>

-----------------------------------------------------------------------------
(* The data, and write_inode                                               *)
ReadData(t) ==
    /\ At(t, "data")
    /\ Becomes(t, IF threads[t].call = "read" THEN Access(threads[t], "block", 1)
                  ELSE Access(threads[t], "fill", threads[t].want))
    /\ UNCHANGED <<free_list_head, super_disk, disk, inode_block, held, files, settled, mixed>>

\* Mutant: the buffer has one word too many.
FilledMutant(word) == [s \in 0 .. DBLOCKS_PER_BLOCK |-> word]
Filled(word) == [s \in Slots |-> word]

\* New data, or the zeros of custom_truncate.
WriteData(t) ==
    LET image == Filled(IF threads[t].call = "write" THEN Data ELSE 0)
    IN  /\ At(t, "fill")
        /\ disk' = [disk EXCEPT ![pos] = image]
        /\ settled' = [settled EXCEPT !.disk[pos] = image]
        /\ Becomes(t, Access(threads[t], "block", 1))
        /\ UNCHANGED <<free_list_head, super_disk, inode_block, held, files, mixed>>

\* write_inode reads the block of the inode,
ReadInodeBlock(t) ==
    LET between == {u \in Threads \ {t} : threads[u].pc = "store"}
    IN  /\ At(t, "block")
        /\ Becomes(t, Access([threads[t] EXCEPT !.image = inode_block], "store", 1))
        /\ mixed' = IF between = {} THEN mixed
                    ELSE mixed \cup {threads[t].file} \cup {threads[u].file : u \in between}
        /\ UNCHANGED <<free_list_head, super_disk, disk, inode_block, held, files, settled>>

\* Mutant: the inode is written into an empty block.
StoredMutant(th) == [f \in Inodes |-> IF f = th.file THEN th.copy ELSE <<>>]
Stored(th) == [th.image EXCEPT ![th.file] = th.copy]

\* and writes it with the whole inode in it.
WriteInodeBlock(t) ==
    LET th == threads[t]
    IN  /\ At(t, "store")
        /\ inode_block' = Stored(th)
        /\ files' = [files EXCEPT ![th.file] =
                       IF th.call = "read" \/ th.block = 0 THEN @
                       ELSE IF th.call = "write" THEN Append(@, th.block) ELSE Front(@)]
        /\ Becomes(t, Idle)
        /\ UNCHANGED <<free_list_head, super_disk, disk, held, settled, mixed>>

(* (bound) After the first mix-up the callbacks under way go on, and no    *)
(* other begins.                                                           *)
Next ==
    /\ mixed \cap {"position", "wild"} = {}
    /\ \E t \in Threads :
          \/ mixed = {} /\ \E call \in {"read", "write", "truncate"}, f \in Inodes : Begin(t, call, f)
          \/ Seek(t) \/ GoAstray(t)
          \/ ReadInode(t) \/ ZeroBlock(t)
          \/ ReadListToCreate(t) \/ ReadListToFree(t) \/ WriteSuper(t) \/ WriteNode(t)
          \/ ReadData(t) \/ WriteData(t) \/ ReadInodeBlock(t) \/ WriteInodeBlock(t)

Spec == Init /\ [][Next]_vars

-----------------------------------------------------------------------------
(* Types of the state.                                                     *)
TypeOK ==
    /\ pos \in 0 .. BLOCK_COUNT
    /\ disk \in [DataBlocks -> [Slots -> Words]]
    /\ {free_list_head, super_disk} \subseteq Words
    /\ inode_block \in [Inodes -> Seq(DataBlocks)]
    /\ mixed \subseteq Mixups \cup Inodes

(* Every call of create_new_dblock and free_dblock is one step of FreeList,*)
(* whatever the threads do between its block accesses, as long as no two   *)
(* threads were in the free list at once and no two updates of inodes met: *)
(* a lost update of an inode lets a block be freed twice.                  *)
ListCallsAtomic ==
    Atomic!Init /\ [][mixed # {} \/ Atomic!Next]_(Atomic!vars)

(* No update of an inode is lost unless two updates of it overlapped or two*)
(* threads were in write_inode at once; in particular a block the list     *)
(* handed out twice does not harm the inodes.                              *)
UpdatesKept ==
    "position" \notin mixed => \A f \in Inodes \ mixed : inode_block[f] = files[f]

(* Files no thread works on do not share blocks, and their blocks are not  *)
(* free, unless one of the mix-ups happened.                               *)
QuietFilesApart ==
    LET quiet == {f \in Inodes : \A t \in Threads : ~ BusyWith(t, f)}
        blocks(f) == {inode_block[f][i] : i \in DOMAIN inode_block[f]}
    IN  mixed = {} =>
          \A f \in quiet : /\ blocks(f) \subseteq held
                           /\ Cardinality(blocks(f)) = Len(inode_block[f])
                           /\ \A g \in quiet \ {f} : blocks(f) \cap blocks(g) = {}
=============================================================================
