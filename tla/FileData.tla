------------------------------ MODULE FileData ------------------------------
(***************************************************************************)
(* The bytes of files: what custom_read, custom_write and custom_truncate  *)
(* copy between callers and blocks, and charm_rename, which copies a file  *)
(* block by block with them and then deletes the old one.                  *)
(*                                                                         *)
(* The blocks of a file are kept with it, since no two files share one     *)
(* (FileBlocks), and a new block is zero (FreeList).  Callbacks are steps; *)
(* the calls of a rename are steps of their own, between which callbacks   *)
(* for other files run: libfuse keeps both of its names locked.  Reads and *)
(* writes of data blocks may fail, and the writes of the inode that end    *)
(* custom_write and custom_truncate; other accesses do not.                *)
(*                                                                         *)
(* The model stops when the program is killed, and when the free list no   *)
(* longer is a set of unused blocks: when blocks were given back to an     *)
(* exhausted list (FreeIntoExhausted of FreeList), or while the inode on   *)
(* the device still names them.                                            *)
(***************************************************************************)
EXTENDS Integers, SequencesExt

CONSTANTS
    Files,       \* the paths of regular files
    Dirs,        \* the paths of directories
    Absent,      \* what is at a path where nothing is
    BLOCK_SIZE,
    BlockCount,  \* data blocks for the contents of files
    Elsewhere,   \* (bound) how many of them other files may hold
    MaxSize,     \* (bound) the largest size callers give a file
    Offsets,     \* the offsets callers write at and cut at
    Payloads,    \* the sequences of bytes they write, none empty
    IOFaults     \* TRUE when reads and writes of data blocks may fail

ASSUME DataAssumption ==
    /\ BLOCK_SIZE \in Nat \ {0} /\ BlockCount \in Nat /\ MaxSize \in Nat /\ Elsewhere \in 0 .. BlockCount
    /\ Offsets \subseteq Nat /\ Payloads \subseteq Seq(Nat) \ {<<>>}
    /\ Files \cap Dirs = {} /\ IOFaults \in BOOLEAN
    /\ Absent \notin [file_size : Nat, blocks : Seq(Seq(Nat))] \cup Seq(Nat)

VARIABLES
    nodes,    \* file_size and the blocks of each path
    room,     \* how many blocks create_new_dblock can still hand out
    others,   \* how many are with other files
    rename,   \* the rename under way
    broken,   \* the program was killed by a bad memory access, or the free list is wrong
    rough     \* (history) files with a write or truncation that failed

vars == <<nodes, room, others, rename, broken, rough>>

\* -1 is what functions return when they fail; in a size_t it is the largest value.
Failed == -1
Exceeds(size, n) == size = Failed \/ size > n

ZeroBlock == [i \in 1 .. BLOCK_SIZE |-> 0]
EmptyFile == [file_size |-> 0, blocks |-> <<>>]

\* A directory with one block of records.
Directory == [file_size |-> BLOCK_SIZE, blocks |-> <<ZeroBlock>>]

\* The parts of the blocks that hold n bytes from offset on.
PartsMutant(offset, n) ==  \* the end of the first of many blocks is missed
    LET first == offset \div BLOCK_SIZE
        last == (offset + n) \div BLOCK_SIZE
    IN  [i \in 1 .. last - first + 1 |->
           [block |-> first + i,
            at |-> IF i = 1 THEN offset % BLOCK_SIZE ELSE 0,
            len |-> IF first = last THEN n
                    ELSE IF i = last - first + 1 THEN (offset + n) % BLOCK_SIZE
                    ELSE BLOCK_SIZE - (offset % BLOCK_SIZE)]]

Parts(offset, n) ==
    LET first == offset \div BLOCK_SIZE
        last == (offset + n) \div BLOCK_SIZE
    IN  [i \in 1 .. last - first + 1 |->
           [block |-> first + i,
            at |-> IF i = 1 THEN offset % BLOCK_SIZE ELSE 0,
            len |-> IF first = last THEN n
                    ELSE IF i = 1 THEN BLOCK_SIZE - (offset % BLOCK_SIZE)
                    ELSE IF i = last - first + 1 THEN (offset + n) % BLOCK_SIZE
                    ELSE BLOCK_SIZE]]

There(parts, blocks) == \A i \in DOMAIN parts : parts[i].block <= Len(blocks)

-----------------------------------------------------------------------------
(* custom_read and custom_write: the results a call may have.              *)
Got(bytes) == [n |-> Len(bytes), bytes |-> bytes]
NoBytes == [n |-> Failed, bytes |-> <<>>]

\* Mutant: a read is not cut at the end of the file.
WithinMutant(node, n, offset) == n
Within(node, n, offset) == Min({n, node.file_size - offset})

ReadResults(node, nbytes, offset) ==
    LET parts == Parts(offset, Within(node, nbytes, offset))
        bytes == FlattenSeq([i \in DOMAIN parts |->
                    SubSeq(node.blocks[parts[i].block], parts[i].at + 1, parts[i].at + parts[i].len)])
    IN  IF node.file_size = 0 THEN {Got(<<>>)}
        ELSE IF Exceeds(offset, node.file_size) \/ ~ There(parts, node.blocks) THEN {NoBytes}
        ELSE {Got(bytes)} \cup (IF IOFaults THEN {NoBytes} ELSE {})

\* The blocks after the first k parts were written.
Filled(blocks, parts, k, bytes) ==
    LET Put(done, p) ==
            [blocks |-> [done.blocks EXCEPT ![p.block] =
                           [j \in 1 .. BLOCK_SIZE |->
                              IF j > p.at /\ j <= p.at + p.len THEN bytes[done.n + j - p.at] ELSE @[j]]],
             n |-> done.n + p.len]
        done[i \in 0 .. k] == IF i = 0 THEN [blocks |-> blocks, n |-> 0] ELSE Put(done[i - 1], parts[i])
    IN  done[k].blocks

MissingBlocks(node, end) == IF end > node.file_size THEN end \div BLOCK_SIZE - Len(node.blocks) + 1 ELSE 0

(* A write takes the blocks it lacks; when there are not enough, those it  *)
(* took are lost.  When it fails later, after k blocks were written, the   *)
(* inode is not: the size and the new blocks are forgotten, what went into *)
(* the old ones stays.                                                     *)
WriteResults(node, bytes, offset) ==
    LET end == offset + Len(bytes)
        missing == MissingBlocks(node, end)
        grown == node.blocks \o [i \in 1 .. missing |-> ZeroBlock]
        parts == Parts(offset, Len(bytes))
        after(k) == SubSeq(Filled(grown, parts, k, bytes), 1, Len(node.blocks))
    IN  IF missing > room THEN {[n |-> Failed, node |-> node, room |-> 0]}
        ELSE IF ~ There(parts, grown) THEN {[n |-> Failed, node |-> node, room |-> room - missing]}
        ELSE {[n |-> Len(bytes), room |-> room - missing,
               node |-> [file_size |-> Max({end, node.file_size}), blocks |-> Filled(grown, parts, Len(parts), bytes)]]}
             \cup {[n |-> Failed, room |-> room - missing, node |-> [node EXCEPT !.blocks = after(k)]] :
                      k \in IF IOFaults THEN 0 .. Len(parts) ELSE {}}

-----------------------------------------------------------------------------
(* The callbacks                                                           *)
Idle == [pc |-> "idle"]

Init ==
    /\ nodes = [p \in Files \cup Dirs |-> IF p \in Files THEN Absent ELSE Directory]
    /\ room = BlockCount /\ others = 0 /\ rename = Idle /\ broken = FALSE /\ rough = {}

Exists(p) == nodes[p] # Absent
Unlocked(p) == rename.pc # "idle" => p \notin {rename.from, rename.to}

\* charm_mknod, charm_create.
Create(f) ==
    /\ Unlocked(f) /\ ~ Exists(f)
    /\ nodes' = [nodes EXCEPT ![f] = EmptyFile]
    /\ UNCHANGED <<room, others, rename, broken, rough>>

\* n blocks go back to the free list.
Release(n) == room' = room + n /\ broken' = (broken \/ (room = 0 /\ n > 0))

\* Mutant: the blocks are counted by the size, which a file without blocks belies.
EraseMutant(f) ==
    /\ nodes' = [nodes EXCEPT ![f] = Absent]
    /\ Release(nodes[f].file_size \div BLOCK_SIZE + 1)
    /\ rough' = rough \ {f}

\* free_inode.
Erase(f) ==
    /\ nodes' = [nodes EXCEPT ![f] = Absent]
    /\ Release(Len(nodes[f].blocks))
    /\ rough' = rough \ {f}

Unlink(f) == Unlocked(f) /\ Exists(f) /\ Erase(f) /\ UNCHANGED <<others, rename>>

\* charm_write.
Write(f, offset, bytes) ==
    /\ Unlocked(f) /\ Exists(f) /\ offset + Len(bytes) <= MaxSize
    /\ \E r \in WriteResults(nodes[f], bytes, offset) :
          /\ nodes' = [nodes EXCEPT ![f] = r.node] /\ room' = r.room
          /\ rough' = IF r.n = Failed /\ r.node # nodes[f] THEN rough \cup {f} ELSE rough
    /\ UNCHANGED <<others, rename, broken>>

\* What is left of a block of which the first n bytes are kept.
ClearedMutant(block, n) == block  \* nothing is zeroed
Cleared(block, n) == [j \in 1 .. BLOCK_SIZE |-> IF j > n THEN 0 ELSE block[j]]

(* charm_truncate.  Whether the zeroed block could be read is not looked   *)
(* at, nor whether it and the inode could be written.  When the inode was  *)
(* not, the file keeps its size: with zeros from offset on when the cut    *)
(* was in its last block, and with blocks that are free otherwise.         *)
Truncate(f, offset) ==
    LET node == nodes[f]
        last == offset \div BLOCK_SIZE + 1
        kept == SubSeq(node.blocks, 1, last)
        zeroed == [kept EXCEPT ![last] = Cleared(@, offset % BLOCK_SIZE)]
        outcomes == {zeroed} \cup (IF IOFaults THEN {kept} ELSE {})
    IN  /\ Unlocked(f) /\ Exists(f)
        /\ offset <= node.file_size /\ node.file_size # 0
        /\ \/ /\ \E blocks \in outcomes :
                    /\ nodes' = [nodes EXCEPT ![f] = [file_size |-> offset, blocks |-> blocks]]
                    /\ rough' = IF blocks = zeroed THEN rough ELSE rough \cup {f}
              /\ Release(Len(node.blocks) - Len(kept))
           \/ /\ IOFaults /\ Len(kept) = Len(node.blocks)
              /\ \E blocks \in outcomes : nodes' = [nodes EXCEPT ![f].blocks = blocks]
              /\ UNCHANGED <<room, broken, rough>>
           \/ /\ IOFaults /\ broken' = TRUE
              /\ UNCHANGED <<nodes, room, rough>>
        /\ UNCHANGED <<others, rename>>

\* Blocks come and go with files that are not modelled.
OthersTake == room > 0 /\ others < Elsewhere /\ room' = room - 1 /\ others' = others + 1
OthersGive == others > 0 /\ Release(1) /\ others' = others - 1

-----------------------------------------------------------------------------
(* charm_rename                                                            *)

\* The old name is there, the new one is not, and the new file could be made.
RenameBegins(from, to) ==
    /\ rename.pc = "idle"
    /\ Exists(from) /\ ~ Exists(to)
    /\ nodes' = [nodes EXCEPT ![to] = EmptyFile]
    /\ rename' = [pc |-> "read", from |-> from, to |-> to, offset |-> 0, buffer |-> NoBytes, misread |-> FALSE,
                  original |-> nodes[from]]
    /\ UNCHANGED <<room, others, broken, rough>>

RenameReads ==
    /\ rename.pc = "read"
    /\ \E r \in ReadResults(nodes[rename.from], BLOCK_SIZE, rename.offset) :
          rename' = IF r.n = 0 THEN [rename EXCEPT !.pc = "unlink"]
                    ELSE [rename EXCEPT !.pc = "write", !.buffer = r, !.misread = @ \/ r.n = Failed]
    /\ UNCHANGED <<nodes, room, others, broken, rough>>

\* Mutant: the next read begins where this one did.
AdvancedMutant == [rename EXCEPT !.pc = "read"]
Advanced == [rename EXCEPT !.pc = "read", !.offset = @ + rename.buffer.n]

\* Mutant: the result of the write is not compared with that of the read.
AfterWriteMutant(n) == Advanced
AfterWrite(n) == IF n = rename.buffer.n THEN Advanced ELSE Idle

RenameWrites ==
    /\ rename.pc = "write" /\ rename.buffer.n # Failed
    /\ \E r \in WriteResults(nodes[rename.to], rename.buffer.bytes, rename.offset) :
          /\ nodes' = [nodes EXCEPT ![rename.to] = r.node] /\ room' = r.room
          /\ rename' = AfterWrite(r.n)
          /\ rough' = IF r.n = Failed /\ r.node # nodes[rename.to] THEN rough \cup {rename.to} ELSE rough
    /\ UNCHANGED <<others, broken>>

(* The failed read counts as one of the largest size there is, and so many *)
(* bytes are written.  At the beginning of the file no number of blocks is *)
(* enough: all are taken, the write fails with the very result of the read,*)
(* and the offset becomes too large for any read; it would fall to the size*)
(* of the file after 2^64 rounds, which is not modelled.  Further on the   *)
(* sum of offset and size is one less than the offset: nothing is written  *)
(* when that is in the block before, and too much is copied otherwise.     *)
RenameMiswrites ==
    /\ rename.pc = "write" /\ rename.buffer.n = Failed
    /\ \/ /\ rename.offset \in {0, Failed}
          /\ room' = 0
          /\ rename' = [rename EXCEPT !.pc = "read", !.offset = Failed]
          /\ UNCHANGED broken
       \/ /\ rename.offset > 0
          /\ rename.offset % BLOCK_SIZE = 0 \/ IOFaults
          /\ rename' = [rename EXCEPT !.pc = "read", !.offset = @ - 1]
          /\ UNCHANGED <<room, broken>>
       \/ /\ rename.offset > 0 /\ rename.offset % BLOCK_SIZE # 0
          /\ broken' = TRUE
          /\ UNCHANGED <<room, rename>>
    /\ UNCHANGED <<nodes, others, rough>>

RenameUnlinks ==
    /\ rename.pc = "unlink"
    /\ Erase(rename.from)
    /\ rename' = Idle
    /\ UNCHANGED others

RenameStep == ~ broken /\ (RenameReads \/ RenameWrites \/ RenameMiswrites \/ RenameUnlinks)

Callback ==
    \/ \E f \in Files :
          \/ Create(f) \/ Unlink(f)
          \/ \E offset \in Offsets : Truncate(f, offset) \/ \E bytes \in Payloads : Write(f, offset, bytes)
    \/ \E from \in Files \cup Dirs, to \in Files : RenameBegins(from, to)
    \/ OthersTake /\ UNCHANGED <<nodes, rename, broken, rough>>
    \/ OthersGive /\ UNCHANGED <<nodes, rename, rough>>

Next == (~ broken /\ Callback) \/ RenameStep

\* The thread that runs the rename is scheduled again and again.
Spec == Init /\ [][Next]_vars /\ WF_vars(RenameStep)

-----------------------------------------------------------------------------
\* The i-th byte of all that the blocks hold.
Byte(blocks, i) == blocks[(i - 1) \div BLOCK_SIZE + 1][((i - 1) % BLOCK_SIZE) + 1]

Contents(node) == [i \in 1 .. node.file_size |-> Byte(node.blocks, i)]

(* Types of the state.                                                     *)
TypeOK ==
    /\ \A f \in Files : Exists(f) => /\ nodes[f].file_size \in 0 .. MaxSize
                                     /\ nodes[f].blocks \in Seq(Seq(Nat))
                                     /\ \A i \in DOMAIN nodes[f].blocks : Len(nodes[f].blocks[i]) = BLOCK_SIZE
    /\ room \in 0 .. BlockCount /\ others \in 0 .. Elsewhere
    /\ rename.pc \in {"idle", "read", "write", "unlink"}
    /\ broken \in BOOLEAN /\ rough \subseteq Files

(* Behind the end of a file its blocks hold zeros, however it was written, *)
(* cut and written again; a later write behind the end relies on it.       *)
SlackZero ==
    \A f \in Files \ rough :
       Exists(f) => \A i \in nodes[f].file_size + 1 .. Len(nodes[f].blocks) * BLOCK_SIZE :
                      Byte(nodes[f].blocks, i) = 0

(* custom_read returns the bytes of the file from the offset on, as many as*)
(* there are, at every offset and for every size. It fails beyond the end, *)
(* and where the device does: up to the end it never lacks a block, also   *)
(* not the one behind a read that ends on a border.                        *)
ReadTrue ==
    \A f \in Files : Exists(f) =>
       \A offset \in 0 .. MaxSize + 1, n \in 1 .. MaxSize + 1 :
          LET results == ReadResults(nodes[f], n, offset)
          IN  /\ \A r \in results :
                    \/ r = NoBytes /\ (IOFaults \/ offset > nodes[f].file_size)
                    \/ r = Got(SubSeq(Contents(nodes[f]), offset + 1, Min({offset + n, nodes[f].file_size})))
              /\ offset <= nodes[f].file_size => \E r \in results : r # NoBytes

(* A rename takes the old name away only when the new one has all the      *)
(* bytes, whatever failed and whoever took the last blocks meanwhile.      *)
RenameKeepsData ==
    [][rename.pc # "idle" /\ nodes'[rename.from] # rename.original =>
         nodes'[rename.from] = Absent /\ Contents(nodes'[rename.to]) = Contents(rename.original)]_vars

(* A rename ends, unless a read fails in it or the model stops.            *)
RenameReturns == rename.pc # "idle" ~> (rename.pc = "idle" \/ broken \/ rename.misread)

BytesOf == INSTANCE ByteFiles WITH data <- [f \in Files |-> IF Exists(f) THEN Contents(nodes[f]) ELSE Absent]

ImplementsByteFiles == BytesOf!Spec
=============================================================================
