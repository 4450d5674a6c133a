--------------------------- MODULE ThreadsProofs ---------------------------
(***************************************************************************)
(* Theorems about Threads, for any number of threads and files and for     *)
(* every geometry of the device: first the locks and the data, then the    *)
(* free list, where, until something is mixed up, what the threads do      *)
(* access by access is what FreeList does in one step.                     *)
(***************************************************************************)
EXTENDS Threads, DataLemmas

-----------------------------------------------------------------------------
(* Types of the state and of what a thread holds                           *)

Calls == {"read", "write", "truncate"}

\* In create_new_dblock or free_dblock; at the data; past both.
ListPcs == {"zero", "list", "super", "node"}
DataPcs == {"data", "fill"}
StorePcs == {"block", "store"}
DonePcs == DataPcs \cup StorePcs
Pcs == {"inode"} \cup ListPcs \cup DonePcs

Busy == [pc : Pcs, want : Words \cup {1}, moved : BOOLEAN, call : Calls, file : Inodes, copy : Seq(Words),
         block : Words, node : [Slots -> Words], target : Words, head : Words, empty : BOOLEAN,
         image : [Inodes -> Seq(DataBlocks)]]

WantOK(th) ==
    /\ th.pc \in {"inode"} \cup StorePcs => th.want = 1
    /\ th.pc = "super" => th.want = 0
    /\ th.moved /\ th.pc \in {"zero", "list", "node"} \cup DataPcs => th.want \in DataBlocks

CopyOK(th) ==
    /\ th.pc \in ListPcs \cup StorePcs => th.copy \in Seq(DataBlocks)
    /\ th.pc \in DataPcs =>
         /\ th.copy # <<>> /\ th.want = Last(th.copy)
         /\ th.want \in DataBlocks => th.copy \in Seq(DataBlocks)

CallOK(th) ==
    /\ th.pc \in ListPcs \cup {"fill"} => th.call # "read"
    /\ th.pc = "zero" => th.call = "truncate" /\ th.want = th.block
    /\ th.empty => th.call = "truncate" /\ th.pc # "inode"

BlockOK(th) ==
    /\ th.call = "read" \/ th.pc = "inode" \/ (th.call = "write" /\ th.pc = "list") => th.block = 0
    /\ th.call = "truncate" /\ th.pc \in ListPcs => Len(th.copy) > 1 /\ th.block = Last(th.copy)
    /\ th.call = "write" /\ th.block = 0 => (th.pc = "super" => th.target = 0) /\ (th.pc = "node" => th.want = 0)
    /\ th.call = "write" /\ th.pc \in DonePcs => th.block # 0

ThreadOK(th) == WantOK(th) /\ CopyOK(th) /\ CallOK(th) /\ BlockOK(th)

TypeInv ==
    /\ pos \in 0 .. BLOCK_COUNT
    /\ disk \in [DataBlocks -> [Slots -> Words]]
    /\ free_list_head \in Words /\ super_disk \in Words
    /\ inode_block \in [Inodes -> Seq(DataBlocks)]
    /\ files \in [Inodes -> Seq(Words)]
    /\ mixed \subseteq Mixups \cup Inodes
    /\ threads \in [Threads -> Busy \cup {Idle}]
    /\ \A t \in Threads : threads[t] \in Busy => ThreadOK(threads[t])
    /\ settled = [head |-> settled.head, super |-> settled.super, disk |-> disk]
    /\ settled.head \in Words /\ settled.super \in Words

(* Busy threads are the ones that are not idle.                            *)
LEMMA BusyFacts ==
    /\ Idle \notin Busy /\ Idle.pc = "idle"
    /\ \A th \in Busy : th.pc # "idle" /\ th.pc \in Pcs
BY DEF Idle, Busy, Pcs, ListPcs, DonePcs, DataPcs, StorePcs

(* A thread whose program counter is not at "idle" is busy.                *)
LEMMA ThreadBusy ==
    ASSUME TypeInv, NEW t \in Threads, threads[t].pc # "idle"
    PROVE  threads[t] \in Busy /\ ThreadOK(threads[t])
BY BusyFacts DEF TypeInv

(* What Access does to the record of a thread.                             *)
LEMMA AccessFacts ==
    ASSUME NEW th \in Busy, NEW pc \in Pcs, NEW b \in Words \cup {1}
    PROVE  /\ Access(th, pc, b) \in Busy
           /\ Access(th, pc, b).pc = pc /\ Access(th, pc, b).want = b /\ ~ Access(th, pc, b).moved
           /\ Access(th, pc, b).call = th.call /\ Access(th, pc, b).file = th.file
           /\ Access(th, pc, b).copy = th.copy /\ Access(th, pc, b).block = th.block
           /\ Access(th, pc, b).node = th.node /\ Access(th, pc, b).target = th.target
           /\ Access(th, pc, b).head = th.head /\ Access(th, pc, b).empty = th.empty
           /\ Access(th, pc, b).image = th.image
<1> DEFINE a == Access(th, pc, b)
<1>1. a \in Busy
  BY DEF Busy, Access
<1>2. a.pc = pc /\ a.want = b /\ ~ a.moved
  BY DEF Busy, Access
<1>3. a.call = th.call /\ a.file = th.file /\ a.copy = th.copy /\ a.block = th.block
  BY DEF Busy, Access
<1>4. a.node = th.node /\ a.target = th.target /\ a.head = th.head /\ a.empty = th.empty /\ a.image = th.image
  BY DEF Busy, Access
<1> QED
  BY <1>1, <1>2, <1>3, <1>4

(* Numbers of blocks and words.                                            *)
LEMMA NumberFacts ==
    /\ DataBlocks \subseteq Words /\ DataBlocks \subseteq Nat /\ Words \subseteq Nat
    /\ 0 \in Words /\ 1 \notin Words /\ Data \in Words /\ 0 \notin DataBlocks /\ Data # 0 /\ Data \notin DataBlocks
    /\ \A b \in DataBlocks : b + 1 \in 0 .. BLOCK_COUNT /\ b \in 0 .. BLOCK_COUNT
    /\ 0 \in 0 .. BLOCK_COUNT /\ 1 \in 0 .. BLOCK_COUNT /\ 2 \in 0 .. BLOCK_COUNT
    /\ 0 \in Slots /\ Zero \in [Slots -> Words]
BY ThreadAssumption DEF DataBlocks, Words, Slots, Zero

(* Record of a thread after an assignment to some of its fields.           *)
LEMMA Assigned ==
    ASSUME NEW th \in Busy
    PROVE  /\ \A q \in Seq(Words) : [th EXCEPT !.copy = q] \in Busy
           /\ \A b \in Words : [th EXCEPT !.block = b] \in Busy
           /\ \A n \in [Slots -> Words] : [th EXCEPT !.node = n] \in Busy
           /\ \A m \in [Inodes -> Seq(DataBlocks)] : [th EXCEPT !.image = m] \in Busy
           /\ \A h \in Words : [th EXCEPT !.head = h, !.empty = TRUE] \in Busy
           /\ \A h \in Words, n \in [Slots -> Words], b \in Words :
                [th EXCEPT !.head = h, !.node = n, !.target = b] \in Busy
           /\ \A q \in Seq(Words), n \in [Slots -> Words] :
                [th EXCEPT !.copy = q, !.node = n, !.target = 0, !.head = 0] \in Busy
<1>1. \A q \in Seq(Words) : [th EXCEPT !.copy = q] \in Busy
  BY DEF Busy
<1>2. \A b \in Words : [th EXCEPT !.block = b] \in Busy
  BY DEF Busy
<1>3. \A n \in [Slots -> Words] : [th EXCEPT !.node = n] \in Busy
  BY DEF Busy
<1>4. \A m \in [Inodes -> Seq(DataBlocks)] : [th EXCEPT !.image = m] \in Busy
  BY DEF Busy
<1>5. \A h \in Words : [th EXCEPT !.head = h, !.empty = TRUE] \in Busy
  BY DEF Busy
<1>6. \A h \in Words, n \in [Slots -> Words], b \in Words :
        [th EXCEPT !.head = h, !.node = n, !.target = b] \in Busy
  BY DEF Busy
<1>7. \A q \in Seq(Words), n \in [Slots -> Words] :
        [th EXCEPT !.copy = q, !.node = n, !.target = 0, !.head = 0] \in Busy
  BY NumberFacts DEF Busy
<1> QED
  BY <1>1, <1>2, <1>3, <1>4, <1>5, <1>6, <1>7

(* Sequences of data blocks: the last one, the others, and one more.       *)
LEMMA CopyFacts ==
    ASSUME NEW S, NEW q \in Seq(S)
    PROVE  /\ Len(q) \in Nat
           /\ Len(q) > 0 => q # <<>> /\ Last(q) \in S
           /\ q # <<>> => Len(q) > 0
           /\ Front(q) \in Seq(S)
           /\ Len(q) > 1 => Len(Front(q)) > 0
           /\ \A b \in S : /\ Append(q, b) \in Seq(S) /\ Append(q, b) # <<>>
                            /\ Last(Append(q, b)) = b
           /\ \A T : S \subseteq T => q \in Seq(T)
<1>1. Len(q) \in Nat /\ DOMAIN q = 1 .. Len(q) /\ \A i \in 1 .. Len(q) : q[i] \in S
  BY LenProperties, ElementOfSeq
<1>2. Len(q) > 0 => q # <<>> /\ Last(q) \in S
  BY <1>1, EmptySeq DEF Last
<1>3. q # <<>> => Len(q) > 0
  BY <1>1, EmptySeq
<1>4. Front(q) \in Seq(S) /\ (Len(q) > 1 => Len(Front(q)) > 0)
  BY <1>1, SubSeqProperties DEF Front
<1>5. \A b \in S : Append(q, b) \in Seq(S) /\ Append(q, b) # <<>> /\ Last(Append(q, b)) = b
  BY <1>1, AppendProperties DEF Last
<1>6. \A T : S \subseteq T => q \in Seq(T)
  BY <1>1, SeqDef
<1> QED
  BY <1>1, <1>2, <1>3, <1>4, <1>5, <1>6

(* A step of one thread leaves the others alone.                           *)
LEMMA BecomesFacts ==
    ASSUME TypeInv, NEW t \in Threads, NEW new, new = Idle \/ (new \in Busy /\ ThreadOK(new)), Becomes(t, new)
    PROVE  /\ threads' \in [Threads -> Busy \cup {Idle}]
           /\ \A u \in Threads : threads'[u] \in Busy => ThreadOK(threads'[u])
           /\ threads'[t] = new
           /\ \A u \in Threads \ {t} : threads'[u] = threads[u]
BY BusyFacts DEF TypeInv, Becomes

-----------------------------------------------------------------------------
(* What one access does to its thread                                      *)

\* How a thread gets on with the inode it works on.
Advances(th, new) ==
    /\ new.call = th.call /\ new.file = th.file
    /\ \/ th.pc = "inode" /\ new.pc = "inode"
       \/ /\ th.pc = "inode" /\ new.pc \in ListPcs \cup DataPcs
          /\ new.copy = inode_block[th.file] /\ (new.pc \in DataPcs => new.block = 0)
       \/ th.pc \in ListPcs /\ new.pc \in ListPcs /\ new.copy = th.copy
       \/ /\ th.pc = "node" /\ new.pc \in DataPcs /\ new.block = th.block /\ new.block # 0
          /\ new.copy = IF th.call = "write" THEN Append(th.copy, th.block) ELSE Front(th.copy)
       \/ th.pc \in DonePcs /\ new.pc \in DonePcs /\ new.copy = th.copy /\ new.block = th.block
    /\ new.pc = "store" => IF th.pc = "store" THEN new.image = th.image ELSE th.pc = "block" /\ new.image = inode_block

Steps(t) ==
    \/ Becomes(t, Idle)
    \/ \E new \in Busy : ThreadOK(new) /\ Advances(threads[t], new) /\ Becomes(t, new)

(* Program counters.                                                       *)
LEMMA PcFacts ==
    /\ ListPcs = {"zero", "list", "super", "node"} /\ DonePcs = {"data", "fill", "block", "store"}
    /\ DataPcs = {"data", "fill"} /\ StorePcs = {"block", "store"}
    /\ Pcs = {"inode", "zero", "list", "super", "node", "data", "fill", "block", "store"}
BY DEF ListPcs, DonePcs, DataPcs, StorePcs, Pcs

(* Each of them by name.                                                   *)
LEMMA PcNames ==
    /\ "inode" \in Pcs /\ "zero" \in Pcs /\ "list" \in Pcs /\ "super" \in Pcs /\ "node" \in Pcs
    /\ "data" \in Pcs /\ "fill" \in Pcs /\ "block" \in Pcs /\ "store" \in Pcs
BY PcFacts

(* lseek.                                                                  *)
LEMMA SeekSteps ==
    ASSUME TypeInv, NEW t \in Threads, Seek(t)
    PROVE  Steps(t)
<1> DEFINE th == threads[t]
           new == [th EXCEPT !.moved = TRUE]
<1>1. th \in Busy /\ ThreadOK(th) /\ ~ Refused(th)
  BY ThreadBusy DEF Seek
<1>2. /\ new \in Busy
      /\ new.pc = th.pc /\ new.want = th.want /\ new.call = th.call /\ new.file = th.file
      /\ new.copy = th.copy /\ new.block = th.block /\ new.target = th.target /\ new.empty = th.empty
      /\ new.image = th.image
  BY <1>1 DEF Busy
<1>3. Becomes(t, new)
  BY <1>1 DEF Seek, Becomes, TypeInv
<1> HIDE DEF new, th
<1>4. ThreadOK(new)
  BY <1>1, <1>2, PcFacts DEF ThreadOK, WantOK, CopyOK, CallOK, BlockOK, Refused
<1>5. Advances(th, new)
  BY <1>1, <1>2, PcFacts, BusyFacts DEF Advances
<1> QED
  BY <1>2, <1>3, <1>4, <1>5 DEF Steps, th

(* read_inode.                                                             *)
LEMMA ReadInodeSteps ==
    ASSUME TypeInv, NEW t \in Threads, ReadInode(t)
    PROVE  Steps(t)
<1> DEFINE old == threads[t]
           th == [old EXCEPT !.copy = inode_block[old.file]]
           n == Len(th.copy)
<1>1. old \in Busy /\ ThreadOK(old) /\ old.pc = "inode"
  BY ThreadBusy DEF ReadInode, At
<1>2. inode_block[old.file] \in Seq(DataBlocks) /\ inode_block[old.file] \in Seq(Words)
  BY <1>1, NumberFacts, CopyFacts DEF TypeInv, Busy
<1>3. th \in Busy
  BY <1>1, <1>2, Assigned
<1>4. /\ th.copy = inode_block[old.file] /\ th.call = old.call /\ th.file = old.file
      /\ th.block = 0 /\ th.pc = "inode" /\ ~ th.empty
  <2>1. old.block = 0 /\ ~ old.empty
    BY <1>1 DEF ThreadOK, BlockOK, CallOK, Busy
  <2> QED
    BY <1>1, <2>1 DEF Busy
<1>5. n \in Nat /\ (n > 0 => th.copy # <<>> /\ Last(th.copy) \in DataBlocks)
  BY <1>2, <1>4, CopyFacts
<1>6. \/ /\ th.call = "write" /\ free_list_head # 0
         /\ Becomes(t, Access(th, "list", free_list_head))
      \/ /\ th.call = "truncate" /\ n > 1
         /\ Becomes(t, Access([th EXCEPT !.block = Last(th.copy)], "zero", Last(th.copy)))
      \/ /\ (th.call = "read" /\ n > 0) \/ (th.call = "truncate" /\ n = 1)
         /\ Becomes(t, Access(th, "data", Last(th.copy)))
      \/ Becomes(t, Idle)
  BY DEF ReadInode
<1> HIDE DEF old, th
<1>7. CASE th.call = "write" /\ Becomes(t, Access(th, "list", free_list_head))
  <2> DEFINE new == Access(th, "list", free_list_head)
  <2>0. free_list_head \in Words \cup {1}
    BY DEF TypeInv
  <2>pc. "list" \in Pcs
    BY PcNames
  <2>1. /\ new \in Busy /\ new.pc = "list" /\ new.call = th.call /\ new.file = th.file /\ new.copy = th.copy
        /\ new.block = 0 /\ ~ new.empty /\ ~ new.moved
    BY <1>3, <1>4, <2>0, <2>pc, AccessFacts
  <2> HIDE DEF new
  <2>2. ThreadOK(new)
    BY <1>2, <1>4, <1>7, <2>1, PcFacts DEF ThreadOK, WantOK, CopyOK, CallOK, BlockOK
  <2>3. Advances(old, new)
    BY <1>1, <1>4, <2>1, PcFacts DEF Advances
  <2> QED
    BY <1>7, <2>1, <2>2, <2>3 DEF Steps, old, new
<1>8. CASE /\ th.call = "truncate" /\ n > 1
           /\ Becomes(t, Access([th EXCEPT !.block = Last(th.copy)], "zero", Last(th.copy)))
  <2> DEFINE b == Last(th.copy)
             cut == [th EXCEPT !.block = b]
             new == Access(cut, "zero", b)
  <2>1. b \in DataBlocks /\ b \in Words
    BY <1>5, <1>8, NumberFacts
  <2>2. /\ cut \in Busy /\ cut.call = th.call /\ cut.file = th.file /\ cut.copy = th.copy /\ cut.block = b
        /\ ~ cut.empty
    <3> HIDE DEF b
    <3> QED
      <4>1. cut \in Busy
        BY <1>3, <2>1, Assigned
      <4> QED
        BY <1>3, <1>4, <4>1 DEF Busy
  <2> HIDE DEF cut
  <2>pc. "zero" \in Pcs
    BY PcNames
  <2>3. /\ new \in Busy /\ new.pc = "zero" /\ new.call = th.call /\ new.file = th.file /\ new.copy = th.copy
        /\ new.block = b /\ ~ new.empty /\ ~ new.moved /\ new.want = b
    BY <2>1, <2>2, <2>pc, AccessFacts
  <2> HIDE DEF new
  <2>4. ThreadOK(new)
    BY <1>2, <1>4, <1>8, <2>3, PcFacts DEF ThreadOK, WantOK, CopyOK, CallOK, BlockOK
  <2>5. Advances(old, new)
    BY <1>1, <1>4, <2>3, PcFacts DEF Advances
  <2> QED
    BY <1>8, <2>3, <2>4, <2>5 DEF Steps, old, new, cut
<1>9. CASE /\ (th.call = "read" /\ n > 0) \/ (th.call = "truncate" /\ n = 1)
           /\ Becomes(t, Access(th, "data", Last(th.copy)))
  <2> DEFINE b == Last(th.copy)
             new == Access(th, "data", b)
  <2>1. b \in DataBlocks /\ b \in Words /\ th.copy # <<>>
    <3>1. n > 0
      BY <1>9
    <3> HIDE DEF n
    <3> QED
      BY <1>5, <3>1, NumberFacts
  <2>pc. "data" \in Pcs
    BY PcNames
  <2>2. /\ new \in Busy /\ new.pc = "data" /\ new.call = th.call /\ new.file = th.file /\ new.copy = th.copy
        /\ new.block = 0 /\ ~ new.empty /\ ~ new.moved /\ new.want = b
    <3>1. b \in Words \cup {1}
      BY <2>1
    <3> HIDE DEF b
    <3> QED
      BY <1>3, <1>4, <3>1, <2>pc, AccessFacts
  <2> HIDE DEF new
  <2>3. ThreadOK(new)
    BY <1>2, <1>4, <1>9, <2>1, <2>2, PcFacts DEF ThreadOK, WantOK, CopyOK, CallOK, BlockOK
  <2>4. Advances(old, new)
    BY <1>1, <1>4, <2>2, PcFacts DEF Advances
  <2> QED
    BY <1>9, <2>2, <2>3, <2>4 DEF Steps, old, new
<1>10. CASE Becomes(t, Idle)
  BY <1>10 DEF Steps
<1> QED
  BY <1>6, <1>7, <1>8, <1>9, <1>10

(* What is known of a thread that makes an access.                         *)
LEMMA AtFacts ==
    ASSUME TypeInv, NEW t \in Threads, NEW pc \in Pcs, At(t, pc)
    PROVE  /\ threads[t] \in Busy /\ ThreadOK(threads[t])
           /\ threads[t].pc = pc /\ threads[t].moved /\ pos = threads[t].want
           /\ pc \in {"zero", "list", "node", "data", "fill"} => threads[t].want \in DataBlocks
<1>1. threads[t].pc = pc /\ threads[t].moved /\ pos = threads[t].want
  BY DEF At
<1>2. pc # "idle"
  BY PcFacts
<1>3. threads[t] \in Busy /\ ThreadOK(threads[t])
  BY <1>1, <1>2, ThreadBusy
<1>4. pc \in {"zero", "list", "node", "data", "fill"} => threads[t].want \in DataBlocks
  BY <1>1, <1>3 DEF ThreadOK, WantOK, DataPcs
<1> QED
  BY <1>1, <1>3, <1>4

(* The zeroing write of free_dblock.                                       *)
LEMMA ZeroBlockSteps ==
    ASSUME TypeInv, NEW t \in Threads, ZeroBlock(t)
    PROVE  Steps(t)
<1> DEFINE th == threads[t]
<1>1. th \in Busy /\ ThreadOK(th) /\ th.pc = "zero" /\ th.want \in DataBlocks
  <2>1. "zero" \in Pcs /\ At(t, "zero")
    BY PcNames DEF ZeroBlock
  <2> QED
    BY <2>1, AtFacts
<1>2. th.call = "truncate" /\ th.want = th.block /\ th.block \in Words
  BY <1>1, NumberFacts DEF ThreadOK, CallOK
<1>3. \/ Becomes(t, Access([th EXCEPT !.head = th.block, !.empty = TRUE], "super", 0))
      \/ Becomes(t, Access(th, "list", free_list_head))
  BY DEF ZeroBlock
<1>4. th.copy \in Seq(DataBlocks) /\ Len(th.copy) > 1 /\ th.block = Last(th.copy)
  BY <1>1, <1>2, PcFacts DEF ThreadOK, CopyOK, BlockOK
<1> HIDE DEF th
<1>5. CASE Becomes(t, Access([th EXCEPT !.head = th.block, !.empty = TRUE], "super", 0))
  <2> DEFINE mid == [th EXCEPT !.head = th.block, !.empty = TRUE]
             new == Access(mid, "super", 0)
  <2>1. mid \in Busy
    BY <1>1, <1>2, Assigned
  <2>2. mid.call = th.call /\ mid.file = th.file /\ mid.copy = th.copy /\ mid.block = th.block
    BY <1>1, <2>1 DEF Busy
  <2> HIDE DEF mid
  <2>pc. "super" \in Pcs
    BY PcNames
  <2>want. 0 \in Words \cup {1}
    BY NumberFacts
  <2>3. /\ new \in Busy /\ new.pc = "super" /\ new.call = th.call /\ new.file = th.file /\ new.copy = th.copy
        /\ new.block = th.block /\ new.want = 0
    BY <2>1, <2>2, <2>pc, <2>want, AccessFacts
  <2> HIDE DEF new
  <2>4. ThreadOK(new)
    BY <1>2, <1>4, <2>3, PcFacts DEF ThreadOK, WantOK, CopyOK, CallOK, BlockOK
  <2>5. Advances(th, new)
    BY <1>1, <2>3, PcFacts DEF Advances
  <2> QED
    BY <1>5, <2>3, <2>4, <2>5 DEF Steps, th, mid, new
<1>6. CASE Becomes(t, Access(th, "list", free_list_head))
  <2> DEFINE new == Access(th, "list", free_list_head)
  <2>pc. "list" \in Pcs
    BY PcNames
  <2>want. free_list_head \in Words \cup {1}
    BY DEF TypeInv
  <2>1. /\ new \in Busy /\ new.pc = "list" /\ new.call = th.call /\ new.file = th.file /\ new.copy = th.copy
        /\ new.block = th.block /\ ~ new.moved
    BY <1>1, <2>pc, <2>want, AccessFacts
  <2> HIDE DEF new
  <2>2. ThreadOK(new)
    BY <1>2, <1>4, <2>1, PcFacts DEF ThreadOK, WantOK, CopyOK, CallOK, BlockOK
  <2>3. Advances(th, new)
    BY <1>1, <2>1, PcFacts DEF Advances
  <2> QED
    BY <1>6, <2>1, <2>2, <2>3 DEF Steps, th, new
<1> QED
  BY <1>3, <1>5, <1>6

(* KeepHead and MoveHead, from a list block that was read.                 *)
LEMMA KeepHeadSteps ==
    ASSUME TypeInv, NEW t \in Threads, NEW th \in Busy, NEW node \in [Slots -> Words], KeepHead(t, th, node),
           threads[t].pc = "list", th.call = threads[t].call, th.file = threads[t].file, th.copy = threads[t].copy,
           th.copy \in Seq(DataBlocks), th.call # "read", th.empty => th.call = "truncate",
           th.call = "truncate" => Len(th.copy) > 1 /\ th.block = Last(th.copy),
           th.call = "write" => th.block # 0
    PROVE  Steps(t)
<1> DEFINE mid == [th EXCEPT !.node = node]
           new == Access(mid, "node", free_list_head)
<1>1. mid \in Busy
  BY Assigned
<1>2. /\ mid.call = th.call /\ mid.file = th.file /\ mid.copy = th.copy /\ mid.block = th.block
      /\ mid.empty = th.empty
  BY <1>1 DEF Busy
<1> HIDE DEF mid
<1>pc. "node" \in Pcs
  BY PcNames
<1>want. free_list_head \in Words \cup {1}
  BY DEF TypeInv
<1>3. /\ new \in Busy /\ new.pc = "node" /\ new.call = th.call /\ new.file = th.file /\ new.copy = th.copy
      /\ new.block = th.block /\ ~ new.moved /\ new.empty = th.empty
  BY <1>1, <1>2, <1>pc, <1>want, AccessFacts
<1> HIDE DEF new
<1>4. ThreadOK(new)
  BY <1>3, PcFacts DEF ThreadOK, WantOK, CopyOK, CallOK, BlockOK
<1>5. Advances(threads[t], new)
  BY <1>3, PcFacts DEF Advances
<1> QED
  BY <1>3, <1>4, <1>5 DEF Steps, KeepHead, mid, new

(* And when the head moves.                                                *)
LEMMA MoveHeadSteps ==
    ASSUME TypeInv, NEW t \in Threads, NEW th \in Busy, NEW node \in [Slots -> Words],
           NEW head \in Words, NEW target \in Words, MoveHead(t, th, head, node, target),
           threads[t].pc = "list", th.call = threads[t].call, th.file = threads[t].file, th.copy = threads[t].copy,
           th.copy \in Seq(DataBlocks), th.call # "read", th.empty => th.call = "truncate",
           th.call = "truncate" => Len(th.copy) > 1 /\ th.block = Last(th.copy),
           th.call = "write" /\ th.block = 0 => target = 0
    PROVE  Steps(t)
<1> DEFINE mid == [th EXCEPT !.head = head, !.node = node, !.target = target]
           new == Access(mid, "super", 0)
<1>1. mid \in Busy
  BY Assigned
<1>2. /\ mid.call = th.call /\ mid.file = th.file /\ mid.copy = th.copy /\ mid.block = th.block
      /\ mid.empty = th.empty /\ mid.target = target
  BY <1>1 DEF Busy
<1> HIDE DEF mid
<1>pc. "super" \in Pcs
  BY PcNames
<1>want. 0 \in Words \cup {1}
  BY NumberFacts
<1>3. /\ new \in Busy /\ new.pc = "super" /\ new.call = th.call /\ new.file = th.file /\ new.copy = th.copy
      /\ new.block = th.block /\ new.want = 0 /\ new.empty = th.empty /\ new.target = target
  BY <1>1, <1>2, <1>pc, <1>want, AccessFacts
<1> HIDE DEF new
<1>4. ThreadOK(new)
  BY <1>3, PcFacts DEF ThreadOK, WantOK, CopyOK, CallOK, BlockOK
<1>5. Advances(threads[t], new)
  BY <1>3, PcFacts DEF Advances
<1> QED
  BY <1>3, <1>4, <1>5 DEF Steps, MoveHead, mid, new

(* The list block read by create_new_dblock.                               *)
LEMMA ReadListToCreateSteps ==
    ASSUME TypeInv, NEW t \in Threads, ReadListToCreate(t)
    PROVE  Steps(t)
<1> DEFINE th == threads[t]
           read == disk[th.want]
<1>1. th \in Busy /\ ThreadOK(th) /\ th.pc = "list" /\ th.want \in DataBlocks /\ th.call = "write"
  <2>1. "list" \in Pcs /\ At(t, "list")
    BY PcNames DEF ReadListToCreate
  <2>2. th.call = "write"
    BY DEF ReadListToCreate
  <2> QED
    BY <2>1, <2>2, AtFacts
<1>2. th.copy \in Seq(DataBlocks) /\ ~ th.empty
  BY <1>1, PcFacts DEF ThreadOK, CopyOK, CallOK
<1>3. read \in [Slots -> Words] /\ \A s \in Slots : read[s] \in Words /\ Erased(read, s) \in [Slots -> Words]
  <2>1. read \in [Slots -> Words]
    BY <1>1 DEF TypeInv
  <2> HIDE DEF read
  <2> QED
    BY <2>1, NumberFacts DEF Erased
<1>4. \/ \E s \in Atomic!EntrySlots :
            /\ Atomic!FirstUsed(read, s)
            /\ KeepHead(t, [th EXCEPT !.block = read[s]], Erased(read, s))
      \/ MoveHead(t, [th EXCEPT !.block = free_list_head], read[0], Erased(read, 0), free_list_head)
  BY DEF ReadListToCreate
<1> HIDE DEF th, read
<1>5. ASSUME NEW b \in Words
      PROVE  /\ [th EXCEPT !.block = b] \in Busy
             /\ [th EXCEPT !.block = b].call = "write" /\ [th EXCEPT !.block = b].file = th.file
             /\ [th EXCEPT !.block = b].copy = th.copy /\ ~ [th EXCEPT !.block = b].empty
             /\ [th EXCEPT !.block = b].block = b
  <2>1. [th EXCEPT !.block = b] \in Busy
    BY <1>1, Assigned
  <2> QED
    BY <1>1, <1>2, <2>1 DEF Busy
<1>6. ASSUME NEW s \in Atomic!EntrySlots, Atomic!FirstUsed(read, s),
             KeepHead(t, [th EXCEPT !.block = read[s]], Erased(read, s))
      PROVE  Steps(t)
  <2>1. s \in Slots /\ read[s] # 0
    BY <1>6 DEF Atomic!FirstUsed, Atomic!EntrySlots, Slots
  <2>2. read[s] \in Words /\ Erased(read, s) \in [Slots -> Words]
    BY <1>3, <2>1
  <2> DEFINE b == read[s]
             got == [th EXCEPT !.block = b]
  <2>3. /\ got \in Busy /\ got.call = "write" /\ got.file = th.file /\ got.copy = th.copy /\ ~ got.empty
        /\ got.block = b
    BY <1>5, <2>2
  <2> HIDE DEF got
  <2>4. KeepHead(t, got, Erased(read, s))
    BY <1>6 DEF got
  <2> QED
    BY <1>1, <1>2, <2>1, <2>2, <2>3, <2>4, KeepHeadSteps DEF th
<1>7. CASE MoveHead(t, [th EXCEPT !.block = free_list_head], read[0], Erased(read, 0), free_list_head)
  <2>1. read[0] \in Words /\ Erased(read, 0) \in [Slots -> Words] /\ free_list_head \in Words
    BY <1>3, NumberFacts DEF TypeInv
  <2> DEFINE got == [th EXCEPT !.block = free_list_head]
  <2>2. /\ got \in Busy /\ got.call = "write" /\ got.file = th.file /\ got.copy = th.copy /\ ~ got.empty
        /\ got.block = free_list_head
    BY <1>5, <2>1
  <2> HIDE DEF got
  <2>3. MoveHead(t, got, read[0], Erased(read, 0), free_list_head)
    BY <1>7 DEF got
  <2> QED
    BY <1>1, <1>2, <2>1, <2>2, <2>3, MoveHeadSteps DEF th
<1> QED
  BY <1>4, <1>6, <1>7

(* The list block read by free_dblock.                                     *)
LEMMA ReadListToFreeSteps ==
    ASSUME TypeInv, NEW t \in Threads, ReadListToFree(t)
    PROVE  Steps(t)
<1> DEFINE th == threads[t]
           read == disk[th.want]
<1>1. th \in Busy /\ ThreadOK(th) /\ th.pc = "list" /\ th.want \in DataBlocks /\ th.call = "truncate"
  <2>1. "list" \in Pcs /\ At(t, "list")
    BY PcNames DEF ReadListToFree
  <2>2. th.call = "truncate"
    BY DEF ReadListToFree
  <2> QED
    BY <2>1, <2>2, AtFacts
<1>2. th.copy \in Seq(DataBlocks) /\ Len(th.copy) > 1 /\ th.block = Last(th.copy) /\ th.block \in Words
  BY <1>1, PcFacts DEF ThreadOK, CopyOK, BlockOK, Busy
<1>3. read \in [Slots -> Words] /\ free_list_head \in Words
  BY <1>1 DEF TypeInv
<1>4. \/ \E s \in Atomic!EntrySlots : KeepHead(t, th, [read EXCEPT ![s] = th.block])
      \/ MoveHead(t, th, th.block, [Zero EXCEPT ![0] = free_list_head], th.block)
  BY DEF ReadListToFree
<1> HIDE DEF th, read
<1>5. ASSUME NEW s \in Atomic!EntrySlots, KeepHead(t, th, [read EXCEPT ![s] = th.block])
      PROVE  Steps(t)
  <2> DEFINE node == [read EXCEPT ![s] = th.block]
  <2>1. node \in [Slots -> Words]
    BY <1>2, <1>3
  <2> HIDE DEF node
  <2>2. KeepHead(t, th, node)
    BY <1>5 DEF node
  <2> QED
    BY <1>1, <1>2, <2>1, <2>2, KeepHeadSteps DEF th
<1>6. CASE MoveHead(t, th, th.block, [Zero EXCEPT ![0] = free_list_head], th.block)
  <2> DEFINE node == [Zero EXCEPT ![0] = free_list_head]
             b == th.block
  <2>1. node \in [Slots -> Words] /\ b \in Words
    BY <1>2, <1>3, NumberFacts
  <2> HIDE DEF node, b
  <2>2. MoveHead(t, th, b, node, b)
    BY <1>6 DEF node, b
  <2> QED
    BY <1>1, <1>2, <2>1, <2>2, MoveHeadSteps DEF th
<1> QED
  BY <1>4, <1>5, <1>6

(* The write of the superblock.                                            *)
LEMMA WriteSuperSteps ==
    ASSUME TypeInv, NEW t \in Threads, WriteSuper(t)
    PROVE  Steps(t)
<1> DEFINE th == threads[t]
<1>1. th \in Busy /\ ThreadOK(th) /\ th.pc = "super"
  <2>1. "super" \in Pcs /\ At(t, "super")
    BY PcNames DEF WriteSuper
  <2> QED
    BY <2>1, AtFacts
<1>2. /\ th.copy \in Seq(DataBlocks) /\ th.call # "read" /\ (th.empty => th.call = "truncate")
      /\ th.call = "truncate" => Len(th.copy) > 1 /\ th.block = Last(th.copy)
      /\ th.call = "write" /\ th.block = 0 => th.target = 0
  BY <1>1, PcFacts DEF ThreadOK, CopyOK, BlockOK, CallOK
<1>3. \/ th.empty /\ Becomes(t, Access(th, "list", free_list_head))
      \/ Becomes(t, Access(th, "node", th.target))
  BY DEF WriteSuper
<1>4. th.target \in Words \cup {1} /\ free_list_head \in Words \cup {1}
  BY <1>1 DEF Busy, TypeInv
<1> HIDE DEF th
<1>5. CASE th.empty /\ Becomes(t, Access(th, "list", free_list_head))
  <2> DEFINE new == Access(th, "list", free_list_head)
  <2>pc. "list" \in Pcs
    BY PcNames
  <2>1. /\ new \in Busy /\ new.pc = "list" /\ new.call = th.call /\ new.file = th.file /\ new.copy = th.copy
        /\ new.block = th.block /\ ~ new.moved
    BY <1>1, <1>4, <2>pc, AccessFacts
  <2> HIDE DEF new
  <2>2. ThreadOK(new)
    BY <1>2, <1>5, <2>1, PcFacts DEF ThreadOK, WantOK, CopyOK, CallOK, BlockOK
  <2>3. Advances(th, new)
    BY <1>1, <2>1, PcFacts DEF Advances
  <2> QED
    BY <1>5, <2>1, <2>2, <2>3 DEF Steps, th, new
<1>6. CASE Becomes(t, Access(th, "node", th.target))
  <2> DEFINE b == th.target
             new == Access(th, "node", b)
  <2>pc. "node" \in Pcs
    BY PcNames
  <2>1. b \in Words \cup {1}
    BY <1>4
  <2> HIDE DEF b
  <2>2. /\ new \in Busy /\ new.pc = "node" /\ new.call = th.call /\ new.file = th.file /\ new.copy = th.copy
        /\ new.block = th.block /\ ~ new.moved /\ new.want = b /\ new.empty = th.empty
    BY <1>1, <2>1, <2>pc, AccessFacts
  <2> HIDE DEF new
  <2>3. ThreadOK(new)
    BY <1>2, <2>2, PcFacts DEF ThreadOK, WantOK, CopyOK, CallOK, BlockOK, b
  <2>4. Advances(th, new)
    BY <1>1, <2>2, PcFacts DEF Advances
  <2> QED
    BY <1>6, <2>2, <2>3, <2>4 DEF Steps, th, new, b
<1> QED
  BY <1>3, <1>5, <1>6

\* The copy of the inode after the call of create_new_dblock or free_dblock.
CopyAfter(th) == IF th.call = "write" THEN Append(th.copy, th.block) ELSE Front(th.copy)

(* The last write of create_new_dblock and free_dblock.                    *)
LEMMA WriteNodeSteps ==
    ASSUME TypeInv, NEW t \in Threads, WriteNode(t)
    PROVE  Steps(t)
<1> DEFINE th == threads[t]
           copy == CopyAfter(th)
           b == Last(copy)
           mid == [th EXCEPT !.copy = copy, !.node = Zero, !.target = 0, !.head = 0]
           new == Access(mid, "data", b)
<1>1. th \in Busy /\ ThreadOK(th) /\ th.pc = "node" /\ th.want \in DataBlocks
  <2>1. "node" \in Pcs /\ At(t, "node")
    BY PcNames DEF WriteNode
  <2> QED
    BY <2>1, AtFacts
<1>2. /\ th.copy \in Seq(DataBlocks) /\ th.call # "read" /\ th.block \in Words
      /\ th.call = "truncate" => Len(th.copy) > 1 /\ th.block = Last(th.copy)
      /\ th.call = "write" => th.block # 0
      /\ th.empty => th.call = "truncate"
  <2>1. th.call = "write" /\ th.block = 0 => th.want = 0
    BY <1>1 DEF ThreadOK, BlockOK
  <2> QED
    BY <1>1, <2>1, PcFacts, NumberFacts DEF ThreadOK, CopyOK, BlockOK, CallOK, Busy
<1>3. Becomes(t, new)
  BY DEF WriteNode, CopyAfter
<1>4. th.call \in {"write", "truncate"} /\ th.block # 0
  <2>1. th.call = "truncate" => th.block \in DataBlocks
    BY <1>2, CopyFacts
  <2>2. th.call \in {"write", "truncate"}
    BY <1>1, <1>2 DEF Busy, Calls
  <2> QED
    BY <1>2, <2>1, <2>2, NumberFacts
<1>5. /\ copy \in Seq(Words) /\ copy # <<>> /\ b \in Words
      /\ b \in DataBlocks => copy \in Seq(DataBlocks)
  <2>1. CASE th.call = "write"
    <3>1. copy = Append(th.copy, th.block) /\ th.copy \in Seq(Words)
      <4>1. th.copy \in Seq(DataBlocks) /\ DataBlocks \subseteq Words
        BY <1>2, NumberFacts
      <4>2. th.copy \in Seq(Words)
        BY <4>1, CopyFacts
      <4> QED
        BY <2>1, <4>2 DEF CopyAfter
    <3>2. copy \in Seq(Words) /\ copy # <<>> /\ b = th.block
      <4>1. th.copy \in Seq(Words) /\ th.block \in Words
        BY <1>2, <3>1
      <4>2. /\ Append(th.copy, th.block) \in Seq(Words) /\ Append(th.copy, th.block) # <<>>
            /\ Last(Append(th.copy, th.block)) = th.block
        <5>1. ASSUME NEW q \in Seq(Words), NEW x \in Words
              PROVE  Append(q, x) \in Seq(Words) /\ Append(q, x) # <<>> /\ Last(Append(q, x)) = x
          BY CopyFacts
        <5> QED
          BY <4>1, <5>1
      <4> HIDE DEF copy
      <4> QED
        BY <3>1, <4>2
    <3>3. th.block \in DataBlocks => copy \in Seq(DataBlocks)
      BY <1>2, <3>1, CopyFacts
    <3> QED
      BY <1>2, <3>2, <3>3
  <2>2. CASE th.call = "truncate"
    <3>1. copy = Front(th.copy)
      BY <2>2 DEF CopyAfter
    <3>2. copy \in Seq(DataBlocks) /\ Len(copy) > 0
      BY <1>2, <2>2, <3>1, CopyFacts
    <3>3. copy # <<>> /\ b \in DataBlocks /\ copy \in Seq(Words)
      BY <3>2, CopyFacts, NumberFacts
    <3> QED
      BY <3>2, <3>3, NumberFacts
  <2> QED
    BY <1>4, <2>1, <2>2
<1> HIDE DEF th, copy
<1>6. mid \in Busy
  <2>1. Zero \in [Slots -> Words]
    BY NumberFacts
  <2> QED
    BY <1>1, <1>5, <2>1, Assigned
<1>7. /\ mid.call = th.call /\ mid.file = th.file /\ mid.copy = copy /\ mid.block = th.block
      /\ mid.empty = th.empty
  BY <1>1, <1>6 DEF Busy
<1>pc. "data" \in Pcs
  BY PcNames
<1>want. b \in Words \cup {1}
  BY <1>5
<1> HIDE DEF b, mid
<1>8. /\ new \in Busy /\ new.pc = "data" /\ new.call = th.call /\ new.file = th.file /\ new.copy = copy
      /\ new.block = th.block /\ new.want = b /\ ~ new.moved /\ new.empty = th.empty
  BY <1>6, <1>7, <1>pc, <1>want, AccessFacts
<1> HIDE DEF new
<1>9. ThreadOK(new)
  BY <1>2, <1>5, <1>8, PcFacts DEF ThreadOK, WantOK, CopyOK, CallOK, BlockOK, b
<1>10. Advances(th, new)
  BY <1>1, <1>4, <1>8, PcFacts DEF Advances, copy, CopyAfter
<1> QED
  BY <1>3, <1>8, <1>9, <1>10 DEF Steps, th

(* The read of the last block.                                             *)
LEMMA ReadDataSteps ==
    ASSUME TypeInv, NEW t \in Threads, ReadData(t)
    PROVE  Steps(t)
<1> DEFINE th == threads[t]
           pc == IF th.call = "read" THEN "block" ELSE "fill"
           b == IF th.call = "read" THEN 1 ELSE th.want
           new == Access(th, pc, b)
<1>1. th \in Busy /\ ThreadOK(th) /\ th.pc = "data" /\ th.want \in DataBlocks
  <2>1. "data" \in Pcs /\ At(t, "data")
    BY PcNames DEF ReadData
  <2> QED
    BY <2>1, AtFacts
<1>2. /\ th.copy \in Seq(DataBlocks) /\ th.copy # <<>> /\ th.want = Last(th.copy)
      /\ th.call = "read" => th.block = 0
      /\ th.call = "write" => th.block # 0
      /\ th.empty => th.call = "truncate"
  BY <1>1, PcFacts DEF ThreadOK, CopyOK, BlockOK, CallOK
<1>3. Becomes(t, new)
  BY DEF ReadData
<1> HIDE DEF th
<1>pc. pc \in Pcs /\ pc \in {"block", "fill"} /\ (pc = "block" <=> th.call = "read")
  BY PcNames
<1>want. b \in Words \cup {1} /\ (pc = "block" => b = 1) /\ (pc = "fill" => b = th.want)
  BY <1>1, NumberFacts
<1> HIDE DEF pc, b
<1>4. /\ new \in Busy /\ new.pc = pc /\ new.call = th.call /\ new.file = th.file /\ new.copy = th.copy
      /\ new.block = th.block /\ new.want = b /\ ~ new.moved /\ new.empty = th.empty
  BY <1>1, <1>pc, <1>want, AccessFacts
<1> HIDE DEF new
<1>5. ThreadOK(new)
  BY <1>1, <1>2, <1>pc, <1>want, <1>4, PcFacts DEF ThreadOK, WantOK, CopyOK, CallOK, BlockOK
<1>6. Advances(th, new)
  BY <1>1, <1>pc, <1>4, PcFacts DEF Advances
<1> QED
  BY <1>3, <1>4, <1>5, <1>6 DEF Steps, th

(* The write of the data.                                                  *)
LEMMA WriteDataSteps ==
    ASSUME TypeInv, NEW t \in Threads, WriteData(t)
    PROVE  Steps(t)
<1> DEFINE th == threads[t]
           new == Access(th, "block", 1)
<1>1. th \in Busy /\ ThreadOK(th) /\ th.pc = "fill" /\ th.want \in DataBlocks
  <2>1. "fill" \in Pcs /\ At(t, "fill")
    BY PcNames DEF WriteData
  <2> QED
    BY <2>1, AtFacts
<1>2. /\ th.copy \in Seq(DataBlocks) /\ th.call # "read"
      /\ th.call = "write" => th.block # 0
      /\ th.empty => th.call = "truncate"
  BY <1>1, PcFacts DEF ThreadOK, CopyOK, BlockOK, CallOK
<1>3. Becomes(t, new)
  BY DEF WriteData
<1> HIDE DEF th
<1>pc. "block" \in Pcs
  BY PcNames
<1>want. 1 \in Words \cup {1}
  OBVIOUS
<1>4. /\ new \in Busy /\ new.pc = "block" /\ new.call = th.call /\ new.file = th.file /\ new.copy = th.copy
      /\ new.block = th.block /\ new.want = 1 /\ ~ new.moved /\ new.empty = th.empty
  BY <1>1, <1>pc, <1>want, AccessFacts
<1> HIDE DEF new
<1>5. ThreadOK(new)
  BY <1>2, <1>4, PcFacts DEF ThreadOK, WantOK, CopyOK, CallOK, BlockOK
<1>6. Advances(th, new)
  BY <1>1, <1>4, PcFacts DEF Advances
<1> QED
  BY <1>3, <1>4, <1>5, <1>6 DEF Steps, th

(* The read of write_inode.                                                *)
LEMMA ReadInodeBlockSteps ==
    ASSUME TypeInv, NEW t \in Threads, ReadInodeBlock(t)
    PROVE  Steps(t)
<1> DEFINE th == threads[t]
           mid == [th EXCEPT !.image = inode_block]
           new == Access(mid, "store", 1)
<1>1. th \in Busy /\ ThreadOK(th) /\ th.pc = "block"
  <2>1. "block" \in Pcs /\ At(t, "block")
    BY PcNames DEF ReadInodeBlock
  <2> QED
    BY <2>1, AtFacts
<1>2. /\ th.copy \in Seq(DataBlocks)
      /\ th.call = "read" => th.block = 0
      /\ th.call = "write" => th.block # 0
      /\ th.empty => th.call = "truncate"
  BY <1>1, PcFacts DEF ThreadOK, CopyOK, BlockOK, CallOK
<1>3. Becomes(t, new)
  BY DEF ReadInodeBlock
<1> HIDE DEF th
<1>4. mid \in Busy
  BY <1>1, Assigned DEF TypeInv
<1>5. /\ mid.call = th.call /\ mid.file = th.file /\ mid.copy = th.copy /\ mid.block = th.block
      /\ mid.empty = th.empty /\ mid.image = inode_block
  BY <1>1, <1>4 DEF Busy
<1> HIDE DEF mid
<1>pc. "store" \in Pcs
  BY PcNames
<1>want. 1 \in Words \cup {1}
  OBVIOUS
<1>6. /\ new \in Busy /\ new.pc = "store" /\ new.call = th.call /\ new.file = th.file /\ new.copy = th.copy
      /\ new.block = th.block /\ new.want = 1 /\ ~ new.moved /\ new.empty = th.empty
      /\ new.image = inode_block
  BY <1>4, <1>5, <1>pc, <1>want, AccessFacts
<1> HIDE DEF new
<1>7. ThreadOK(new)
  BY <1>2, <1>6, PcFacts DEF ThreadOK, WantOK, CopyOK, CallOK, BlockOK
<1>8. Advances(th, new)
  BY <1>1, <1>6, PcFacts DEF Advances
<1> QED
  BY <1>3, <1>6, <1>7, <1>8 DEF Steps, th

-----------------------------------------------------------------------------
(* Type correctness                                                        *)

(* A step of one thread keeps the types of all.                            *)
LEMMA StepsType ==
    ASSUME TypeInv, NEW t \in Threads, Steps(t)
    PROVE  /\ threads' \in [Threads -> Busy \cup {Idle}]
           /\ \A u \in Threads : threads'[u] \in Busy => ThreadOK(threads'[u])
<1>1. CASE Becomes(t, Idle)
  BY <1>1, BecomesFacts
<1>2. ASSUME NEW new \in Busy, ThreadOK(new), Becomes(t, new)
      PROVE  /\ threads' \in [Threads -> Busy \cup {Idle}]
             /\ \A u \in Threads : threads'[u] \in Busy => ThreadOK(threads'[u])
  BY <1>2, BecomesFacts
<1> QED
  BY <1>1, <1>2 DEF Steps

(* The position stays on the device.                                       *)
LEMMA PosType ==
    ASSUME TypeInv, NEW t \in Threads, NEW pc \in Pcs, At(t, pc)
    PROVE  pos' \in 0 .. BLOCK_COUNT
<1>1. /\ ThreadOK(threads[t]) /\ threads[t].pc = pc /\ pos = threads[t].want /\ pos' = pos + 1
      /\ pc \in {"zero", "list", "node", "data", "fill"} => threads[t].want \in DataBlocks
  BY AtFacts DEF At
<1>2. pos \in DataBlocks \/ pos = 0 \/ pos = 1
  BY <1>1, PcFacts DEF ThreadOK, WantOK
<1>3. pos' = pos + 1
  BY <1>1
<1>4. CASE pos \in DataBlocks
  BY <1>3, <1>4, NumberFacts
<1>5. CASE pos = 0 \/ pos = 1
  BY <1>3, <1>5, ThreadAssumption
<1> QED
  BY <1>2, <1>4, <1>5

(* What custom_read, custom_write and custom_truncate begin with.          *)
LEMMA BeginType ==
    ASSUME TypeInv, NEW t \in Threads, NEW call \in Calls, NEW f \in Inodes, Begin(t, call, f)
    PROVE  \E new \in Busy : /\ ThreadOK(new) /\ Becomes(t, new)
                             /\ new.pc = "inode" /\ new.call = call /\ new.file = f /\ new.block = 0
<1> DEFINE new == [pc |-> "inode", want |-> 1, moved |-> FALSE, call |-> call, file |-> f, copy |-> <<>>,
                   block |-> 0, node |-> Zero, target |-> 0, head |-> 0, empty |-> FALSE,
                   image |-> inode_block]
<1>1. new \in Busy
  <2>1. "inode" \in Pcs
    BY PcNames
  <2>2. Zero \in [Slots -> Words] /\ 0 \in Words /\ <<>> \in Seq(Words)
    BY NumberFacts
  <2>3. inode_block \in [Inodes -> Seq(DataBlocks)]
    BY DEF TypeInv
  <2> QED
    BY <2>1, <2>2, <2>3 DEF Busy
<1>2. /\ new.pc = "inode" /\ new.want = 1 /\ ~ new.moved /\ new.call = call /\ new.file = f
      /\ new.block = 0 /\ ~ new.empty
  OBVIOUS
<1>3. Becomes(t, new)
  BY DEF Begin, Becomes
<1> HIDE DEF new
<1>4. ThreadOK(new)
  BY <1>2, PcFacts DEF ThreadOK, WantOK, CopyOK, CallOK, BlockOK
<1> QED
  BY <1>1, <1>2, <1>3, <1>4

\* The types of everything but the threads.
StateOK ==
    /\ pos \in 0 .. BLOCK_COUNT
    /\ disk \in [DataBlocks -> [Slots -> Words]]
    /\ free_list_head \in Words /\ super_disk \in Words
    /\ inode_block \in [Inodes -> Seq(DataBlocks)]
    /\ files \in [Inodes -> Seq(Words)]
    /\ mixed \subseteq Mixups \cup Inodes
    /\ settled = [head |-> settled.head, super |-> settled.super, disk |-> disk]
    /\ settled.head \in Words /\ settled.super \in Words

(* An access whose thread writes nothing keeps the other types.            *)
LEMMA FrameType ==
    ASSUME TypeInv, pos' \in 0 .. BLOCK_COUNT, mixed' \subseteq Mixups \cup Inodes,
           free_list_head' \in Words, super_disk' \in Words,
           UNCHANGED <<disk, inode_block, files, settled>>
    PROVE  StateOK'
BY DEF TypeInv, StateOK

(* A write that the settled list sees at once.                             *)
LEMMA SettledWrite ==
    ASSUME TypeInv, NEW b, NEW w
    PROVE  [settled EXCEPT !.disk[b] = w] =
             [head |-> settled.head, super |-> settled.super, disk |-> [disk EXCEPT ![b] = w]]
<1> DEFINE d == [disk EXCEPT ![b] = w]
<1>1. settled = [head |-> settled.head, super |-> settled.super, disk |-> disk]
  BY DEF TypeInv
<1>2. settled.disk = disk
  BY <1>1
<1>3. [settled EXCEPT !.disk[b] = w] = [settled EXCEPT !.disk = d]
  BY <1>2
<1> HIDE DEF d
<1>4. [settled EXCEPT !.disk = d] = [head |-> settled.head, super |-> settled.super, disk |-> d]
  BY <1>1
<1> QED
  BY <1>3, <1>4 DEF d

(* The initial state.                                                      *)
LEMMA InitType == Init => TypeInv
<1> SUFFICES ASSUME Init PROVE TypeInv
  OBVIOUS
<1>1. Atomic!FirstListBlock \in DataBlocks /\ Atomic!FirstListBlock \in Words
  BY ThreadAssumption, NumberFacts DEF Atomic!FirstListBlock, DataBlocks
<1>2. ASSUME NEW k \in 0 .. Atomic!ListBlocks - 1, Atomic!ListBlock(k) \in DataBlocks
      PROVE  Atomic!ListImage(Atomic!ListBlock(k)) \in [Slots -> Words]
  <2> DEFINE b == Atomic!ListBlock(k)
  <2>1. b \in DataBlocks
    BY <1>2
  <2> HIDE DEF b
  <2>2. ASSUME NEW s \in Slots
        PROVE  Atomic!OnDevice(IF s = 0 THEN b + DBLOCKS_PER_BLOCK ELSE b + s) \in Words
    BY <2>1, ThreadAssumption DEF Atomic!OnDevice, Slots, DataBlocks, Words
  <2> QED
    BY <2>2 DEF Atomic!ListImage, Atomic!Slots, Slots, b
<1>3. disk \in [DataBlocks -> [Slots -> Words]]
  <2>1. \A b \in DataBlocks : (\E k \in 0 .. Atomic!ListBlocks - 1 : b = Atomic!ListBlock(k))
                             => Atomic!ListImage(b) \in [Slots -> Words]
    BY <1>2
  <2>2. disk = [b \in DataBlocks |-> IF \E k \in 0 .. Atomic!ListBlocks - 1 : b = Atomic!ListBlock(k)
                                    THEN Atomic!ListImage(b) ELSE Zero]
    BY DEF Init
  <2>3. Zero \in [Slots -> Words]
    BY NumberFacts
  <2> QED
    BY <2>1, <2>2, <2>3
<1>4. /\ settled = [head |-> settled.head, super |-> settled.super, disk |-> disk]
      /\ settled.head \in Words /\ settled.super \in Words
  BY <1>1 DEF Init
<1>5. inode_block \in [Inodes -> Seq(DataBlocks)] /\ files \in [Inodes -> Seq(Words)]
  BY DEF Init
<1>6. threads \in [Threads -> Busy \cup {Idle}] /\ \A t \in Threads : threads[t] \notin Busy
  BY BusyFacts DEF Init
<1>7. pos \in 0 .. BLOCK_COUNT /\ free_list_head \in Words /\ super_disk \in Words /\ mixed = {}
  BY <1>1, NumberFacts DEF Init
<1> QED
  BY <1>3, <1>4, <1>5, <1>6, <1>7 DEF TypeInv

(* Every step keeps the types.                                             *)
LEMMA StepType == TypeInv /\ [Next]_vars => TypeInv'
<1> SUFFICES ASSUME TypeInv, [Next]_vars
             PROVE  TypeInv'
  OBVIOUS
<1> DEFINE ThreadsTyped == /\ threads \in [Threads -> Busy \cup {Idle}]
                           /\ \A u \in Threads : threads[u] \in Busy => ThreadOK(threads[u])
<1>1. SUFFICES StateOK' /\ ThreadsTyped'
  BY DEF StateOK, TypeInv
<1>2. CASE UNCHANGED vars
  BY <1>2 DEF vars, TypeInv, StateOK
<1>3. mixed \subseteq Mixups \cup Inodes /\ free_list_head \in Words /\ super_disk \in Words /\ pos \in 0 .. BLOCK_COUNT
  BY DEF TypeInv
<1>4. ASSUME NEW t \in Threads, NEW call \in Calls, NEW f \in Inodes, Begin(t, call, f)
      PROVE  StateOK' /\ ThreadsTyped'
  <2>1. PICK new \in Busy : ThreadOK(new) /\ Becomes(t, new)
    BY <1>4, BeginType
  <2>2. ThreadsTyped'
    BY <2>1, BecomesFacts
  <2>3. mixed' \subseteq Mixups \cup Inodes
    BY <1>3, <1>4 DEF Begin
  <2>4. UNCHANGED <<pos, free_list_head, super_disk, disk, inode_block, files, settled>>
    BY <1>4 DEF Begin
  <2> QED
    BY <1>3, <2>2, <2>3, <2>4, FrameType
<1>5. ASSUME NEW t \in Threads, Seek(t)
      PROVE  StateOK' /\ ThreadsTyped'
  <2>1. ThreadsTyped'
    BY <1>5, SeekSteps, StepsType
  <2>2. pos' \in 0 .. BLOCK_COUNT
    <3>1. threads[t] \in Busy /\ ThreadOK(threads[t]) /\ ~ Refused(threads[t]) /\ pos' = threads[t].want
      BY <1>5, ThreadBusy DEF Seek
    <3>2. threads[t].pc \in Pcs
      BY <3>1, BusyFacts
    <3>3. threads[t].want \in DataBlocks \/ threads[t].want = 0 \/ threads[t].want = 1
      BY <3>1, <3>2, PcFacts DEF ThreadOK, WantOK, Refused
    <3>4. CASE threads[t].want \in DataBlocks
      BY <3>1, <3>4, NumberFacts
    <3>5. CASE threads[t].want = 0 \/ threads[t].want = 1
      BY <3>1, <3>5, ThreadAssumption
    <3> QED
      BY <3>3, <3>4, <3>5
  <2>3. UNCHANGED <<free_list_head, super_disk, disk, inode_block, files, settled, mixed>>
    BY <1>5 DEF Seek
  <2> QED
    BY <1>3, <2>1, <2>2, <2>3, FrameType
<1>6. ASSUME NEW t \in Threads, GoAstray(t)
      PROVE  StateOK' /\ ThreadsTyped'
  <2>1. UNCHANGED <<pos, free_list_head, super_disk, disk, inode_block, threads, files, settled>>
    BY <1>6 DEF GoAstray
  <2>2. mixed' \subseteq Mixups \cup Inodes
    BY <1>3, <1>6 DEF GoAstray, Mixups
  <2>3. ThreadsTyped'
    BY <2>1 DEF TypeInv
  <2> QED
    BY <1>3, <2>1, <2>2, <2>3, FrameType
<1>7. ASSUME NEW t \in Threads, ReadInode(t)
      PROVE  StateOK' /\ ThreadsTyped'
  <2>1. ThreadsTyped'
    BY <1>7, ReadInodeSteps, StepsType
  <2>2. pos' \in 0 .. BLOCK_COUNT
    <3>1. "inode" \in Pcs /\ At(t, "inode")
      BY <1>7, PcNames DEF ReadInode
    <3> QED
      BY <3>1, PosType
  <2>3. mixed' \subseteq Mixups \cup Inodes
    BY <1>3, <1>7 DEF ReadInode, EnterList, Mixups
  <2>4. UNCHANGED <<free_list_head, super_disk, disk, inode_block, files, settled>>
    BY <1>7 DEF ReadInode
  <2> QED
    BY <1>3, <2>1, <2>2, <2>3, <2>4, FrameType
<1>8. ASSUME NEW t \in Threads, ZeroBlock(t)
      PROVE  StateOK' /\ ThreadsTyped'
  <2> DEFINE b == threads[t].block
  <2>1. ThreadsTyped'
    BY <1>8, ZeroBlockSteps, StepsType
  <2>at. "zero" \in Pcs /\ At(t, "zero")
    BY <1>8, PcNames DEF ZeroBlock
  <2>2. pos' \in 0 .. BLOCK_COUNT
    BY <2>at, PosType
  <2>3. mixed' \subseteq Mixups \cup Inodes
    BY <1>3, <1>8 DEF ZeroBlock, EnterList, Mixups
  <2>4. b \in DataBlocks /\ b \in Words
    <3>1. ThreadOK(threads[t]) /\ threads[t].pc = "zero" /\ threads[t].want \in DataBlocks
      BY <2>at, AtFacts
    <3> QED
      BY <3>1, NumberFacts DEF ThreadOK, CallOK
  <2>5. /\ UNCHANGED <<super_disk, inode_block, files>>
        /\ free_list_head' \in {free_list_head, b}
        /\ disk' = [disk EXCEPT ![b] = Zero]
        /\ settled' = [settled EXCEPT !.disk[b] = Zero]
    BY <1>8 DEF ZeroBlock
  <2> HIDE DEF b
  <2>6. disk' \in [DataBlocks -> [Slots -> Words]]
    BY <2>4, <2>5, NumberFacts DEF TypeInv
  <2>7. settled' = [head |-> settled.head, super |-> settled.super, disk |-> disk']
    BY <2>5, SettledWrite
  <2> QED
    BY <1>3, <2>1, <2>2, <2>3, <2>4, <2>5, <2>6, <2>7 DEF StateOK, TypeInv
<1>9. ASSUME NEW t \in Threads, ReadListToCreate(t)
      PROVE  StateOK' /\ ThreadsTyped'
  <2>1. ThreadsTyped'
    BY <1>9, ReadListToCreateSteps, StepsType
  <2>at. "list" \in Pcs /\ At(t, "list")
    BY <1>9, PcNames DEF ReadListToCreate
  <2>2. pos' \in 0 .. BLOCK_COUNT
    BY <2>at, PosType
  <2>3. UNCHANGED <<super_disk, disk, inode_block, files, settled, mixed>>
    BY <1>9 DEF ReadListToCreate
  <2>4. free_list_head' \in Words
    <3>1. free_list_head' \in {free_list_head, disk[threads[t].want][0]}
      BY <1>9 DEF ReadListToCreate, KeepHead, MoveHead
    <3>2. threads[t].want \in DataBlocks
      BY <2>at, AtFacts
    <3>3. disk[threads[t].want][0] \in Words
      BY <3>2, NumberFacts DEF TypeInv
    <3> QED
      BY <1>3, <3>1, <3>3
  <2> QED
    BY <1>3, <2>1, <2>2, <2>3, <2>4, FrameType
<1>10. ASSUME NEW t \in Threads, ReadListToFree(t)
       PROVE  StateOK' /\ ThreadsTyped'
  <2>1. ThreadsTyped'
    BY <1>10, ReadListToFreeSteps, StepsType
  <2>at. "list" \in Pcs /\ At(t, "list")
    BY <1>10, PcNames DEF ReadListToFree
  <2>2. pos' \in 0 .. BLOCK_COUNT
    BY <2>at, PosType
  <2>3. UNCHANGED <<super_disk, disk, inode_block, files, settled, mixed>>
    BY <1>10 DEF ReadListToFree
  <2>4. free_list_head' \in Words
    <3>1. free_list_head' \in {free_list_head, threads[t].block}
      BY <1>10 DEF ReadListToFree, KeepHead, MoveHead
    <3>2. threads[t].block \in Words
      BY <2>at, AtFacts DEF Busy
    <3> QED
      BY <1>3, <3>1, <3>2
  <2> QED
    BY <1>3, <2>1, <2>2, <2>3, <2>4, FrameType
<1>11. ASSUME NEW t \in Threads, WriteSuper(t)
       PROVE  StateOK' /\ ThreadsTyped'
  <2>1. ThreadsTyped'
    BY <1>11, WriteSuperSteps, StepsType
  <2>at. "super" \in Pcs /\ At(t, "super")
    BY <1>11, PcNames DEF WriteSuper
  <2>2. pos' \in 0 .. BLOCK_COUNT
    BY <2>at, PosType
  <2>3. UNCHANGED <<free_list_head, disk, inode_block, files, settled, mixed>> /\ super_disk' = threads[t].head
    BY <1>11 DEF WriteSuper
  <2>4. super_disk' \in Words
    BY <2>at, <2>3, AtFacts DEF Busy
  <2> QED
    BY <1>3, <2>1, <2>2, <2>3, <2>4, FrameType
<1>12. ASSUME NEW t \in Threads, WriteNode(t)
       PROVE  StateOK' /\ ThreadsTyped'
  <2>1. ThreadsTyped'
    BY <1>12, WriteNodeSteps, StepsType
  <2>at. "node" \in Pcs /\ At(t, "node")
    BY <1>12, PcNames DEF WriteNode
  <2>2. pos' \in 0 .. BLOCK_COUNT
    BY <2>at, PosType
  <2>3. mixed' \subseteq Mixups \cup Inodes
    BY <1>3, <1>12 DEF WriteNode, Mixups
  <2>4. threads[t].want \in DataBlocks /\ threads[t].node \in [Slots -> Words]
    BY <2>at, AtFacts DEF Busy
  <2>5. /\ UNCHANGED <<free_list_head, super_disk, inode_block, files>>
        /\ disk' = [disk EXCEPT ![threads[t].want] = threads[t].node]
        /\ settled' = [head |-> free_list_head, super |-> super_disk, disk |-> disk']
    BY <1>12 DEF WriteNode
  <2>6. disk' \in [DataBlocks -> [Slots -> Words]]
    BY <2>4, <2>5 DEF TypeInv
  <2> QED
    BY <1>3, <2>1, <2>2, <2>3, <2>5, <2>6 DEF StateOK, TypeInv
<1>13. ASSUME NEW t \in Threads, ReadData(t)
       PROVE  StateOK' /\ ThreadsTyped'
  <2>1. ThreadsTyped'
    BY <1>13, ReadDataSteps, StepsType
  <2>at. "data" \in Pcs /\ At(t, "data")
    BY <1>13, PcNames DEF ReadData
  <2>2. pos' \in 0 .. BLOCK_COUNT
    BY <2>at, PosType
  <2>3. UNCHANGED <<free_list_head, super_disk, disk, inode_block, files, settled, mixed>>
    BY <1>13 DEF ReadData
  <2> QED
    BY <1>3, <2>1, <2>2, <2>3, FrameType
<1>14. ASSUME NEW t \in Threads, WriteData(t)
       PROVE  StateOK' /\ ThreadsTyped'
  <2>1. ThreadsTyped'
    BY <1>14, WriteDataSteps, StepsType
  <2>at. "fill" \in Pcs /\ At(t, "fill")
    BY <1>14, PcNames DEF WriteData
  <2>2. pos' \in 0 .. BLOCK_COUNT
    BY <2>at, PosType
  <2> DEFINE image == Filled(IF threads[t].call = "write" THEN Data ELSE 0)
  <2>3. /\ UNCHANGED <<free_list_head, super_disk, inode_block, files, mixed>>
        /\ disk' = [disk EXCEPT ![pos] = image] /\ settled' = [settled EXCEPT !.disk[pos] = image]
    BY <1>14 DEF WriteData
  <2>4. image \in [Slots -> Words]
    BY NumberFacts DEF Filled
  <2>5. pos \in DataBlocks
    BY <2>at, AtFacts
  <2> HIDE DEF image
  <2>6. disk' \in [DataBlocks -> [Slots -> Words]]
    BY <2>3, <2>4, <2>5 DEF TypeInv
  <2>7. settled' = [head |-> settled.head, super |-> settled.super, disk |-> disk']
    BY <2>3, SettledWrite
  <2> QED
    BY <1>3, <2>1, <2>2, <2>3, <2>6, <2>7 DEF StateOK, TypeInv
<1>15. ASSUME NEW t \in Threads, ReadInodeBlock(t)
       PROVE  StateOK' /\ ThreadsTyped'
  <2>1. ThreadsTyped'
    BY <1>15, ReadInodeBlockSteps, StepsType
  <2>at. "block" \in Pcs /\ At(t, "block")
    BY <1>15, PcNames DEF ReadInodeBlock
  <2>2. pos' \in 0 .. BLOCK_COUNT
    BY <2>at, PosType
  <2>3. UNCHANGED <<free_list_head, super_disk, disk, inode_block, files, settled>>
    BY <1>15 DEF ReadInodeBlock
  <2>4. mixed' \subseteq Mixups \cup Inodes
    <3>1. threads[t].file \in Inodes
      BY <2>at, AtFacts DEF Busy
    <3>2. \A u \in Threads : threads[u].pc = "store" => threads[u].file \in Inodes
      <4>1. ASSUME NEW u \in Threads, threads[u].pc = "store"
            PROVE  threads[u].file \in Inodes
        <5>1. threads[u] \in Busy
          BY <4>1, ThreadBusy
        <5> QED
          BY <5>1 DEF Busy
      <4> QED
        BY <4>1
    <3> QED
      BY <1>3, <1>15, <3>1, <3>2 DEF ReadInodeBlock
  <2> QED
    BY <1>3, <2>1, <2>2, <2>3, <2>4, FrameType
<1>16. ASSUME NEW t \in Threads, WriteInodeBlock(t)
       PROVE  StateOK' /\ ThreadsTyped'
  <2> DEFINE th == threads[t]
  <2>1. ThreadsTyped'
    BY <1>16, BecomesFacts DEF WriteInodeBlock
  <2>at. "store" \in Pcs /\ At(t, "store")
    BY <1>16, PcNames DEF WriteInodeBlock
  <2>2. pos' \in 0 .. BLOCK_COUNT
    BY <2>at, PosType
  <2>3. /\ UNCHANGED <<free_list_head, super_disk, disk, settled, mixed>>
        /\ inode_block' = [th.image EXCEPT ![th.file] = th.copy]
        /\ files' = [files EXCEPT ![th.file] =
                       IF th.call = "read" \/ th.block = 0 THEN @
                       ELSE IF th.call = "write" THEN Append(@, th.block) ELSE Front(@)]
    BY <1>16 DEF WriteInodeBlock, Stored
  <2>4. /\ th.copy \in Seq(DataBlocks) /\ th.image \in [Inodes -> Seq(DataBlocks)] /\ th.file \in Inodes
        /\ th.block \in Words
    <3>1. th \in Busy /\ ThreadOK(th) /\ th.pc = "store"
      BY <2>at, AtFacts
    <3> QED
      BY <3>1 DEF Busy, ThreadOK, CopyOK, StorePcs
  <2> HIDE DEF th
  <2>5. inode_block' \in [Inodes -> Seq(DataBlocks)]
    BY <2>3, <2>4
  <2>6. files' \in [Inodes -> Seq(Words)]
    <3>1. files \in [Inodes -> Seq(Words)] /\ files[th.file] \in Seq(Words)
      BY <2>4 DEF TypeInv
    <3>2. Append(files[th.file], th.block) \in Seq(Words) /\ Front(files[th.file]) \in Seq(Words)
      BY <2>4, <3>1, CopyFacts
    <3> QED
      BY <2>3, <3>1, <3>2
  <2> QED
    BY <1>3, <2>1, <2>2, <2>3, <2>5, <2>6 DEF StateOK, TypeInv
<1> QED
  BY <1>1, <1>2, <1>4, <1>5, <1>6, <1>7, <1>8, <1>9, <1>10, <1>11, <1>12, <1>13, <1>14, <1>15, <1>16 DEF Next, Calls

(* Up to the first access at another thread's position or outside the data *)
(* blocks, where the model stops, list blocks and inodes name data blocks  *)
(* only, and what the threads hold keeps its types, whichever of the other *)
(* overlaps there were.                                                    *)
THEOREM TypeCorrect == Spec => []TypeOK
<1>1. TypeInv => TypeOK
  BY DEF TypeInv, TypeOK
<1> QED
  BY <1>1, InitType, StepType, PTL DEF Spec

-----------------------------------------------------------------------------
(* The updates of the inodes                                               *)

\* What the file of th should be once the inode is written.
Due(th, q) == IF th.call = "read" \/ th.block = 0 THEN q
              ELSE IF th.call = "write" THEN Append(q, th.block) ELSE Front(q)

\* The copy a thread works with is the true inode, with its own update from where it is made.
CopyTrue == \A t \in Threads : threads[t] \in Busy /\ threads[t].file \notin mixed =>
               /\ threads[t].pc \in ListPcs => threads[t].copy = files[threads[t].file]
               /\ threads[t].pc \in DonePcs => threads[t].copy = Due(threads[t], files[threads[t].file])

\* Two threads on one file are readers.
ReadersOnly == \A t, u \in Threads :
                  /\ t # u /\ threads[t] \in Busy /\ threads[u] \in Busy
                  /\ threads[t].file = threads[u].file /\ threads[t].file \notin mixed
                  => threads[t].call = "read"

InodesTrue == \A f \in Inodes \ mixed : inode_block[f] = files[f]

\* The block write_inode will write has the other inodes as they are.
ImageTrue == \A t \in Threads : threads[t] \in Busy /\ threads[t].pc = "store" =>
                \A f \in Inodes \ mixed : threads[t].image[f] = inode_block[f]

OneStores == \A t, u \in Threads :
                /\ t # u /\ threads[t] \in Busy /\ threads[u] \in Busy
                /\ threads[t].pc = "store" /\ threads[u].pc = "store"
                => threads[t].file \in mixed

UpdateInv == CopyTrue /\ ReadersOnly /\ InodesTrue /\ ImageTrue /\ OneStores

(* A step of one thread that writes no inode.                              *)
LEMMA StepsUpdate ==
    ASSUME TypeInv, UpdateInv, NEW t \in Threads, Steps(t), UNCHANGED <<inode_block, files>>, mixed \subseteq mixed',
           \A u \in Threads \ {t} :
              /\ threads[t].pc = "block" /\ threads'[t].pc = "store"
              /\ threads[u] \in Busy /\ threads[u].pc = "store"
              => threads[t].file \in mixed' /\ threads[u].file \in mixed'
    PROVE  UpdateInv'
<1> DEFINE th == threads[t]
<1>1. CASE Becomes(t, Idle)
  <2>1. threads'[t] = Idle /\ \A u \in Threads \ {t} : threads'[u] = threads[u]
    BY <1>1, BecomesFacts
  <2>2. threads'[t] \notin Busy
    BY <2>1, BusyFacts
  <2>3. CopyTrue'
    BY <2>1, <2>2 DEF UpdateInv, CopyTrue, Due
  <2>4. ReadersOnly'
    BY <2>1, <2>2 DEF UpdateInv, ReadersOnly
  <2>5. InodesTrue'
    BY DEF UpdateInv, InodesTrue
  <2>6. ImageTrue'
    BY <2>1, <2>2 DEF UpdateInv, ImageTrue
  <2>7. OneStores'
    BY <2>1, <2>2 DEF UpdateInv, OneStores
  <2> QED
    BY <2>3, <2>4, <2>5, <2>6, <2>7 DEF UpdateInv
<1>2. ASSUME NEW new \in Busy, ThreadOK(new), Advances(threads[t], new), Becomes(t, new), th \in Busy
      PROVE  UpdateInv'
  <2>1. threads'[t] = new /\ \A u \in Threads \ {t} : threads'[u] = threads[u]
    BY <1>2, BecomesFacts
  <2>2. new.call = th.call /\ new.file = th.file /\ th.file \in Inodes
    BY <1>2 DEF Advances, Busy
  <2>3. ASSUME th.file \notin mixed'
        PROVE  /\ new.pc \in ListPcs => new.copy = files[th.file]
               /\ new.pc \in DonePcs => new.copy = Due(new, files[th.file])
    <3>1. th.file \notin mixed /\ inode_block[th.file] = files[th.file]
      BY <2>2, <2>3 DEF UpdateInv, InodesTrue
    <3>2. /\ th.pc \in ListPcs => th.copy = files[th.file]
          /\ th.pc \in DonePcs => th.copy = Due(th, files[th.file])
      BY <1>2, <3>1 DEF UpdateInv, CopyTrue
    <3>3. CASE th.pc = "inode"
      BY <1>2, <3>1, <3>3, PcFacts DEF Advances, Due
    <3>4. CASE th.pc \in ListPcs /\ new.pc \in ListPcs
      BY <1>2, <3>2, <3>4, PcFacts DEF Advances
    <3>5. CASE th.pc \in ListPcs /\ new.pc \in DonePcs
      <4>1. /\ th.pc = "node" /\ new.pc \in DataPcs /\ new.block = th.block /\ new.block # 0
            /\ new.copy = IF th.call = "write" THEN Append(th.copy, th.block) ELSE Front(th.copy)
        BY <1>2, <3>5, PcFacts DEF Advances
      <4>2. th.call # "read"
        BY <1>2, <3>5, ThreadBusy, BusyFacts DEF ThreadOK, CallOK
      <4>3. th.copy = files[th.file]
        BY <3>2, <3>5
      <4> QED
        BY <2>2, <4>1, <4>2, <4>3, PcFacts DEF Due
    <3>6. CASE th.pc \in DonePcs
      <4>1. new.pc \in DonePcs /\ new.copy = th.copy /\ new.block = th.block
        BY <1>2, <3>6, PcFacts DEF Advances
      <4> QED
        BY <2>2, <3>2, <3>6, <4>1, PcFacts DEF Due
    <3>7. th.pc \in Pcs /\ new.pc \in Pcs
      BY <1>2, BusyFacts
    <3>8. th.pc \in ListPcs => new.pc \in ListPcs \cup DonePcs
      BY <1>2, PcFacts DEF Advances
    <3> QED
      BY <3>3, <3>4, <3>5, <3>6, <3>7, <3>8 DEF Pcs
  <2>4. CopyTrue'
    <3> SUFFICES ASSUME NEW u \in Threads, threads'[u] \in Busy, threads'[u].file \notin mixed'
                 PROVE  /\ threads'[u].pc \in ListPcs => threads'[u].copy = files[threads'[u].file]
                        /\ threads'[u].pc \in DonePcs => threads'[u].copy = Due(threads'[u], files[threads'[u].file])
      BY DEF CopyTrue, Due
    <3>1. CASE u = t
      BY <2>1, <2>2, <2>3, <3>1
    <3>2. CASE u # t
      BY <2>1, <3>2 DEF UpdateInv, CopyTrue
    <3> QED
      BY <3>1, <3>2
  <2>5. ReadersOnly'
    <3> SUFFICES ASSUME NEW u \in Threads, NEW v \in Threads, u # v, threads'[u] \in Busy, threads'[v] \in Busy,
                        threads'[u].file = threads'[v].file, threads'[u].file \notin mixed'
                 PROVE  threads'[u].call = "read"
      BY DEF ReadersOnly
    <3>1. /\ threads[u] \in Busy /\ threads'[u].file = threads[u].file /\ threads'[u].call = threads[u].call
          /\ threads[v] \in Busy /\ threads'[v].file = threads[v].file
      BY <1>2, <2>1, <2>2
    <3> QED
      BY <3>1 DEF UpdateInv, ReadersOnly
  <2>6. InodesTrue'
    BY DEF UpdateInv, InodesTrue
  <2>7. ImageTrue'
    <3> SUFFICES ASSUME NEW u \in Threads, threads'[u] \in Busy, threads'[u].pc = "store", NEW f \in Inodes \ mixed'
                 PROVE  threads'[u].image[f] = inode_block[f]
      BY DEF ImageTrue
    <3>1. CASE u = t
      <4>1. new.pc = "store"
        BY <2>1, <3>1
      <4>2. IF th.pc = "store" THEN new.image = th.image ELSE new.image = inode_block
        BY <1>2, <4>1 DEF Advances
      <4> QED
        BY <1>2, <2>1, <3>1, <4>2 DEF UpdateInv, ImageTrue
    <3>2. CASE u # t
      BY <2>1, <3>2 DEF UpdateInv, ImageTrue
    <3> QED
      BY <3>1, <3>2
  <2>8. OneStores'
    <3> SUFFICES ASSUME NEW u \in Threads, NEW v \in Threads, u # v, threads'[u] \in Busy, threads'[v] \in Busy,
                        threads'[u].pc = "store", threads'[v].pc = "store"
                 PROVE  threads'[u].file \in mixed'
      BY DEF OneStores
    <3>1. /\ threads[u] \in Busy /\ threads'[u].file = threads[u].file
          /\ threads[v] \in Busy /\ threads'[v].file = threads[v].file
      BY <1>2, <2>1, <2>2
    <3>2. \A w \in Threads : threads'[w].pc = "store" => threads[w].pc = "store" \/ (w = t /\ th.pc = "block")
      BY <1>2, <2>1 DEF Advances
    <3>3. CASE threads[u].pc = "store" /\ threads[v].pc = "store"
      BY <3>1, <3>3 DEF UpdateInv, OneStores
    <3>4. CASE u = t /\ th.pc = "block" /\ threads[v].pc = "store"
      BY <3>1, <3>4
    <3>5. CASE v = t /\ th.pc = "block" /\ threads[u].pc = "store"
      BY <3>1, <3>5
    <3> QED
      BY <3>2, <3>3, <3>4, <3>5
  <2> QED
    BY <2>4, <2>5, <2>6, <2>7, <2>8 DEF UpdateInv
<1>3. ASSUME NEW new \in Busy, Advances(threads[t], new)
      PROVE  th \in Busy
  <2>1. th.pc # "idle"
    BY <1>3, PcFacts DEF Advances
  <2> QED
    BY <2>1, ThreadBusy
<1> QED
  BY <1>1, <1>2, <1>3 DEF Steps

(* No file has blocks and no thread is busy at the start.                  *)
LEMMA InitUpdate == Init => UpdateInv
BY BusyFacts DEF Init, UpdateInv, CopyTrue, ReadersOnly, InodesTrue, ImageTrue, OneStores

(* An access of a thread that is not at the read of write_inode.           *)
LEMMA AccessUpdate ==
    ASSUME TypeInv, UpdateInv, NEW t \in Threads, Steps(t), threads[t].pc # "block",
           UNCHANGED <<inode_block, files>>, mixed \subseteq mixed'
    PROVE  UpdateInv'
BY StepsUpdate

(* A callback that begins is alone on its file, or is known to be mixed up *)
(* with another.                                                           *)
LEMMA BeginUpdate ==
    ASSUME TypeInv, UpdateInv, NEW t \in Threads, NEW call \in Calls, NEW f \in Inodes, Begin(t, call, f)
    PROVE  UpdateInv'
<1>1. PICK new \in Busy : /\ ThreadOK(new) /\ Becomes(t, new)
                          /\ new.pc = "inode" /\ new.call = call /\ new.file = f /\ new.block = 0
  BY BeginType
<1>2. threads'[t] = new /\ \A u \in Threads \ {t} : threads'[u] = threads[u]
  BY <1>1, BecomesFacts
<1>3. mixed \subseteq mixed' /\ UNCHANGED <<inode_block, files>> /\ threads[t].pc = "idle"
  BY DEF Begin
<1>4. CopyTrue'
  <2> SUFFICES ASSUME NEW u \in Threads, threads'[u] \in Busy, threads'[u].file \notin mixed'
               PROVE  /\ threads'[u].pc \in ListPcs => threads'[u].copy = files[threads'[u].file]
                      /\ threads'[u].pc \in DonePcs => threads'[u].copy = Due(threads'[u], files[threads'[u].file])
    BY <1>3 DEF CopyTrue, Due
  <2>1. CASE u = t
    BY <1>1, <1>2, <2>1, PcFacts
  <2>2. CASE u # t
    BY <1>2, <1>3, <2>2 DEF UpdateInv, CopyTrue
  <2> QED
    BY <2>1, <2>2
<1>5. ReadersOnly'
  <2> SUFFICES ASSUME NEW u \in Threads, NEW v \in Threads, u # v, threads'[u] \in Busy, threads'[v] \in Busy,
                      threads'[u].file = threads'[v].file, threads'[u].file \notin mixed'
               PROVE  threads'[u].call = "read"
    BY DEF ReadersOnly
  <2>1. \A w \in Threads : threads[w] \in Busy /\ threads[w].file = f => BusyWith(w, f)
    BY BusyFacts DEF BusyWith
  <2>2. CASE u = t
    <3>1. threads[v] \in Busy /\ threads[v].file = f /\ f \notin mixed'
      BY <1>1, <1>2, <2>2
    <3>2. BusyWith(v, f)
      BY <2>1, <3>1
    <3>3. call = "read"
      BY <3>1, <3>2 DEF Begin
    <3> QED
      BY <1>1, <1>2, <2>2, <3>3
  <2>3. CASE v = t
    <3>1. threads[u] \in Busy /\ threads[u].file = f /\ f \notin mixed' /\ threads'[u] = threads[u]
      BY <1>1, <1>2, <2>3
    <3>2. BusyWith(u, f)
      BY <2>1, <3>1
    <3> QED
      BY <3>1, <3>2 DEF Begin
  <2>4. CASE u # t /\ v # t
    BY <1>2, <1>3, <2>4 DEF UpdateInv, ReadersOnly
  <2> QED
    BY <2>2, <2>3, <2>4
<1>6. InodesTrue'
  BY <1>3 DEF UpdateInv, InodesTrue
<1>7. ImageTrue'
  BY <1>1, <1>2, <1>3, PcFacts DEF UpdateInv, ImageTrue
<1>8. OneStores'
  BY <1>1, <1>2, <1>3, PcFacts DEF UpdateInv, OneStores
<1> QED
  BY <1>4, <1>5, <1>6, <1>7, <1>8 DEF UpdateInv

(* The write of write_inode: the inode gets its update, and the others in  *)
(* the block stay as they are.                                             *)
LEMMA StoreUpdate ==
    ASSUME TypeInv, UpdateInv, NEW t \in Threads, WriteInodeBlock(t)
    PROVE  UpdateInv'
<1> DEFINE th == threads[t]
<1>1. th \in Busy /\ ThreadOK(th) /\ th.pc = "store"
  <2>1. "store" \in Pcs /\ At(t, "store")
    BY PcNames DEF WriteInodeBlock
  <2> QED
    BY <2>1, AtFacts
<1>2. /\ inode_block' = [th.image EXCEPT ![th.file] = th.copy]
      /\ files' = [files EXCEPT ![th.file] = Due(th, files[th.file])]
      /\ Becomes(t, Idle) /\ mixed' = mixed
  BY DEF WriteInodeBlock, Stored, Due
<1>3. threads'[t] = Idle /\ \A u \in Threads \ {t} : threads'[u] = threads[u]
  BY <1>2, BecomesFacts
<1>4. th.file \in Inodes /\ th.image \in [Inodes -> Seq(DataBlocks)]
  BY <1>1 DEF Busy
<1>5. /\ files \in [Inodes -> Seq(Words)]
      /\ threads'[t] \notin Busy
  BY <1>3, BusyFacts DEF TypeInv
<1> HIDE DEF th
<1>6. \A f \in Inodes : f # th.file => inode_block'[f] = th.image[f] /\ files'[f] = files[f]
  BY <1>2, <1>4, <1>5
<1>7. inode_block'[th.file] = th.copy /\ files'[th.file] = Due(th, files[th.file])
  BY <1>2, <1>4, <1>5
<1>8. \A f \in Inodes \ mixed : th.image[f] = inode_block[f]
  BY <1>1 DEF UpdateInv, ImageTrue, th
<1>9. \A f \in Inodes \ mixed : f # th.file => inode_block'[f] = inode_block[f]
  BY <1>6, <1>8
<1>10. th.file \notin mixed => th.copy = Due(th, files[th.file])
  BY <1>1, PcFacts DEF UpdateInv, CopyTrue, th
<1>11. InodesTrue'
  <2> SUFFICES ASSUME NEW f \in Inodes, f \notin mixed
               PROVE  inode_block'[f] = files'[f]
    BY <1>2 DEF InodesTrue
  <2>1. CASE f = th.file
    BY <1>7, <1>10, <2>1
  <2>2. CASE f # th.file
    BY <1>6, <1>9, <2>2 DEF UpdateInv, InodesTrue
  <2> QED
    BY <2>1, <2>2
<1>12. ASSUME NEW u \in Threads, u # t, threads[u] \in Busy, threads[u].file \notin mixed
       PROVE  files'[threads[u].file] = files[threads[u].file]
  <2>1. threads[u].file \in Inodes
    BY <1>12 DEF Busy
  <2>2. CASE threads[u].file = th.file
    <3>1. th.call = "read"
      BY <1>1, <1>12, <2>2 DEF UpdateInv, ReadersOnly, th
    <3> QED
      BY <1>7, <2>2, <3>1 DEF Due
  <2>3. CASE threads[u].file # th.file
    BY <1>6, <2>1, <2>3
  <2> QED
    BY <2>2, <2>3
<1>13. CopyTrue'
  <2> SUFFICES ASSUME NEW u \in Threads, threads'[u] \in Busy, threads'[u].file \notin mixed
               PROVE  /\ threads'[u].pc \in ListPcs => threads'[u].copy = files'[threads'[u].file]
                      /\ threads'[u].pc \in DonePcs => threads'[u].copy = Due(threads'[u], files'[threads'[u].file])
    BY <1>2 DEF CopyTrue, Due
  <2>1. u # t /\ threads'[u] = threads[u]
    BY <1>3, <1>5
  <2>2. files'[threads[u].file] = files[threads[u].file]
    BY <1>12, <2>1
  <2> QED
    BY <2>1, <2>2 DEF UpdateInv, CopyTrue
<1>14. ReadersOnly'
  BY <1>2, <1>3, <1>5 DEF UpdateInv, ReadersOnly
<1>15. ImageTrue'
  <2> SUFFICES ASSUME NEW u \in Threads, threads'[u] \in Busy, threads'[u].pc = "store", NEW f \in Inodes \ mixed
               PROVE  threads'[u].image[f] = inode_block'[f]
    BY <1>2 DEF ImageTrue
  <2>1. u # t /\ threads'[u] = threads[u]
    BY <1>3, <1>5
  <2>2. threads[u].image[f] = inode_block[f]
    BY <2>1 DEF UpdateInv, ImageTrue
  <2>3. f # th.file
    BY <1>1, <2>1 DEF UpdateInv, OneStores, th
  <2> QED
    BY <1>9, <2>1, <2>2, <2>3
<1>16. OneStores'
  BY <1>2, <1>3, <1>5 DEF UpdateInv, OneStores
<1> QED
  BY <1>11, <1>13, <1>14, <1>15, <1>16 DEF UpdateInv

(* Every step keeps what is known of the updates.                          *)
LEMMA StepUpdate == TypeInv /\ UpdateInv /\ [Next]_vars => UpdateInv'
<1> SUFFICES ASSUME TypeInv, UpdateInv, [Next]_vars
             PROVE  UpdateInv'
  OBVIOUS
<1>1. CASE UNCHANGED vars
  BY <1>1 DEF vars, UpdateInv, CopyTrue, ReadersOnly, InodesTrue, ImageTrue, OneStores, Due
<1>2. ASSUME NEW t \in Threads, Seek(t)
      PROVE  UpdateInv'
  <2>1. Steps(t) /\ UNCHANGED <<inode_block, files, mixed>>
    BY <1>2, SeekSteps DEF Seek
  <2>2. threads'[t].pc = threads[t].pc
    <3>1. threads[t] \in Busy
      BY <1>2, ThreadBusy DEF Seek
    <3> QED
      BY <1>2, <3>1 DEF Seek, TypeInv, Busy
  <2> QED
    BY <2>1, <2>2, StepsUpdate
<1>3. ASSUME NEW t \in Threads, ReadInode(t)
      PROVE  UpdateInv'
  <2>1. Steps(t)
    BY <1>3, ReadInodeSteps
  <2>2. threads[t].pc # "block" /\ UNCHANGED <<inode_block, files>> /\ mixed \subseteq mixed'
    BY <1>3 DEF ReadInode, EnterList, At
  <2> QED
    BY <2>1, <2>2, AccessUpdate
<1>4. ASSUME NEW t \in Threads, ZeroBlock(t)
      PROVE  UpdateInv'
  <2>1. Steps(t)
    BY <1>4, ZeroBlockSteps
  <2>2. threads[t].pc # "block" /\ UNCHANGED <<inode_block, files>> /\ mixed \subseteq mixed'
    BY <1>4 DEF ZeroBlock, EnterList, At
  <2> QED
    BY <2>1, <2>2, AccessUpdate
<1>5. ASSUME NEW t \in Threads, ReadListToCreate(t)
      PROVE  UpdateInv'
  <2>1. Steps(t)
    BY <1>5, ReadListToCreateSteps
  <2>2. threads[t].pc # "block" /\ UNCHANGED <<inode_block, files>> /\ mixed \subseteq mixed'
    BY <1>5 DEF ReadListToCreate, At
  <2> QED
    BY <2>1, <2>2, AccessUpdate
<1>6. ASSUME NEW t \in Threads, ReadListToFree(t)
      PROVE  UpdateInv'
  <2>1. Steps(t)
    BY <1>6, ReadListToFreeSteps
  <2>2. threads[t].pc # "block" /\ UNCHANGED <<inode_block, files>> /\ mixed \subseteq mixed'
    BY <1>6 DEF ReadListToFree, At
  <2> QED
    BY <2>1, <2>2, AccessUpdate
<1>7. ASSUME NEW t \in Threads, WriteSuper(t)
      PROVE  UpdateInv'
  <2>1. Steps(t)
    BY <1>7, WriteSuperSteps
  <2>2. threads[t].pc # "block" /\ UNCHANGED <<inode_block, files>> /\ mixed \subseteq mixed'
    BY <1>7 DEF WriteSuper, At
  <2> QED
    BY <2>1, <2>2, AccessUpdate
<1>8. ASSUME NEW t \in Threads, WriteNode(t)
      PROVE  UpdateInv'
  <2>1. Steps(t)
    BY <1>8, WriteNodeSteps
  <2>2. threads[t].pc # "block" /\ UNCHANGED <<inode_block, files>> /\ mixed \subseteq mixed'
    BY <1>8 DEF WriteNode, At
  <2> QED
    BY <2>1, <2>2, AccessUpdate
<1>9. ASSUME NEW t \in Threads, ReadData(t)
      PROVE  UpdateInv'
  <2>1. Steps(t)
    BY <1>9, ReadDataSteps
  <2>2. threads[t].pc # "block" /\ UNCHANGED <<inode_block, files>> /\ mixed \subseteq mixed'
    BY <1>9 DEF ReadData, At
  <2> QED
    BY <2>1, <2>2, AccessUpdate
<1>10. ASSUME NEW t \in Threads, WriteData(t)
      PROVE  UpdateInv'
  <2>1. Steps(t)
    BY <1>10, WriteDataSteps
  <2>2. threads[t].pc # "block" /\ UNCHANGED <<inode_block, files>> /\ mixed \subseteq mixed'
    BY <1>10 DEF WriteData, At
  <2> QED
    BY <2>1, <2>2, AccessUpdate
<1>11. ASSUME NEW t \in Threads, ReadInodeBlock(t)
       PROVE  UpdateInv'
  <2>1. Steps(t)
    BY <1>11, ReadInodeBlockSteps
  <2>2. UNCHANGED <<inode_block, files>> /\ mixed \subseteq mixed'
    BY <1>11 DEF ReadInodeBlock
  <2>3. ASSUME NEW u \in Threads \ {t}, threads[u].pc = "store"
        PROVE  threads[t].file \in mixed' /\ threads[u].file \in mixed'
    BY <1>11, <2>3 DEF ReadInodeBlock
  <2> QED
    BY <2>1, <2>2, <2>3, StepsUpdate
<1>12. ASSUME NEW t \in Threads, GoAstray(t)
       PROVE  UpdateInv'
  <2>1. UNCHANGED <<threads, inode_block, files>> /\ mixed \subseteq mixed'
    BY <1>12 DEF GoAstray
  <2> QED
    BY <2>1 DEF UpdateInv, CopyTrue, ReadersOnly, InodesTrue, ImageTrue, OneStores, Due
<1> QED
  BY <1>1, <1>2, <1>3, <1>4, <1>5, <1>6, <1>7, <1>8, <1>9, <1>10, <1>11, <1>12, BeginUpdate, StoreUpdate DEF Next, Calls

(* No update of an inode is lost, however the accesses of the threads fall, *)
(* unless two updates of it overlapped or two threads were in write_inode   *)
(* at once.                                                                 *)
THEOREM UpdatesAlwaysKept == Spec => []UpdatesKept
<1>1. UpdateInv => UpdatesKept
  BY DEF UpdateInv, InodesTrue, UpdatesKept
<1> QED
  BY <1>1, InitType, StepType, InitUpdate, StepUpdate, PTL DEF Spec

-----------------------------------------------------------------------------
(* The list that ChainFrom collects                                        *)

\* The list blocks are q, from the first to the head.
Chained(list, q) ==
    /\ q \in Seq(DataBlocks)
    /\ list.head = IF q = <<>> THEN 0 ELSE q[Len(q)]
    /\ \A i \in 1 .. Len(q) : list.disk[q[i]][0] = IF i = 1 THEN 0 ELSE q[i - 1]
    /\ \A i, j \in 1 .. Len(q) : q[i] = q[j] => i = j

\* to[n][b] is the list from its first block to b, if there are no more than n.
Collects(to, list) ==
    \A n \in 0 .. BLOCK_COUNT, b \in Words :
        to[n][b] = IF n = 0 \/ b \notin DataBlocks THEN <<>> ELSE Append(to[n - 1][list.disk[b][0]], b)

(* The function that ChainFrom defines by recursion exists.                *)
LEMMA ChainCollects ==
    ASSUME NEW list, list.disk \in [DataBlocks -> [Slots -> Words]]
    PROVE  \E to : Collects(to, list) /\ ChainFrom(list) = to[BLOCK_COUNT][list.head]
<1> DEFINE Body(f) == [n \in 0 .. BLOCK_COUNT |-> [b \in Words |->
                          IF n = 0 \/ b \notin DataBlocks THEN <<>> ELSE Append(f[n - 1][list.disk[b][0]], b)]]
           X == [Words -> Seq(DataBlocks)]
           start == [b \in Words |-> <<>>]
           F == [g \in X |-> [b \in Words |-> IF b \notin DataBlocks THEN <<>>
                                              ELSE Append(g[list.disk[b][0]], b)]]
           to == CHOOSE f : f = Body(f)
<1>1. BLOCK_COUNT \in Nat /\ \A b \in DataBlocks : list.disk[b][0] \in Words
  BY NumberFacts, ThreadAssumption
<1>2. F \in [X -> X] /\ start \in X
  <2>1. <<>> \in Seq(DataBlocks)
    OBVIOUS
  <2>2. \A b \in DataBlocks, q \in Seq(DataBlocks) : Append(q, b) \in Seq(DataBlocks)
    OBVIOUS
  <2>3. ASSUME NEW g \in X
        PROVE  [b \in Words |-> IF b \notin DataBlocks THEN <<>> ELSE Append(g[list.disk[b][0]], b)] \in X
    BY <1>1, <2>1, <2>2
  <2> QED
    BY <2>1, <2>3
<1>3. PICK f : IterationOf(f, X, F, start, BLOCK_COUNT)
  <2> HIDE DEF X, F, start
  <2> QED
    BY <1>1, <1>2, Iterated
<1>4. f = Body(f)
  <2>1. ASSUME NEW n \in 0 .. BLOCK_COUNT
        PROVE  f[n] = Body(f)[n]
    <3>1. CASE n = 0
      BY <1>3, <3>1 DEF IterationOf
    <3>2. CASE n # 0
      <4>1. n \in 1 .. BLOCK_COUNT /\ n - 1 \in 0 .. BLOCK_COUNT
        BY <1>1, <3>2
      <4>2. f[n] = F[f[n - 1]] /\ f[n - 1] \in X
        BY <1>3, <4>1 DEF IterationOf
      <4> QED
        BY <3>2, <4>2
    <3> QED
      BY <3>1, <3>2
  <2>2. f = [n \in 0 .. BLOCK_COUNT |-> f[n]]
    <3> HIDE DEF X, F, start
    <3> QED
      BY <1>3 DEF IterationOf
  <2> QED
    BY <2>1, <2>2
<1>5. to = Body(to)
  <2> HIDE DEF Body
  <2> QED
    BY <1>4
<1>6. ChainFrom(list) = to[BLOCK_COUNT][list.head]
  BY DEF ChainFrom
<1> HIDE DEF to
<1>7. Collects(to, list)
  <2> SUFFICES ASSUME NEW n \in 0 .. BLOCK_COUNT, NEW b \in Words
               PROVE  to[n][b] = IF n = 0 \/ b \notin DataBlocks THEN <<>>
                                 ELSE Append(to[n - 1][list.disk[b][0]], b)
    BY DEF Collects
  <2>1. to[n] = Body(to)[n]
    BY <1>5
  <2> QED
    BY <2>1
<1> QED
  BY <1>6, <1>7

(* A list of distinct data blocks is shorter than the device.              *)
LEMMA ChainShort ==
    ASSUME NEW q \in Seq(DataBlocks), \A i, j \in 1 .. Len(q) : q[i] = q[j] => i = j
    PROVE  Len(q) \in Nat /\ Len(q) <= BLOCK_COUNT
<1>1. Len(q) \in Nat /\ q \in [1 .. Len(q) -> DataBlocks]
  BY LenProperties, SeqDef
<1> DEFINE n == Len(q)
<1>2. SUFFICES ASSUME n > BLOCK_COUNT PROVE FALSE
  BY <1>1, ThreadAssumption
<1>3. DataBlocks \subseteq 1 .. BLOCK_COUNT /\ BLOCK_COUNT \in Nat
  BY ThreadAssumption DEF DataBlocks
<1>4. q \in [1 .. n -> 1 .. BLOCK_COUNT]
  BY <1>1, <1>3
<1>5. IsFiniteSet(1 .. n) /\ Cardinality(1 .. n) = n
  <2> HIDE DEF n
  <2> QED
    BY <1>1, <1>2, <1>3, FS_Interval DEF n
<1>6. IsFiniteSet(1 .. BLOCK_COUNT) /\ Cardinality(1 .. BLOCK_COUNT) = BLOCK_COUNT
  BY <1>3, FS_Interval
<1>7. \E x, y \in 1 .. n : x # y /\ q[x] = q[y]
  <2> HIDE DEF n
  <2>1. Cardinality(1 .. BLOCK_COUNT) < Cardinality(1 .. n)
    BY <1>2, <1>5, <1>6, <1>1, <1>3
  <2> QED
    BY <1>4, <1>5, <1>6, <2>1, FS_PigeonHole
<1> QED
  BY <1>7

\* t is q up to its k-th element.
IsPrefixOf(t, q, k) == t \in Seq(DataBlocks) /\ Len(t) = k /\ \A i \in 1 .. k : t[i] = q[i]

(* ChainFrom collects the list that is linked.                             *)
LEMMA ChainIs ==
    ASSUME NEW list, list.disk \in [DataBlocks -> [Slots -> Words]], NEW q, Chained(list, q)
    PROVE  ChainFrom(list) = q
<1>1. PICK to : Collects(to, list) /\ ChainFrom(list) = to[BLOCK_COUNT][list.head]
  BY ChainCollects
<1> DEFINE len == Len(q)
           Block(k) == IF k = 0 THEN 0 ELSE q[k]
           Good(k) == k <= len => \A n \in 0 .. BLOCK_COUNT : n >= k => IsPrefixOf(to[n][Block(k)], q, k)
           S == {k \in Nat : Good(k)}
<1>2. len \in Nat /\ len <= BLOCK_COUNT /\ BLOCK_COUNT \in Nat
  BY ChainShort, ThreadAssumption DEF Chained
<1>3. \A i \in 1 .. len : q[i] \in DataBlocks /\ q[i] \in Words
  BY ElementOfSeq, NumberFacts DEF Chained
<1> HIDE DEF len
<1>4. 0 \in S
  <2>1. ASSUME NEW n \in 0 .. BLOCK_COUNT
        PROVE  IsPrefixOf(to[n][0], q, 0)
    <3>1. to[n][0] = <<>>
      BY <1>1, NumberFacts DEF Collects
    <3>2. <<>> \in Seq(DataBlocks) /\ Len(<<>>) = 0 /\ 1 .. 0 = {}
      OBVIOUS
    <3> QED
      BY <3>1, <3>2 DEF IsPrefixOf
  <2> QED
    BY <2>1
<1>5. ASSUME NEW k \in Nat, k \in S
      PROVE  k + 1 \in S
  <2> SUFFICES ASSUME k + 1 <= len, NEW n \in 0 .. BLOCK_COUNT, n >= k + 1
               PROVE  IsPrefixOf(to[n][q[k + 1]], q, k + 1)
    OBVIOUS
  <2>1. k + 1 \in 1 .. len /\ n # 0 /\ n - 1 \in 0 .. BLOCK_COUNT /\ n - 1 >= k /\ k <= len /\ (k + 1) - 1 = k
    BY <1>2
  <2> DEFINE b == q[k + 1]
             t == to[n - 1][Block(k)]
  <2>2. b \in DataBlocks /\ b \in Words
    BY <1>3, <2>1
  <2>3. list.disk[b][0] = Block(k)
    <3>1. list.disk[b][0] = IF k + 1 = 1 THEN 0 ELSE q[(k + 1) - 1]
      BY <2>1 DEF Chained, len
    <3>2. (k + 1 = 1) <=> (k = 0)
      OBVIOUS
    <3> QED
      BY <2>1, <3>1, <3>2
  <2>4. IsPrefixOf(t, q, k)
    <3>1. \A m \in 0 .. BLOCK_COUNT : m >= k => IsPrefixOf(to[m][Block(k)], q, k)
      BY <1>5, <2>1
    <3> HIDE DEF Block
    <3> QED
      BY <2>1, <3>1
  <2>5. to[n][b] = Append(t, b)
    <3> HIDE DEF b
    <3>1. to[n][b] = IF n = 0 \/ b \notin DataBlocks THEN <<>> ELSE Append(to[n - 1][list.disk[b][0]], b)
      BY <1>1, <2>2 DEF Collects
    <3> HIDE DEF Block
    <3> QED
      BY <2>1, <2>2, <2>3, <3>1
  <2> HIDE DEF t, b
  <2>6. t \in Seq(DataBlocks) /\ Len(t) = k /\ \A i \in 1 .. k : t[i] = q[i]
    BY <2>4 DEF IsPrefixOf
  <2>7. /\ Append(t, b) \in Seq(DataBlocks) /\ Len(Append(t, b)) = k + 1
        /\ \A i \in 1 .. k : Append(t, b)[i] = t[i]
        /\ Append(t, b)[k + 1] = b
    BY <2>2, <2>6, AppendProperties
  <2>8. ASSUME NEW i \in 1 .. k + 1
        PROVE  Append(t, b)[i] = q[i]
    <3>1. CASE i = k + 1
      BY <2>7, <3>1 DEF b
    <3>2. CASE i # k + 1
      <4>1. i \in 1 .. k
        BY <3>2
      <4> QED
        BY <2>6, <2>7, <4>1
    <3> QED
      BY <3>1, <3>2
  <2> QED
    BY <2>5, <2>7, <2>8 DEF IsPrefixOf, b
<1>6. len \in S
  <2> HIDE DEF S
  <2> QED
    BY <1>2, <1>4, <1>5, SetInduction
<1>7. list.head = Block(len)
  <2>1. q \in Seq(DataBlocks) /\ (q = <<>> <=> len = 0)
    BY <1>2, EmptySeq DEF Chained, len
  <2> QED
    BY <2>1 DEF Chained, len
<1>8. BLOCK_COUNT \in 0 .. BLOCK_COUNT /\ BLOCK_COUNT >= len /\ len <= len
  BY <1>2
<1>9. IsPrefixOf(to[BLOCK_COUNT][Block(len)], q, len)
  BY <1>6, <1>8
<1>10. IsPrefixOf(ChainFrom(list), q, len)
  BY <1>1, <1>7, <1>9
<1> QED
  BY <1>10, SeqEqual DEF IsPrefixOf, Chained, len

-----------------------------------------------------------------------------
(* FreeList as Threads has it                                              *)

Chain == IF "empty" \in mixed THEN <<>> ELSE ChainFrom(settled)
Mishaps == IF "empty" \in mixed THEN {"corrupt"} ELSE {}

Lists == INSTANCE FreeListProofs WITH
    free_list_head <- settled.head, super_disk <- settled.super, disk <- settled.disk,
    chain <- Chain, mishaps <- Mishaps, ClientWords <- {0, Data}, IOFaults <- FALSE

\* The list make_fs writes, with its chain spelled out.
Made == INSTANCE FreeListProofs WITH
    free_list_head <- settled.head, super_disk <- settled.super, disk <- settled.disk,
    chain <- [i \in 1 .. Atomic!ListBlocks |-> Atomic!ListBlock(Atomic!ListBlocks - i)],
    mishaps <- {}, ClientWords <- {0, Data}, IOFaults <- FALSE

(* The assumptions of FreeList hold for it.                                *)
LEMMA ListAssumptions ==
    /\ Lists!GeometryAssumption /\ Lists!ClientAssumption
    /\ Made!GeometryAssumption /\ Made!ClientAssumption
BY ThreadAssumption DEF Lists!GeometryAssumption, Lists!ClientAssumption, Made!GeometryAssumption, Made!ClientAssumption

(* The steps are those of the FreeList of ListCallsAtomic.                 *)
LEMMA SameSteps == [Lists!Next]_(Lists!vars) => [Atomic!Next]_(Atomic!vars)
<1>1. Lists!vars = Atomic!vars /\ Lists!vars' = Atomic!vars'
  BY DEF Lists!vars, Atomic!vars, Chain, Mishaps
<1>2. Lists!Create => Atomic!Create
  BY DEF Lists!Create, Atomic!Create, Lists!IO, Atomic!IO, Lists!CreateFromEntry, Atomic!CreateFromEntry,
         Lists!CreateFromHead, Atomic!CreateFromHead, Lists!HeadRead, Atomic!HeadRead, Lists!FirstUsed, Atomic!FirstUsed,
         Lists!EntrySlots, Atomic!EntrySlots, Lists!DataBlocks, Atomic!DataBlocks, Lists!Sound, Atomic!Sound, Chain, Mishaps
<1>3. ASSUME NEW b, NEW io
      PROVE  /\ Lists!FreeIntoEntry(b, io) => Atomic!FreeIntoEntry(b, io)
             /\ Lists!FreeAsHead(b, io) => Atomic!FreeAsHead(b, io)
             /\ Lists!FreeIntoExhausted(b, io) => Atomic!FreeIntoExhausted(b, io)
             /\ Lists!FreeFails(b, io) => Atomic!FreeFails(b, io)
  <2>1. Lists!FreeIntoEntry(b, io) => Atomic!FreeIntoEntry(b, io)
    BY DEF Lists!FreeIntoEntry, Atomic!FreeIntoEntry, Lists!HeadRead, Atomic!HeadRead, Lists!DataBlocks,
           Atomic!DataBlocks, Lists!EntrySlots, Atomic!EntrySlots, Lists!FirstUnused, Atomic!FirstUnused,
           Lists!Zeroed, Atomic!Zeroed, Lists!Zero, Atomic!Zero, Lists!Slots, Atomic!Slots, Chain, Mishaps
  <2>2. Lists!FreeAsHead(b, io) => Atomic!FreeAsHead(b, io)
    BY DEF Lists!FreeAsHead, Atomic!FreeAsHead, Lists!HeadRead, Atomic!HeadRead, Lists!DataBlocks,
           Atomic!DataBlocks, Lists!EntrySlots, Atomic!EntrySlots, Lists!Zeroed, Atomic!Zeroed,
           Lists!Zero, Atomic!Zero, Lists!Slots, Atomic!Slots, Lists!Sound, Atomic!Sound, Chain, Mishaps
  <2>3. Lists!FreeIntoExhausted(b, io) => Atomic!FreeIntoExhausted(b, io)
    BY DEF Lists!FreeIntoExhausted, Atomic!FreeIntoExhausted, Lists!EntrySlots, Atomic!EntrySlots,
           Lists!FirstUnused, Atomic!FirstUnused, Lists!Zeroed, Atomic!Zeroed, Lists!Zero, Atomic!Zero,
           Lists!Slots, Atomic!Slots, Chain, Mishaps
  <2>4. Lists!FreeFails(b, io) => Atomic!FreeFails(b, io)
    BY DEF Lists!FreeFails, Atomic!FreeFails, Lists!HeadRead, Atomic!HeadRead, Lists!DataBlocks,
           Atomic!DataBlocks, Lists!EntrySlots, Atomic!EntrySlots, Lists!Zeroed, Atomic!Zeroed,
           Lists!Zero, Atomic!Zero, Lists!Slots, Atomic!Slots, Chain, Mishaps
  <2> QED
    BY <2>1, <2>2, <2>3, <2>4
<1>4. Lists!Free => Atomic!Free
  <2>1. Lists!IO = Atomic!IO /\ Lists!DataBlocks = Atomic!DataBlocks
    BY DEF Lists!IO, Atomic!IO, Lists!DataBlocks, Atomic!DataBlocks
  <2> QED
    BY <1>3, <2>1 DEF Lists!Free, Atomic!Free
<1>5. Lists!Write => Atomic!Write
  BY DEF Lists!Write, Atomic!Write, Lists!WriteDblock, Atomic!WriteDblock, Lists!Slots, Atomic!Slots,
         Lists!DataBlocks, Atomic!DataBlocks, Chain, Mishaps
<1> QED
  BY <1>1, <1>2, <1>4, <1>5 DEF Lists!Next, Atomic!Next

(* Names of FreeList that Threads has its own for.                         *)
LEMMA SameNames ==
    /\ Lists!DataBlocks = DataBlocks /\ Lists!Slots = Slots /\ Lists!Zero = Zero
    /\ Lists!EntrySlots = Atomic!EntrySlots /\ Atomic!EntrySlots = Slots \ {0}
    /\ 1 \in Atomic!EntrySlots /\ 0 \in Slots
    /\ Words \subseteq Lists!Words
    /\ [read |-> TRUE, zero |-> TRUE, super |-> TRUE, node |-> TRUE] \in Lists!IO
<1>1. Lists!DataBlocks = DataBlocks /\ Lists!Slots = Slots /\ Lists!Zero = Zero
  BY DEF Lists!DataBlocks, DataBlocks, Lists!Slots, Slots, Lists!Zero, Zero
<1>2. Lists!EntrySlots = Atomic!EntrySlots
  BY DEF Lists!EntrySlots, Atomic!EntrySlots
<1>3. Atomic!EntrySlots = Slots \ {0} /\ 1 \in Atomic!EntrySlots /\ 0 \in Slots
  BY ThreadAssumption DEF Atomic!EntrySlots, Slots
<1>4. Words \subseteq Lists!Words
  BY ThreadAssumption DEF Words, DataBlocks, Lists!Words
<1> QED
  BY <1>1, <1>2, <1>3, <1>4 DEF Lists!IO

\* The list, its entries and the blocks that were handed out.
ListKnown ==
    /\ Chained(settled, Chain)
    /\ held \subseteq DataBlocks
    /\ \A i \in 1 .. Len(Chain) : Chain[i] \notin held
    /\ settled.head \in DataBlocks \cup {0}
    /\ settled.head \in DataBlocks =>
         /\ Len(Chain) >= 1 /\ settled.head = Chain[Len(Chain)] /\ settled.head \notin held
         /\ \A s \in Atomic!EntrySlots :
               disk[settled.head][s] # 0 => disk[settled.head][s] \in DataBlocks \ held

(* What FreeList proves of the list, in the words of Threads.              *)
LEMMA ListFacts ==
    ASSUME TypeInv, Lists!PoolInv, mixed = {}
    PROVE  ListKnown
<1>1. Lists!TypeOK /\ Lists!ListShape /\ Lists!HeldApart
  BY DEF Lists!PoolInv, Lists!ListInv, Lists!Sound, Mishaps
<1>2. Chain \in Seq(DataBlocks) /\ Len(Chain) \in Nat /\ DOMAIN Chain = 1 .. Len(Chain)
  BY <1>1, SameNames, LenProperties DEF Lists!TypeOK
<1>3. Chained(settled, Chain)
  <2>1. settled.head = IF Chain = <<>> THEN 0 ELSE Chain[Len(Chain)]
    BY <1>1 DEF Lists!ListShape, Lists!HeadIsLast
  <2>2. /\ \A i \in 1 .. Len(Chain) : settled.disk[Chain[i]][0] = IF i = 1 THEN 0 ELSE Chain[i - 1]
        /\ \A i, j \in 1 .. Len(Chain) : Chain[i] = Chain[j] => i = j
    BY <1>1, <1>2 DEF Lists!ListShape, Lists!LinksFollowChain
  <2> QED
    BY <1>2, <2>1, <2>2 DEF Chained
<1>4. held \subseteq DataBlocks /\ \A i \in 1 .. Len(Chain) : Chain[i] \notin held
  BY <1>1, <1>2, SameNames DEF Lists!HeldApart, Lists!FreeBlocks, Lists!ListNodes
<1>5. settled.disk = disk
  BY DEF TypeInv
<1>6. ASSUME settled.head # 0
      PROVE  /\ settled.head \in DataBlocks
             /\ Len(Chain) >= 1 /\ settled.head = Chain[Len(Chain)] /\ settled.head \notin held
             /\ \A s \in Atomic!EntrySlots :
                   disk[settled.head][s] # 0 => disk[settled.head][s] \in DataBlocks \ held
  <2>1. Chain # <<>> /\ settled.head = Chain[Len(Chain)]
    BY <1>3, <1>6 DEF Chained
  <2>2. Len(Chain) \in 1 .. Len(Chain)
    BY <1>2, <2>1, EmptySeq
  <2>3. settled.head \in Lists!ListNodes /\ settled.head \in DataBlocks
    BY <1>2, <2>1, <2>2, ElementOfSeq DEF Lists!ListNodes
  <2>4. ASSUME NEW s \in Atomic!EntrySlots, disk[settled.head][s] # 0
        PROVE  disk[settled.head][s] \in DataBlocks \ held
    <3>1. disk[settled.head][s] \in DataBlocks
      BY <1>1, <1>5, <2>3, <2>4, SameNames DEF Lists!ListShape, Lists!EntriesAreDataBlocks
    <3>2. disk[settled.head][s] \in Lists!Entries
      BY <1>5, <2>3, <2>4, SameNames DEF Lists!Entries
    <3> QED
      BY <1>1, <3>1, <3>2 DEF Lists!HeldApart, Lists!FreeBlocks
  <2> QED
    BY <1>2, <1>4, <2>1, <2>2, <2>3, <2>4
<1> QED
  BY <1>3, <1>4, <1>6, NumberFacts DEF ListKnown

(* A step of FreeList keeps what FreeList proves.                          *)
LEMMA PoolKept == Lists!PoolInv /\ [Lists!Next]_(Lists!vars) => Lists!PoolInv'
BY ListAssumptions, Lists!StepPool

-----------------------------------------------------------------------------
(* What a write of a block does to the list                                *)

(* A list with the first links and head q collects q.                      *)
LEMMA SettledChain ==
    ASSUME TypeInv', NEW q, Chained(settled', q)
    PROVE  ChainFrom(settled)' = q
<1>1. settled'.disk \in [DataBlocks -> [Slots -> Words]]
  BY DEF TypeInv
<1>2. ChainFrom(settled') = q
  BY <1>1, ChainIs
<1> QED
  BY <1>2 DEF ChainFrom

(* A write that keeps slot 0 of the list blocks keeps the chain.           *)
LEMMA ChainKept ==
    ASSUME TypeInv', "empty" \notin mixed', Chained(settled, Chain), settled.head' = settled.head,
           \A i \in 1 .. Len(Chain) : settled'.disk[Chain[i]][0] = settled.disk[Chain[i]][0]
    PROVE  Chain' = Chain
<1> DEFINE q == Chain
<1>1. settled'.head = settled.head
  OBVIOUS
<1>2. Chained(settled', q)
  <2> HIDE DEF q
  <2>1. \A i \in 1 .. Len(q) : settled'.disk[q[i]][0] = settled.disk[q[i]][0]
    BY DEF q
  <2>2. Chained(settled, q)
    BY DEF q
  <2> QED
    BY <1>1, <2>1, <2>2 DEF Chained
<1>3. ChainFrom(settled)' = q
  <2> HIDE DEF q
  <2> QED
    BY <1>2, SettledChain
<1> QED
  BY <1>3 DEF Chain

(* A caller fills a block it holds.                                        *)
LEMMA WriteHeld ==
    ASSUME TypeInv, TypeInv', Lists!PoolInv, mixed = {}, "empty" \notin mixed',
           NEW b \in held, NEW w \in {0, Data}, held' = held,
           settled' = [settled EXCEPT !.disk[b] = [s \in Slots |-> w]]
    PROVE  Lists!Next
<1> DEFINE image == [s \in Slots |-> w]
<1>1. ListKnown
  BY ListFacts
<1>2. b \in DataBlocks
  BY <1>1 DEF ListKnown
<1>3. settled' = [head |-> settled.head, super |-> settled.super, disk |-> [disk EXCEPT ![b] = image]]
  BY SettledWrite
<1>4. disk \in [DataBlocks -> [Slots -> Words]] /\ settled.disk = disk
  BY DEF TypeInv
<1> HIDE DEF image
<1>5. \A i \in 1 .. Len(Chain) : settled'.disk[Chain[i]][0] = settled.disk[Chain[i]][0]
  <2>1. ASSUME NEW i \in 1 .. Len(Chain)
        PROVE  settled'.disk[Chain[i]] = settled.disk[Chain[i]]
    <3>1. Chain[i] # b /\ Chain[i] \in DataBlocks
      BY <1>1, ElementOfSeq DEF ListKnown, Chained
    <3> QED
      BY <1>3, <1>4, <3>1
  <2> QED
    BY <2>1
<1>6. Chain' = Chain
  BY <1>1, <1>3, <1>5, ChainKept DEF ListKnown
<1>7. Mishaps' = Mishaps
  BY DEF Mishaps
<1>8. Lists!WriteDblock(b, w)
  BY <1>3, <1>4, <1>6, <1>7, SameNames DEF Lists!WriteDblock, image
<1> QED
  BY <1>2, <1>8, SameNames DEF Lists!Next, Lists!Write

\* All calls of read_block and write_block work.
Works == [read |-> TRUE, zero |-> TRUE, super |-> TRUE, node |-> TRUE]

(* The first entry of the head is handed out.                              *)
LEMMA EntryHandedOut ==
    ASSUME TypeInv, TypeInv', Lists!PoolInv, mixed = {}, "empty" \notin mixed',
           settled.head \in DataBlocks, NEW s \in Atomic!EntrySlots, Atomic!FirstUsed(disk[settled.head], s),
           settled' = [head |-> settled.head, super |-> settled.super,
                       disk |-> [disk EXCEPT ![settled.head] = [disk[settled.head] EXCEPT ![s] = 0]]],
           held' = held \cup {disk[settled.head][s]}
    PROVE  Lists!Next /\ disk[settled.head][s] \in DataBlocks \ held
<1> DEFINE h == settled.head
<1>1. ListKnown
  BY ListFacts
<1>2. disk \in [DataBlocks -> [Slots -> Words]] /\ settled.disk = disk
  BY DEF TypeInv
<1>3. s \in Slots /\ s # 0 /\ 0 \in Slots
  BY SameNames
<1>4. settled'.disk = [disk EXCEPT ![h] = [disk[h] EXCEPT ![s] = 0]] /\ settled'.head = h /\ settled'.super = settled.super
  OBVIOUS
<1>5. \A i \in 1 .. Len(Chain) : settled'.disk[Chain[i]][0] = settled.disk[Chain[i]][0]
  <2>1. ASSUME NEW i \in 1 .. Len(Chain)
        PROVE  settled'.disk[Chain[i]][0] = settled.disk[Chain[i]][0]
    <3>1. Chain[i] \in DataBlocks
      BY <1>1, ElementOfSeq DEF ListKnown, Chained
    <3> HIDE DEF h
    <3> QED
      BY <1>2, <1>3, <1>4, <3>1
  <2> QED
    BY <2>1
<1>6. Chain' = Chain
  BY <1>1, <1>4, <1>5, ChainKept DEF ListKnown
<1>7. Mishaps' = Mishaps
  BY DEF Mishaps
<1>8. Lists!CreateFromEntry(Works)
  <2>1. Lists!HeadRead(Works) /\ Works.node
    BY SameNames DEF Lists!HeadRead, Works
  <2>2. Lists!FirstUsed(disk[h], s)
    BY SameNames DEF Lists!FirstUsed, Atomic!FirstUsed
  <2>3. settled'.disk = [settled.disk EXCEPT ![h] = [@ EXCEPT ![s] = 0]]
    BY <1>2, <1>4
  <2> QED
    BY <1>2, <1>4, <1>6, <1>7, <2>1, <2>2, <2>3, SameNames DEF Lists!CreateFromEntry
<1>9. disk[h][s] \in DataBlocks \ held
  BY <1>1 DEF ListKnown, Atomic!FirstUsed
<1> QED
  BY <1>8, <1>9, SameNames DEF Lists!Next, Lists!Create, Works

(* The head has no entry left and is handed out itself.                    *)
LEMMA HeadHandedOut ==
    ASSUME TypeInv, TypeInv', Lists!PoolInv, mixed = {}, "empty" \notin mixed',
           settled.head \in DataBlocks, \A s \in Atomic!EntrySlots : disk[settled.head][s] = 0,
           settled' = [head |-> disk[settled.head][0], super |-> disk[settled.head][0],
                       disk |-> [disk EXCEPT ![settled.head] = [disk[settled.head] EXCEPT ![0] = 0]]],
           held' = held \cup {settled.head}
    PROVE  Lists!Next /\ settled.head \notin held
<1> DEFINE h == settled.head
           n == Len(Chain)
           q == SubSeq(Chain, 1, n - 1)
<1>1. ListKnown
  BY ListFacts
<1>2. disk \in [DataBlocks -> [Slots -> Words]] /\ settled.disk = disk
  BY DEF TypeInv
<1>3. 0 \in Slots
  BY SameNames
<1>4. settled'.disk = [disk EXCEPT ![h] = [disk[h] EXCEPT ![0] = 0]] /\ settled'.head = disk[h][0]
      /\ settled'.super = disk[h][0]
  OBVIOUS
<1>5. /\ Chain \in Seq(DataBlocks) /\ n \in Nat /\ n >= 1 /\ h = Chain[n]
      /\ \A i \in 1 .. n : Chain[i] \in DataBlocks
      /\ \A i \in 1 .. n : disk[Chain[i]][0] = IF i = 1 THEN 0 ELSE Chain[i - 1]
      /\ \A i, j \in 1 .. n : Chain[i] = Chain[j] => i = j
  BY <1>1, <1>2, ElementOfSeq, LenProperties DEF ListKnown, Chained
<1>6. q \in Seq(DataBlocks) /\ Len(q) = n - 1 /\ \A i \in 1 .. n - 1 : q[i] = Chain[i]
  BY <1>5, ListAssumptions, Lists!FrontFacts, SameNames DEF Lists!Front
<1> HIDE DEF q, n
<1>7. Chained(settled', q)
  <2>1. \A i \in 1 .. Len(q) : settled'.disk[q[i]][0] = IF i = 1 THEN 0 ELSE q[i - 1]
    <3>1. ASSUME NEW i \in 1 .. n - 1
          PROVE  settled'.disk[q[i]][0] = IF i = 1 THEN 0 ELSE q[i - 1]
      <4>1. i \in 1 .. n /\ n \in 1 .. n /\ i # n /\ (i # 1 => i - 1 \in 1 .. n - 1)
        BY <1>5
      <4>2. q[i] = Chain[i] /\ q[i] # h /\ q[i] \in DataBlocks
        BY <1>5, <1>6, <4>1
      <4>3. settled'.disk[q[i]] = disk[q[i]]
        BY <1>2, <1>4, <4>2
      <4> QED
        BY <1>5, <1>6, <4>1, <4>2, <4>3
    <3> QED
      BY <1>6, <3>1
  <2>2. \A i, j \in 1 .. Len(q) : q[i] = q[j] => i = j
    BY <1>5, <1>6
  <2>3. settled'.head = IF q = <<>> THEN 0 ELSE q[Len(q)]
    <3>1. n \in 1 .. n /\ disk[h][0] = IF n = 1 THEN 0 ELSE Chain[n - 1]
      BY <1>5
    <3>2. CASE n = 1
      <4>1. q = <<>>
        BY <1>6, <3>2, EmptySeq
      <4> QED
        BY <1>4, <3>1, <3>2, <4>1
    <3>3. CASE n # 1
      <4>1. n - 1 \in 1 .. n - 1 /\ q # <<>>
        BY <1>5, <1>6, <3>3, EmptySeq
      <4> QED
        BY <1>4, <1>6, <3>1, <3>3, <4>1
    <3> QED
      BY <3>2, <3>3
  <2> QED
    BY <1>6, <2>1, <2>2, <2>3 DEF Chained
<1>8. Chain' = q
  BY <1>7, SettledChain DEF Chain
<1>9. Mishaps' = Mishaps /\ Lists!Sound
  BY DEF Mishaps, Lists!Sound
<1>10. Lists!CreateFromHead(Works)
  <2>1. Lists!HeadRead(Works) /\ Works.node /\ Works.super
    BY SameNames DEF Lists!HeadRead, Works
  <2>2. settled'.disk = [settled.disk EXCEPT ![h] = [@ EXCEPT ![0] = 0]]
    BY <1>2, <1>4
  <2> QED
    BY <1>2, <1>4, <1>8, <1>9, <2>1, <2>2, SameNames DEF Lists!CreateFromHead, q, n
<1>11. h \notin held
  BY <1>1 DEF ListKnown
<1> QED
  BY <1>10, <1>11, SameNames DEF Lists!Next, Lists!Create, Works

(* Clearing a block that is clear changes nothing.                         *)
LEMMA StaysZero ==
    ASSUME TypeInv, NEW b \in DataBlocks, disk[b] = Zero
    PROVE  Lists!Zeroed(b, Works) = settled.disk
<1>1. settled.disk = disk /\ disk \in [DataBlocks -> [Slots -> Words]]
  BY DEF TypeInv
<1>2. [disk EXCEPT ![b] = Zero] = disk
  BY <1>1
<1> QED
  BY <1>1, <1>2, SameNames DEF Lists!Zeroed, Works

(* A block goes into the first free entry of the head.                     *)
LEMMA FreedIntoEntry ==
    ASSUME TypeInv, TypeInv', Lists!PoolInv, mixed = {}, "empty" \notin mixed',
           NEW b \in held, disk[b] = Zero, settled.head \in DataBlocks,
           NEW s \in Atomic!EntrySlots, Atomic!FirstUnused(disk[settled.head], s),
           settled' = [head |-> settled.head, super |-> settled.super,
                       disk |-> [disk EXCEPT ![settled.head] = [disk[settled.head] EXCEPT ![s] = b]]],
           held' = held \ {b}
    PROVE  Lists!Next
<1> DEFINE h == settled.head
<1>1. ListKnown
  BY ListFacts
<1>2. disk \in [DataBlocks -> [Slots -> Words]] /\ settled.disk = disk /\ b \in DataBlocks
  BY <1>1 DEF TypeInv, ListKnown
<1>3. s \in Slots /\ s # 0 /\ 0 \in Slots
  BY SameNames
<1>4. settled'.disk = [disk EXCEPT ![h] = [disk[h] EXCEPT ![s] = b]] /\ settled'.head = h /\ settled'.super = settled.super
  OBVIOUS
<1>5. \A i \in 1 .. Len(Chain) : settled'.disk[Chain[i]][0] = settled.disk[Chain[i]][0]
  <2>1. ASSUME NEW i \in 1 .. Len(Chain)
        PROVE  settled'.disk[Chain[i]][0] = settled.disk[Chain[i]][0]
    <3>1. Chain[i] \in DataBlocks
      BY <1>1, ElementOfSeq DEF ListKnown, Chained
    <3> HIDE DEF h
    <3> QED
      BY <1>2, <1>3, <1>4, <3>1
  <2> QED
    BY <2>1
<1>6. Chain' = Chain
  BY <1>1, <1>4, <1>5, ChainKept DEF ListKnown
<1>7. Mishaps' = Mishaps
  BY DEF Mishaps
<1>8. Lists!FreeIntoEntry(b, Works)
  <2>1. Lists!HeadRead(Works) /\ Works.node /\ Works.zero
    BY SameNames DEF Lists!HeadRead, Works
  <2>2. Lists!Zeroed(b, Works) = settled.disk
    BY <1>2, StaysZero
  <2>3. Lists!FirstUnused(Lists!Zeroed(b, Works)[h], s) /\ s \in Lists!EntrySlots
    BY <1>2, <2>2, SameNames DEF Lists!FirstUnused, Atomic!FirstUnused
  <2>4. settled'.disk = [Lists!Zeroed(b, Works) EXCEPT ![h] = [@ EXCEPT ![s] = b]]
    BY <1>2, <1>4, <2>2
  <2>5. UNCHANGED <<settled.head, settled.super, Chain, Mishaps>>
    BY <1>4, <1>6, <1>7
  <2> QED
    BY <2>1, <2>3, <2>4, <2>5 DEF Lists!FreeIntoEntry
<1> QED
  BY <1>2, <1>8, SameNames DEF Lists!Next, Lists!Free, Works

(* The head is full, and a block becomes the new head.                     *)
LEMMA FreedAsHead ==
    ASSUME TypeInv, TypeInv', Lists!PoolInv, mixed = {}, "empty" \notin mixed',
           NEW b \in held, disk[b] = Zero, settled.head \in DataBlocks,
           \A s \in Atomic!EntrySlots : disk[settled.head][s] # 0,
           settled' = [head |-> b, super |-> b, disk |-> [disk EXCEPT ![b] = [Zero EXCEPT ![0] = settled.head]]],
           held' = held \ {b}
    PROVE  Lists!Next
<1> DEFINE h == settled.head
           n == Len(Chain)
           q == Append(Chain, b)
<1>1. ListKnown
  BY ListFacts
<1>2. disk \in [DataBlocks -> [Slots -> Words]] /\ settled.disk = disk /\ b \in DataBlocks
  BY <1>1 DEF TypeInv, ListKnown
<1>3. 0 \in Slots /\ Zero \in [Slots -> Words]
  BY SameNames, NumberFacts
<1>4. settled'.disk = [disk EXCEPT ![b] = [Zero EXCEPT ![0] = h]] /\ settled'.head = b /\ settled'.super = b
  OBVIOUS
<1>5. /\ Chain \in Seq(DataBlocks) /\ n \in Nat /\ n >= 1 /\ h = Chain[n]
      /\ \A i \in 1 .. n : Chain[i] \in DataBlocks /\ Chain[i] # b
      /\ \A i \in 1 .. n : disk[Chain[i]][0] = IF i = 1 THEN 0 ELSE Chain[i - 1]
      /\ \A i, j \in 1 .. n : Chain[i] = Chain[j] => i = j
  <2>1. Chain \in Seq(DataBlocks) /\ n \in Nat /\ n >= 1 /\ h = Chain[n]
    BY <1>1, LenProperties DEF ListKnown, Chained
  <2>2. \A i \in 1 .. n : Chain[i] \in DataBlocks /\ Chain[i] # b
    BY <1>1, <2>1, ElementOfSeq DEF ListKnown
  <2>3. /\ \A i \in 1 .. n : disk[Chain[i]][0] = IF i = 1 THEN 0 ELSE Chain[i - 1]
        /\ \A i, j \in 1 .. n : Chain[i] = Chain[j] => i = j
    BY <1>1, <1>2 DEF ListKnown, Chained
  <2> QED
    BY <2>1, <2>2, <2>3
<1>6. q \in Seq(DataBlocks) /\ Len(q) = n + 1 /\ q[n + 1] = b /\ \A i \in 1 .. n : q[i] = Chain[i]
  BY <1>2, <1>5, AppendProperties
<1> HIDE DEF q, n
<1>7. Chained(settled', q)
  <2>1. ASSUME NEW i \in 1 .. n + 1
        PROVE  settled'.disk[q[i]][0] = IF i = 1 THEN 0 ELSE q[i - 1]
    <3>1. CASE i = n + 1
      <4>1. i # 1 /\ i - 1 = n /\ n \in 1 .. n
        BY <1>5, <3>1
      <4>2. settled'.disk[b][0] = h
        BY <1>2, <1>3, <1>4
      <4> QED
        BY <1>5, <1>6, <3>1, <4>1, <4>2
    <3>2. CASE i # n + 1
      <4>1. i \in 1 .. n /\ (i # 1 => i - 1 \in 1 .. n)
        BY <1>5, <3>2
      <4>2. q[i] = Chain[i] /\ q[i] # b /\ q[i] \in DataBlocks
        BY <1>5, <1>6, <4>1
      <4>3. settled'.disk[q[i]] = disk[q[i]]
        BY <1>2, <1>4, <4>2
      <4> QED
        BY <1>5, <1>6, <4>1, <4>2, <4>3
    <3> QED
      BY <3>1, <3>2
  <2>2. ASSUME NEW i \in 1 .. n + 1, NEW j \in 1 .. n + 1, q[i] = q[j]
        PROVE  i = j
    <3>1. (i = n + 1 \/ i \in 1 .. n) /\ (j = n + 1 \/ j \in 1 .. n)
      BY <1>5
    <3>2. \A k \in 1 .. n : q[k] = Chain[k] /\ q[k] # b
      BY <1>5, <1>6
    <3>3. CASE i \in 1 .. n /\ j \in 1 .. n
      BY <1>5, <2>2, <3>2, <3>3
    <3>4. CASE i = n + 1 \/ j = n + 1
      BY <1>6, <2>2, <3>1, <3>2, <3>4
    <3> QED
      BY <3>1, <3>3, <3>4
  <2>3. settled'.head = IF q = <<>> THEN 0 ELSE q[Len(q)]
    <3>1. q # <<>>
      BY <1>5, <1>6, EmptySeq
    <3> QED
      BY <1>4, <1>6, <3>1
  <2> QED
    BY <1>6, <2>1, <2>2, <2>3 DEF Chained
<1>8. Chain' = q
  BY <1>7, SettledChain DEF Chain
<1>9. Mishaps' = Mishaps /\ Lists!Sound
  BY DEF Mishaps, Lists!Sound
<1>10. Lists!FreeAsHead(b, Works)
  <2>1. Lists!HeadRead(Works) /\ Works.node /\ Works.super
    BY SameNames DEF Lists!HeadRead, Works
  <2>2. Lists!Zeroed(b, Works) = settled.disk
    BY <1>2, StaysZero
  <2>3. settled'.disk = [settled.disk EXCEPT ![b] = [Lists!Zero EXCEPT ![0] = h]]
    BY <1>2, <1>4, SameNames
  <2> QED
    BY <1>2, <1>4, <1>8, <1>9, <2>1, <2>2, <2>3, SameNames DEF Lists!FreeAsHead, q
<1> QED
  BY <1>2, <1>10, SameNames DEF Lists!Next, Lists!Free, Works

(* The list is exhausted, and a block becomes the head and its own entry.  *)
LEMMA FreedIntoExhausted ==
    ASSUME TypeInv, Lists!PoolInv, mixed = {}, "empty" \in mixed',
           NEW b \in held, disk[b] = Zero, settled.head = 0,
           NEW s \in Atomic!EntrySlots, Atomic!FirstUnused(Zero, s),
           settled' = [head |-> b, super |-> b, disk |-> [disk EXCEPT ![b] = [Zero EXCEPT ![s] = b]]],
           held' = held \ {b}
    PROVE  Lists!Next
<1>1. ListKnown
  BY ListFacts
<1>2. settled.disk = disk /\ b \in DataBlocks
  BY <1>1 DEF TypeInv, ListKnown
<1>3. Chain' = <<>> /\ Mishaps' = Mishaps \cup {"corrupt"}
  BY DEF Chain, Mishaps
<1>4. Lists!FreeIntoExhausted(b, Works)
  <2>1. Works.read /\ Works.node /\ Works.super
    BY DEF Works
  <2>2. Lists!Zeroed(b, Works) = settled.disk
    BY <1>2, StaysZero
  <2>3. settled'.disk = [settled.disk EXCEPT ![b] = [@ EXCEPT ![s] = b]]
    BY <1>2
  <2>4. Lists!FirstUnused(settled.disk[b], s) /\ s \in Lists!EntrySlots
    BY <1>2, SameNames DEF Lists!FirstUnused, Atomic!FirstUnused
  <2> QED
    BY <1>3, <2>1, <2>2, <2>3, <2>4 DEF Lists!FreeIntoExhausted
<1> QED
  BY <1>2, <1>4, SameNames DEF Lists!Next, Lists!Free, Works

-----------------------------------------------------------------------------
(* What a thread in the list has done to it                                *)

\* The head leaves the list or gets a successor, from when the new head is in memory.
HeadMoves(th, list) ==
    IF th.empty THEN th.target = 0 /\ th.head = th.block /\ list.head = 0
    ELSE /\ list.head \in DataBlocks
         /\ IF th.call = "write"
            THEN /\ th.block = list.head /\ th.target = list.head /\ th.head = list.disk[list.head][0]
                 /\ \A s \in Atomic!EntrySlots : list.disk[list.head][s] = 0
                 /\ th.node = [list.disk[list.head] EXCEPT ![0] = 0]
            ELSE /\ th.head = th.block /\ th.target = th.block
                 /\ \A s \in Atomic!EntrySlots : list.disk[list.head][s] # 0
                 /\ th.node = [Zero EXCEPT ![0] = list.head]

\* An entry of the head is due to change.
HeadStays(th, list) ==
    /\ ~ th.empty /\ list.head \in DataBlocks /\ th.want = list.head
    /\ \E s \in Atomic!EntrySlots :
          IF th.call = "write"
          THEN /\ Atomic!FirstUsed(list.disk[list.head], s) /\ th.block = list.disk[list.head][s]
               /\ th.node = [list.disk[list.head] EXCEPT ![s] = 0]
          ELSE /\ Atomic!FirstUnused(list.disk[list.head], s)
               /\ th.node = [list.disk[list.head] EXCEPT ![s] = th.block]

\* The block freed into an empty list is due to become its own entry.
Emptied(th, list) ==
    /\ th.empty /\ list.head = 0 /\ th.want = th.block
    /\ \E s \in Atomic!EntrySlots : Atomic!FirstUnused(Zero, s) /\ th.node = [Zero EXCEPT ![s] = th.block]

\* The thread th, the heads in memory and in block 0 as they are, and the list as the last call left it.
ListOK(th, head, super, list) ==
    /\ th.pc \in {"inode", "zero"} => ~ th.empty
    /\ th.pc \in {"inode", "zero", "list"} => th.target = 0
    /\ th.pc = "list" =>
         /\ th.want = head
         /\ IF th.empty THEN list.head = 0 /\ head = th.block /\ super = th.block
            ELSE list.head = head /\ head # 0 /\ super = list.super
    /\ th.pc = "super" => HeadMoves(th, list) /\ head = th.head /\ (th.empty \/ super = list.super)
    /\ th.pc = "node" =>
         \/ HeadStays(th, list) /\ head = list.head /\ super = list.super
         \/ HeadMoves(th, list) /\ ~ th.empty /\ th.want = th.target /\ head = th.head /\ super = th.head
         \/ Emptied(th, list) /\ head = th.block /\ super = th.block
    /\ th.pc \in {"list", "super", "node"} /\ th.call = "truncate" => list.disk[th.block] = Zero

OneInList == \A t, u \in Threads : InList(t) /\ InList(u) => t = u

ListAtRest == (\A t \in Threads : ~ InList(t)) => free_list_head = settled.head /\ super_disk = settled.super

ThreadsListOK == \A t \in Threads :
                    threads[t] \in Busy => ListOK(threads[t], free_list_head, super_disk, settled)

ListSide == OneInList /\ ListAtRest /\ ThreadsListOK

-----------------------------------------------------------------------------
(* The blocks of the files                                                 *)

\* own gives every file distinct blocks of H that no other file has.
Fits(own, H) ==
    /\ own \in [Inodes -> Seq(H)]
    /\ \A f \in Inodes : \A i, j \in 1 .. Len(own[f]) : own[f][i] = own[f][j] => i = j
    /\ \A f, g \in Inodes : f # g =>
          \A i \in 1 .. Len(own[f]), j \in 1 .. Len(own[g]) : own[f][i] # own[g][j]

\* The thread has changed its copy of the inode, and not the inode.
HasUpdate(t, f) == threads[t].pc \in DonePcs /\ threads[t].file = f /\ threads[t].call # "read"

Holds(f, q) ==
    \/ \E t \in Threads : HasUpdate(t, f) /\ q = threads[t].copy
    \/ (\A t \in Threads : ~ HasUpdate(t, f)) /\ q = inode_block[f]

Owns(own) == Fits(own, held) /\ \A f \in Inodes : Holds(f, own[f])
FilesApart == \E own : Owns(own)

(* A block nobody holds goes to a file.                                    *)
LEMMA FitsAppend ==
    ASSUME NEW own, NEW H, Fits(own, H), NEW f \in Inodes, NEW d, d \notin H
    PROVE  Fits([own EXCEPT ![f] = Append(own[f], d)], H \cup {d})
<1> DEFINE q == Append(own[f], d)
           new == [own EXCEPT ![f] = q]
           n == Len(own[f])
<1>1. own \in [Inodes -> Seq(H)]
  BY DEF Fits
<1>2. n \in Nat /\ \A g \in Inodes : Len(own[g]) \in Nat /\ \A i \in 1 .. Len(own[g]) : own[g][i] \in H
  BY <1>1, LenProperties, ElementOfSeq
<1>3. q \in Seq(H \cup {d}) /\ Len(q) = n + 1 /\ q[n + 1] = d /\ \A i \in 1 .. n : q[i] = own[f][i]
  <2>1. own[f] \in Seq(H \cup {d})
    BY <1>1, CopyFacts
  <2> QED
    BY <2>1, AppendProperties
<1> HIDE DEF q
<1>4. new[f] = q /\ \A g \in Inodes : g # f => new[g] = own[g]
  BY <1>1
<1>5. new \in [Inodes -> Seq(H \cup {d})]
  <2>1. \A g \in Inodes : own[g] \in Seq(H \cup {d})
    BY <1>1, CopyFacts
  <2> QED
    BY <1>1, <1>3, <2>1
<1> HIDE DEF new, n
<1>6. ASSUME NEW i \in 1 .. n + 1
      PROVE  i \in 1 .. n \/ (i = n + 1 /\ q[i] = d)
  BY <1>2, <1>3
<1>7. ASSUME NEW g \in Inodes, NEW i \in 1 .. Len(new[g]), NEW j \in 1 .. Len(new[g]), new[g][i] = new[g][j]
      PROVE  i = j
  <2>1. CASE g # f
    BY <1>4, <1>7, <2>1 DEF Fits
  <2>2. CASE g = f
    <3>1. i \in 1 .. n + 1 /\ j \in 1 .. n + 1 /\ q[i] = q[j]
      BY <1>3, <1>4, <1>7, <2>2
    <3>2. CASE i \in 1 .. n /\ j \in 1 .. n
      BY <1>3, <3>1, <3>2 DEF Fits, n
    <3>3. CASE i = n + 1 \/ j = n + 1
      <4>1. \A k \in 1 .. n : q[k] # d
        BY <1>2, <1>3 DEF n
      <4> QED
        BY <1>3, <1>6, <3>1, <3>3, <4>1
    <3> QED
      BY <1>6, <3>1, <3>2, <3>3
  <2> QED
    BY <2>1, <2>2
<1>8. ASSUME NEW g \in Inodes, NEW h \in Inodes, g # h,
             NEW i \in 1 .. Len(new[g]), NEW j \in 1 .. Len(new[h])
      PROVE  new[g][i] # new[h][j]
  <2>0. \A k, m \in Inodes : k # m =>
           \A x \in 1 .. Len(own[k]), y \in 1 .. Len(own[m]) : own[k][x] # own[m][y]
    BY DEF Fits
  <2>1. ASSUME NEW k \in Inodes, k # f, NEW x \in 1 .. n + 1, NEW y \in 1 .. Len(own[k])
        PROVE  q[x] # own[k][y]
    <3>1. CASE x \in 1 .. n
      BY <1>3, <2>0, <2>1, <3>1 DEF n
    <3>2. CASE q[x] = d
      BY <1>2, <3>2
    <3> QED
      BY <1>6, <3>1, <3>2
  <2>2. CASE g # f /\ h # f
    <3>1. i \in 1 .. Len(own[g]) /\ j \in 1 .. Len(own[h]) /\ new[g] = own[g] /\ new[h] = own[h]
      BY <1>4, <2>2
    <3> QED
      BY <1>8, <2>0, <3>1
  <2>3. CASE g = f
    BY <1>3, <1>4, <1>8, <2>1, <2>3
  <2>4. CASE h = f
    BY <1>3, <1>4, <1>8, <2>1, <2>4
  <2> QED
    BY <2>2, <2>3, <2>4
<1> QED
  BY <1>5, <1>7, <1>8 DEF Fits, new, q

(* A file gives its last block back.                                       *)
LEMMA FitsFront ==
    ASSUME NEW own, NEW H, Fits(own, H), NEW f \in Inodes, Len(own[f]) > 0
    PROVE  Fits([own EXCEPT ![f] = Front(own[f])], H \ {Last(own[f])})
<1> DEFINE q == Front(own[f])
           d == Last(own[f])
           new == [own EXCEPT ![f] = q]
           n == Len(own[f])
<1>1. own \in [Inodes -> Seq(H)]
  BY DEF Fits
<1>2. /\ n \in Nat /\ n >= 1 /\ n \in 1 .. n /\ own[f][n] = d
      /\ \A g \in Inodes : Len(own[g]) \in Nat /\ \A i \in 1 .. Len(own[g]) : own[g][i] \in H
  BY <1>1, LenProperties, ElementOfSeq DEF Last
<1>3. q \in Seq(H) /\ Len(q) = n - 1 /\ \A i \in 1 .. n - 1 : q[i] = own[f][i]
  BY <1>1, <1>2, ListAssumptions, Lists!FrontFacts DEF Lists!Front, Front
<1>4. d \in H
  BY <1>2
<1> HIDE DEF q, d
<1>5. new[f] = q /\ \A g \in Inodes : g # f => new[g] = own[g]
  BY <1>1
<1> HIDE DEF new, n
<1>6. \A g \in Inodes : /\ Len(new[g]) \in Nat /\ Len(new[g]) <= Len(own[g])
                         /\ \A i \in 1 .. Len(new[g]) : i \in 1 .. Len(own[g]) /\ new[g][i] = own[g][i]
  <2>1. 1 .. n - 1 \subseteq 1 .. n /\ n - 1 \in Nat /\ n - 1 <= n
    BY <1>2
  <2> QED
    BY <1>2, <1>3, <1>5, <2>1 DEF n
<1>7. ASSUME NEW g \in Inodes
      PROVE  new[g] \in Seq(H \ {d})
  <2>1. new[g] \in Seq(H)
    BY <1>1, <1>3, <1>5
  <2>2. ASSUME NEW i \in 1 .. Len(new[g])
        PROVE  new[g][i] # d
    <3>1. i \in 1 .. Len(own[g]) /\ new[g][i] = own[g][i]
      BY <1>6
    <3>2. CASE g = f
      <4>1. i # n
        BY <1>2, <1>3, <1>5, <3>2
      <4> QED
        BY <1>2, <3>1, <3>2, <4>1 DEF Fits, n
    <3>3. CASE g # f
      BY <1>2, <3>1, <3>3 DEF Fits, n
    <3> QED
      BY <3>2, <3>3
  <2>3. \A i \in 1 .. Len(new[g]) : new[g][i] \in H \ {d}
    BY <2>1, <2>2, ElementOfSeq
  <2>4. new[g] \in [1 .. Len(new[g]) -> H \ {d}] /\ Len(new[g]) \in Nat
    BY <2>1, <2>3, LenProperties
  <2> QED
    BY <2>4, SeqDef
<1>8. new = [g \in Inodes |-> new[g]]
  BY <1>1 DEF new
<1>9. \A g \in Inodes : \A i, j \in 1 .. Len(new[g]) : new[g][i] = new[g][j] => i = j
  BY <1>6 DEF Fits
<1>10. \A g, h \in Inodes : g # h =>
          \A i \in 1 .. Len(new[g]), j \in 1 .. Len(new[h]) : new[g][i] # new[h][j]
  BY <1>6 DEF Fits
<1>11. new \in [Inodes -> Seq(H \ {d})]
  BY <1>7, <1>8
<1> QED
  BY <1>9, <1>10, <1>11 DEF Fits, new, q, d

\* In a call that changes its file, and past read_inode.
Changing(th) == th \in Busy /\ th.call # "read" /\ th.pc \in ListPcs \cup DonePcs

(* Such a thread has the blocks of its file in its copy of the inode.      *)
LEMMA OwnFacts ==
    ASSUME TypeInv, UpdateInv, mixed = {}, NEW own, Owns(own), NEW t \in Threads, Changing(threads[t])
    PROVE  threads[t].file \in Inodes /\ own[threads[t].file] = threads[t].copy
<1> DEFINE th == threads[t]
           f == th.file
<1>1. f \in Inodes /\ Holds(f, own[f])
  BY DEF Changing, Busy, Owns
<1>2. ASSUME NEW u \in Threads, HasUpdate(u, f)
      PROVE  u = t
  <2>1. threads[u] \in Busy /\ threads[u].file = f /\ threads[u].call # "read"
    <3>1. threads[u].pc # "idle"
      BY <1>2, PcFacts DEF HasUpdate
    <3> QED
      BY <1>2, <3>1, ThreadBusy DEF HasUpdate
  <2> QED
    BY <2>1 DEF UpdateInv, ReadersOnly, Changing
<1>3. CASE th.pc \in DonePcs
  <2>1. HasUpdate(t, f)
    BY <1>3 DEF HasUpdate, Changing
  <2> QED
    BY <1>1, <1>2, <2>1 DEF Holds
<1>4. CASE th.pc \in ListPcs
  <2>1. \A u \in Threads : ~ HasUpdate(u, f)
    BY <1>2, <1>4, PcFacts DEF HasUpdate
  <2>2. own[f] = inode_block[f]
    BY <1>1, <2>1 DEF Holds
  <2>3. th.copy = files[f] /\ inode_block[f] = files[f]
    BY <1>1, <1>4 DEF UpdateInv, CopyTrue, InodesTrue, Changing
  <2> QED
    BY <1>1, <2>2, <2>3
<1> QED
  BY <1>3, <1>4 DEF Changing

(* The last block in the copy is in the hands of this file alone.          *)
LEMMA LastHeld ==
    ASSUME TypeInv, UpdateInv, mixed = {}, FilesApart, NEW t \in Threads,
           Changing(threads[t]), Len(threads[t].copy) > 0
    PROVE  /\ Last(threads[t].copy) \in held
           /\ \A u \in Threads \ {t} : Changing(threads[u]) /\ Len(threads[u].copy) > 0
                                      => Last(threads[u].copy) # Last(threads[t].copy)
<1>1. PICK own : Owns(own)
  BY DEF FilesApart
<1>2. \A f \in Inodes : Len(own[f]) > 0 => Len(own[f]) \in 1 .. Len(own[f]) /\ Last(own[f]) \in held
  <2>1. ASSUME NEW f \in Inodes, Len(own[f]) > 0
        PROVE  Len(own[f]) \in 1 .. Len(own[f]) /\ Last(own[f]) \in held
    <3>1. own[f] \in Seq(held) /\ Len(own[f]) \in Nat
      BY <1>1, LenProperties DEF Owns, Fits
    <3> QED
      BY <2>1, <3>1, CopyFacts
  <2> QED
    BY <2>1
<1>3. threads[t].file \in Inodes /\ own[threads[t].file] = threads[t].copy
  BY <1>1, OwnFacts
<1>4. ASSUME NEW u \in Threads \ {t}, Changing(threads[u]), Len(threads[u].copy) > 0
      PROVE  Last(threads[u].copy) # Last(threads[t].copy)
  <2>1. threads[u].file \in Inodes /\ own[threads[u].file] = threads[u].copy
    BY <1>1, <1>4, OwnFacts
  <2>2. threads[u].file # threads[t].file
    BY <1>4 DEF UpdateInv, ReadersOnly, Changing
  <2>3. \A i \in 1 .. Len(own[threads[u].file]), j \in 1 .. Len(own[threads[t].file]) :
           own[threads[u].file][i] # own[threads[t].file][j]
    BY <1>1, <1>3, <2>1, <2>2 DEF Owns, Fits
  <2> QED
    BY <1>2, <1>3, <1>4, <2>1, <2>3 DEF Last
<1> QED
  BY <1>2, <1>3, <1>4

(* So is the block that free_dblock frees.                                 *)
LEMMA FreedHeld ==
    ASSUME TypeInv, UpdateInv, mixed = {}, FilesApart, NEW t \in Threads,
           threads[t].pc \in ListPcs, threads[t].call = "truncate"
    PROVE  /\ Changing(threads[t]) /\ Len(threads[t].copy) > 0 /\ threads[t].block = Last(threads[t].copy)
           /\ threads[t].block \in held
<1>1. threads[t] \in Busy /\ ThreadOK(threads[t])
  BY ThreadBusy, PcFacts
<1>2. Changing(threads[t])
  BY <1>1 DEF Changing
<1>3. threads[t].copy \in Seq(DataBlocks) /\ Len(threads[t].copy) > 1 /\ threads[t].block = Last(threads[t].copy)
  BY <1>1 DEF ThreadOK, BlockOK, CopyOK
<1>4. Len(threads[t].copy) > 0
  BY <1>3, CopyFacts
<1> QED
  BY <1>2, <1>3, <1>4, LastHeld

(* A step of one thread that writes no inode and ends no call of the list. *)
LEMMA ApartKept ==
    ASSUME TypeInv, UpdateInv, mixed = {}, FilesApart, NEW t \in Threads, Steps(t), UNCHANGED <<inode_block, held>>,
           threads[t].pc = "node" => threads'[t].pc = "node",
           Becomes(t, Idle) => threads[t].pc = "inode"
    PROVE  FilesApart'
<1> DEFINE th == threads[t]
<1>1. PICK own : Owns(own)
  BY DEF FilesApart
<1>2. \A u \in Threads \ {t} : threads'[u] = threads[u]
  BY BecomesFacts DEF Steps
<1>3. ASSUME NEW f \in Inodes
      PROVE  Holds(f, own[f])'
  <2>1. \A u \in Threads \ {t} : HasUpdate(u, f)' <=> HasUpdate(u, f)
    BY <1>2 DEF HasUpdate
  <2>2. Holds(f, own[f])
    BY <1>1 DEF Owns
  <2>3. CASE HasUpdate(t, f)' <=> HasUpdate(t, f)
    <3>1. HasUpdate(t, f) => threads'[t].copy = th.copy
      <4>1. SUFFICES ASSUME HasUpdate(t, f) PROVE threads'[t].copy = th.copy
        OBVIOUS
      <4>2. th.pc \in DonePcs /\ ~ Becomes(t, Idle)
        BY <4>1, PcFacts DEF HasUpdate
      <4>3. PICK new \in Busy : ThreadOK(new) /\ Advances(th, new) /\ Becomes(t, new)
        BY <4>2 DEF Steps
      <4>4. threads'[t] = new
        BY <4>3, BecomesFacts
      <4> QED
        BY <4>2, <4>3, <4>4, PcFacts DEF Advances
    <3> QED
      BY <1>2, <2>1, <2>2, <2>3, <3>1 DEF Holds
  <2>4. CASE ~ (HasUpdate(t, f)' <=> HasUpdate(t, f))
    <3>1. ~ Becomes(t, Idle)
      <4>1. SUFFICES ASSUME Becomes(t, Idle) PROVE FALSE
        OBVIOUS
      <4>2. threads'[t] = Idle /\ th.pc = "inode"
        BY <4>1, BecomesFacts
      <4>3. ~ HasUpdate(t, f)' /\ ~ HasUpdate(t, f)
        BY <4>2, BusyFacts, PcFacts DEF HasUpdate
      <4> QED
        BY <2>4, <4>3
    <3>2. PICK new \in Busy : ThreadOK(new) /\ Advances(th, new) /\ Becomes(t, new)
      BY <3>1 DEF Steps
    <3>3. threads'[t] = new
      BY <3>2, BecomesFacts
    <3>4. /\ th.pc = "inode" /\ new.pc \in DataPcs /\ new.copy = inode_block[f]
          /\ new.call # "read" /\ new.file = f /\ th.call # "read" /\ th.file = f
      BY <2>4, <3>2, <3>3, PcFacts DEF HasUpdate, Advances
    <3>5. \A u \in Threads : ~ HasUpdate(u, f)
      <4>1. ASSUME NEW u \in Threads, HasUpdate(u, f)
            PROVE  FALSE
        <5>1. threads[u].pc # "idle" /\ threads[u].pc # "inode" /\ threads[u].file = f /\ threads[u].call # "read"
          BY <4>1, PcFacts DEF HasUpdate
        <5>2. threads[u] \in Busy /\ th \in Busy /\ u # t
          BY <3>4, <5>1, ThreadBusy
        <5> QED
          BY <3>4, <5>1, <5>2 DEF UpdateInv, ReadersOnly
      <4> QED
        BY <4>1
    <3>6. own[f] = inode_block[f]
      BY <2>2, <3>5 DEF Holds
    <3>7. HasUpdate(t, f)'
      BY <2>4, <3>5
    <3> QED
      BY <3>3, <3>4, <3>6, <3>7 DEF Holds
  <2> QED
    BY <2>3, <2>4
<1>4. Owns(own)'
  BY <1>1, <1>3 DEF Owns
<1> QED
  BY <1>4 DEF FilesApart

(* A call of the list ends: the file gets the block, or has given it back. *)
LEMMA ApartUpdated ==
    ASSUME TypeInv, UpdateInv, mixed = {}, FilesApart, NEW t \in Threads, threads[t].pc = "node",
           NEW new \in Busy, ThreadOK(new), Becomes(t, new), new.pc \in DataPcs, new.call = threads[t].call,
           new.file = threads[t].file, new.copy = CopyAfter(threads[t]), UNCHANGED inode_block,
           threads[t].call = "write" => threads[t].block \notin held /\ held' = held \cup {threads[t].block},
           threads[t].call # "write" => held' = held \ {threads[t].block}
    PROVE  FilesApart'
<1> DEFINE th == threads[t]
           f == th.file
<1>1. PICK own : Owns(own)
  BY DEF FilesApart
<1>2. th \in Busy /\ ThreadOK(th) /\ th.call # "read" /\ Changing(th)
  <2>1. th \in Busy /\ ThreadOK(th)
    BY ThreadBusy
  <2> QED
    BY <2>1, PcFacts DEF ThreadOK, CallOK, Changing
<1>3. f \in Inodes /\ own[f] = th.copy
  BY <1>1, <1>2, OwnFacts
<1>4. PICK own2 : own2 = [own EXCEPT ![f] = CopyAfter(th)]
  OBVIOUS
<1>5. Fits(own, held) /\ own \in [Inodes -> Seq(held)]
  BY <1>1 DEF Owns, Fits
<1>6. Fits(own2, held')
  <2>1. CASE th.call = "write"
    <3>1. held' = held \cup {th.block} /\ th.block \notin held /\ CopyAfter(th) = Append(own[f], th.block)
      BY <1>3, <2>1 DEF CopyAfter
    <3>2. Fits([own EXCEPT ![f] = Append(own[f], th.block)], held \cup {th.block})
      BY <1>3, <1>5, <3>1, FitsAppend
    <3> QED
      BY <1>4, <3>1, <3>2
  <2>2. CASE th.call # "write"
    <3>1. th.call = "truncate"
      BY <1>2, <2>2 DEF Busy, Calls
    <3>2. Len(th.copy) > 0 /\ th.block = Last(th.copy)
      BY <3>1, FreedHeld, PcFacts
    <3>3. held' = held \ {Last(own[f])} /\ CopyAfter(th) = Front(own[f]) /\ Len(own[f]) > 0
      BY <1>3, <2>2, <3>2 DEF CopyAfter
    <3>4. Fits([own EXCEPT ![f] = Front(own[f])], held \ {Last(own[f])})
      BY <1>3, <1>5, <3>3, FitsFront
    <3> QED
      BY <1>4, <3>3, <3>4
  <2> QED
    BY <2>1, <2>2
<1>7. threads'[t] = new /\ \A u \in Threads \ {t} : threads'[u] = threads[u]
  BY BecomesFacts
<1>8. own2[f] = CopyAfter(th) /\ \A g \in Inodes : g # f => own2[g] = own[g]
  BY <1>3, <1>4, <1>5
<1> HIDE DEF th
<1>9. ASSUME NEW g \in Inodes
      PROVE  Holds(g, own2[g])'
  <2>1. CASE g = f
    <3>1. HasUpdate(t, g)'
      BY <1>2, <1>7, <2>1, PcFacts DEF HasUpdate, th
    <3>2. own2[g] = threads'[t].copy
      BY <1>7, <1>8, <2>1 DEF th
    <3> QED
      BY <3>1, <3>2 DEF Holds
  <2>2. CASE g # f
    <3>1. own2[g] = own[g] /\ Holds(g, own[g])
      BY <1>1, <1>8, <2>2 DEF Owns
    <3>2. ~ HasUpdate(t, g) /\ ~ HasUpdate(t, g)'
      BY <1>7, <2>2 DEF HasUpdate, th
    <3>3. \A u \in Threads : HasUpdate(u, g)' <=> HasUpdate(u, g)
      BY <1>7, <3>2 DEF HasUpdate
    <3> QED
      BY <1>7, <3>1, <3>2, <3>3 DEF Holds
  <2> QED
    BY <2>1, <2>2
<1>10. Owns(own2)'
  BY <1>6, <1>9 DEF Owns
<1> QED
  BY <1>10 DEF FilesApart

(* The inode is written, and has the blocks its writer had for it.         *)
LEMMA ApartStored ==
    ASSUME TypeInv, UpdateInv, mixed = {}, FilesApart, NEW t \in Threads, WriteInodeBlock(t)
    PROVE  FilesApart'
<1> DEFINE th == threads[t]
           f == th.file
<1>1. PICK own : Owns(own)
  BY DEF FilesApart
<1>2. th \in Busy /\ th.pc = "store" /\ f \in Inodes
  <2>1. "store" \in Pcs /\ At(t, "store")
    BY PcNames DEF WriteInodeBlock
  <2> QED
    BY <2>1, AtFacts DEF Busy
<1>3. /\ inode_block' = [th.image EXCEPT ![f] = th.copy]
      /\ held' = held /\ mixed' = mixed /\ Becomes(t, Idle)
  BY DEF WriteInodeBlock, Stored
<1>4. threads'[t] = Idle /\ \A u \in Threads \ {t} : threads'[u] = threads[u]
  BY <1>3, BecomesFacts
<1>5. /\ inode_block'[f] = th.copy
      /\ \A g \in Inodes : g # f => inode_block'[g] = inode_block[g]
  <2>1. th.image \in [Inodes -> Seq(DataBlocks)]
    BY <1>2 DEF Busy
  <2>2. \A g \in Inodes : th.image[g] = inode_block[g]
    BY <1>2 DEF UpdateInv, ImageTrue
  <2> HIDE DEF th
  <2> QED
    BY <1>2, <1>3, <2>1, <2>2
<1>6. ~ HasUpdate(t, f)' /\ \A g \in Inodes : ~ HasUpdate(t, g)'
  BY <1>4, BusyFacts, PcFacts DEF HasUpdate
<1>7. \A u \in Threads \ {t}, g \in Inodes : HasUpdate(u, g)' <=> HasUpdate(u, g)
  BY <1>4 DEF HasUpdate
<1>8. ASSUME NEW g \in Inodes
      PROVE  Holds(g, own[g])'
  <2>0. Holds(g, own[g])
    BY <1>1 DEF Owns
  <2>1. CASE g # f
    <3>1. ~ HasUpdate(t, g)
      BY <2>1 DEF HasUpdate
    <3> QED
      BY <1>4, <1>5, <1>6, <1>7, <2>0, <2>1, <3>1 DEF Holds
  <2>2. CASE g = f /\ th.call = "read"
    <3>1. ~ HasUpdate(t, g)
      BY <2>2 DEF HasUpdate
    <3>2. inode_block'[g] = inode_block[g]
      BY <1>2, <1>5, <2>2, PcFacts DEF UpdateInv, CopyTrue, InodesTrue, Due
    <3> QED
      BY <1>4, <1>6, <1>7, <2>0, <3>1, <3>2 DEF Holds
  <2>3. CASE g = f /\ th.call # "read"
    <3>1. own[f] = th.copy
      BY <1>1, <1>2, <2>3, OwnFacts, PcFacts DEF Changing
    <3>2. ASSUME NEW u \in Threads, HasUpdate(u, g)'
          PROVE  FALSE
      <4>1. u # t /\ HasUpdate(u, g)
        BY <1>6, <1>7, <3>2
      <4>2. threads[u].pc # "idle" /\ threads[u].file = f /\ threads[u].call # "read"
        BY <2>3, <4>1, PcFacts DEF HasUpdate
      <4>3. threads[u] \in Busy
        BY <4>2, ThreadBusy
      <4> QED
        BY <1>2, <4>1, <4>2, <4>3 DEF UpdateInv, ReadersOnly
    <3> QED
      BY <1>5, <2>3, <3>1, <3>2 DEF Holds
  <2> QED
    BY <2>1, <2>2, <2>3
<1>9. Owns(own)'
  BY <1>1, <1>3, <1>8 DEF Owns
<1> QED
  BY <1>9 DEF FilesApart

-----------------------------------------------------------------------------
(* Steps of one thread, and the list                                       *)

InPcs == {"list", "super", "node"}

(* What ListOK says does not depend on parts of the list out of its sight. *)
LEMMA ListFrame ==
    ASSUME NEW th, NEW head, NEW super, NEW list, ListOK(th, head, super, list),
           NEW list2, list2.head = list.head, list2.super = list.super,
           list.head \in DataBlocks => list2.disk[list.head] = list.disk[list.head],
           th.pc \in InPcs /\ th.call = "truncate" => list2.disk[th.block] = list.disk[th.block]
    PROVE  ListOK(th, head, super, list2)
<1>1. HeadMoves(th, list) => HeadMoves(th, list2)
  BY DEF HeadMoves
<1>2. HeadStays(th, list) => HeadStays(th, list2)
  BY DEF HeadStays
<1>3. Emptied(th, list) => Emptied(th, list2)
  BY DEF Emptied
<1> QED
  BY <1>1, <1>2, <1>3 DEF ListOK, InPcs

(* lseek.                                                                  *)
LEMMA ListOKSeek ==
    ASSUME NEW th \in Busy, NEW head, NEW super, NEW list, ListOK(th, head, super, list)
    PROVE  ListOK([th EXCEPT !.moved = TRUE], head, super, list)
<1> DEFINE new == [th EXCEPT !.moved = TRUE]
<1>1. /\ new.pc = th.pc /\ new.want = th.want /\ new.call = th.call /\ new.block = th.block
      /\ new.node = th.node /\ new.target = th.target /\ new.head = th.head /\ new.empty = th.empty
  BY DEF Busy
<1> HIDE DEF new
<1>2. HeadMoves(th, list) => HeadMoves(new, list)
  BY <1>1 DEF HeadMoves
<1>3. HeadStays(th, list) => HeadStays(new, list)
  BY <1>1 DEF HeadStays
<1>4. Emptied(th, list) => Emptied(new, list)
  BY <1>1 DEF Emptied
<1>5. ListOK(new, head, super, list)
  BY <1>1, <1>2, <1>3, <1>4 DEF ListOK
<1> QED
  BY <1>5 DEF new

\* The step of t leaves the other threads alone.
Alone(t) == threads' \in [Threads -> Busy \cup {Idle}] /\ \A u \in Threads \ {t} : threads'[u] = threads[u]

\* What t wrote, if anything, is out of the sight of u.
OutOfSight(u) ==
    /\ settled.head \in DataBlocks => settled'.disk[settled.head] = settled.disk[settled.head]
    /\ threads[u].call = "truncate" => settled'.disk[threads[u].block] = settled.disk[threads[u].block]

(* A thread outside the list stays outside.                                *)
LEMMA OutsideSide ==
    ASSUME ListSide, NEW t \in Threads, Alone(t), ~ InList(t), ~ InList(t)',
           threads'[t].pc \in {"inode", "zero"} => ~ threads'[t].empty /\ threads'[t].target = 0,
           UNCHANGED <<free_list_head, super_disk>>, settled'.head = settled.head, settled'.super = settled.super,
           \A u \in Threads \ {t} : InList(u) => OutOfSight(u)
    PROVE  ListSide'
<1>1. \A u \in Threads : InList(u)' <=> InList(u)
  BY DEF Alone, InList
<1>2. OneInList' /\ ListAtRest'
  BY <1>1 DEF ListSide, OneInList, ListAtRest
<1>3. ASSUME NEW u \in Threads, threads'[u] \in Busy
      PROVE  ListOK(threads'[u], free_list_head', super_disk', settled')
  <2>1. CASE u = t
    BY <2>1 DEF ListOK, InList
  <2>2. CASE u # t /\ InList(u)
    <3>1. threads'[u] = threads[u] /\ ListOK(threads[u], free_list_head, super_disk, settled)
      BY <1>3, <2>2 DEF Alone, ListSide, ThreadsListOK
    <3>2. OutOfSight(u)
      BY <2>2
    <3>3. ListOK(threads[u], free_list_head, super_disk, settled')
      BY <3>1, <3>2, ListFrame DEF OutOfSight
    <3> QED
      BY <3>1, <3>3
  <2>3. CASE u # t /\ ~ InList(u)
    <3>1. threads'[u] = threads[u] /\ ListOK(threads[u], free_list_head, super_disk, settled)
      BY <1>3, <2>3 DEF Alone, ListSide, ThreadsListOK
    <3> QED
      BY <2>3, <3>1 DEF ListOK, InList
  <2> QED
    BY <2>1, <2>2, <2>3
<1> QED
  BY <1>2, <1>3 DEF ListSide, ThreadsListOK

(* The only thread in the list, after its step.                            *)
LEMMA InsideSide ==
    ASSUME ListSide, NEW t \in Threads, Alone(t), \A u \in Threads \ {t} : ~ InList(u),
           InList(t)', ListOK(threads'[t], free_list_head', super_disk', settled')
    PROVE  ListSide'
<1>1. \A u \in Threads \ {t} : ~ InList(u)'
  BY DEF Alone, InList
<1>2. OneInList' /\ ListAtRest'
  BY <1>1 DEF OneInList, ListAtRest
<1>3. ASSUME NEW u \in Threads, threads'[u] \in Busy
      PROVE  ListOK(threads'[u], free_list_head', super_disk', settled')
  <2>1. CASE u # t
    <3>1. threads'[u] = threads[u] /\ ListOK(threads[u], free_list_head, super_disk, settled) /\ ~ InList(u)
      BY <1>3, <2>1 DEF Alone, ListSide, ThreadsListOK
    <3> QED
      BY <3>1 DEF ListOK, InList
  <2> QED
    BY <2>1
<1> QED
  BY <1>2, <1>3 DEF ListSide, ThreadsListOK

(* The thread has left the list.                                           *)
LEMMA LeavesSide ==
    ASSUME ListSide, NEW t \in Threads, Alone(t), \A u \in Threads \ {t} : ~ InList(u), threads'[t].pc \in DonePcs,
           free_list_head' = settled'.head, super_disk' = settled'.super
    PROVE  ListSide'
<1>1. \A u \in Threads : ~ InList(u)'
  BY PcFacts DEF Alone, InList
<1>2. OneInList' /\ ListAtRest'
  BY <1>1 DEF OneInList, ListAtRest
<1>3. ASSUME NEW u \in Threads, threads'[u] \in Busy
      PROVE  ListOK(threads'[u], free_list_head', super_disk', settled')
  <2>1. CASE u # t
    <3>1. threads'[u] = threads[u] /\ ListOK(threads[u], free_list_head, super_disk, settled) /\ ~ InList(u)
      BY <1>3, <2>1 DEF Alone, ListSide, ThreadsListOK
    <3> QED
      BY <3>1 DEF ListOK, InList
  <2>2. CASE u = t
    BY <2>2, PcFacts DEF ListOK
  <2> QED
    BY <2>1, <2>2
<1> QED
  BY <1>2, <1>3 DEF ListSide, ThreadsListOK
\* What is known of the list and the files until something is mixed up.
Clean == ListSide /\ FilesApart /\ Lists!PoolInv

\* The step is one of FreeList or changes nothing in it, and leaves what is known of it true.
StaysClean == [Lists!Next]_(Lists!vars) /\ (mixed' = {} => ListSide' /\ FilesApart')

(* Most accesses change nothing in the list.                               *)
LEMMA ListUnchanged ==
    ASSUME mixed = {}, "empty" \notin mixed', UNCHANGED <<settled, held>>
    PROVE  UNCHANGED Lists!vars
<1>1. ChainFrom(settled') = ChainFrom(settled)
  OBVIOUS
<1>2. ChainFrom(settled)' = ChainFrom(settled')
  BY DEF ChainFrom
<1>3. Chain' = Chain /\ Mishaps' = Mishaps
  BY <1>1, <1>2 DEF Chain, Mishaps
<1> QED
  BY <1>3 DEF Lists!vars

(* A step that makes no update and ends no update.                         *)
LEMMA ApartSame ==
    ASSUME FilesApart, NEW t \in Threads, Alone(t), UNCHANGED <<inode_block, held>>,
           threads[t].pc \notin DonePcs, threads'[t].pc \notin DonePcs
    PROVE  FilesApart'
<1>1. PICK own : Owns(own)
  BY DEF FilesApart
<1>2. \A u \in Threads, f \in Inodes : HasUpdate(u, f)' <=> HasUpdate(u, f)
  BY DEF HasUpdate, Alone
<1>3. ASSUME NEW f \in Inodes
      PROVE  Holds(f, own[f])'
  <2>1. Holds(f, own[f])
    BY <1>1 DEF Owns
  <2>2. \A u \in Threads : HasUpdate(u, f) => threads'[u] = threads[u]
    BY DEF HasUpdate, Alone
  <2> QED
    BY <1>2, <2>1, <2>2 DEF Holds
<1>4. Owns(own)'
  BY <1>1, <1>3 DEF Owns
<1> QED
  BY <1>4 DEF FilesApart

(* A step of a thread is one of it alone.                                  *)
LEMMA StepsAlone ==
    ASSUME TypeInv, NEW t \in Threads, Steps(t)
    PROVE  Alone(t)
BY BecomesFacts DEF Steps, Alone

(* A call begins.                                                          *)
LEMMA BeginClean ==
    ASSUME TypeInv, mixed = {}, Clean, NEW t \in Threads, NEW call \in Calls, NEW f \in Inodes, Begin(t, call, f)
    PROVE  StaysClean
<1>1. UNCHANGED <<settled, held, free_list_head, super_disk, inode_block>> /\ mixed' \subseteq {f} /\ threads[t].pc = "idle"
  BY DEF Begin
<1>2. UNCHANGED Lists!vars
  <2>1. "empty" \notin mixed'
    BY <1>1, ThreadAssumption
  <2> QED
    BY <1>1, <2>1, ListUnchanged
<1>3. /\ threads'[t].pc = "inode" /\ ~ threads'[t].empty /\ threads'[t].target = 0
  BY DEF Begin, TypeInv
<1>4. Alone(t)
  <2>1. PICK new \in Busy : ThreadOK(new) /\ Becomes(t, new)
    BY BeginType
  <2> QED
    BY <2>1, BecomesFacts DEF Alone
<1>5. FilesApart'
  BY <1>1, <1>3, <1>4, ApartSame, PcFacts DEF Clean
<1>6. ListSide'
  <2>1. ~ InList(t) /\ ~ InList(t)'
    BY <1>1, <1>3 DEF InList
  <2>2. \A u \in Threads : OutOfSight(u)
    BY <1>1 DEF OutOfSight
  <2> QED
    BY <1>1, <1>3, <1>4, <2>1, <2>2, OutsideSide DEF Clean
<1> QED
  BY <1>2, <1>5, <1>6 DEF StaysClean

(* lseek.                                                                  *)
LEMMA SeekClean ==
    ASSUME TypeInv, UpdateInv, mixed = {}, Clean, NEW t \in Threads, Seek(t)
    PROVE  StaysClean
<1> DEFINE th == threads[t]
           new == [th EXCEPT !.moved = TRUE]
<1>1. UNCHANGED <<settled, held, free_list_head, super_disk, inode_block, mixed>>
  BY DEF Seek
<1>2. UNCHANGED Lists!vars
  BY <1>1, ListUnchanged
<1>3. th \in Busy /\ Steps(t) /\ Alone(t) /\ threads'[t] = new
  BY ThreadBusy, SeekSteps, StepsAlone DEF Seek, TypeInv
<1>4. new.pc = th.pc /\ new.empty = th.empty /\ new.target = th.target
  BY <1>3 DEF Busy
<1>5. ListOK(th, free_list_head, super_disk, settled)
  BY <1>3 DEF Clean, ListSide, ThreadsListOK
<1>6. ListOK(new, free_list_head, super_disk, settled)
  BY <1>3, <1>5, ListOKSeek
<1>7. FilesApart'
  <2>1. threads'[t].pc # "idle"
    BY <1>3, <1>4, BusyFacts
  <2>2. ~ Becomes(t, Idle)
    BY <2>1, BecomesFacts, BusyFacts
  <2> QED
    BY <1>1, <1>3, <1>4, <2>2, ApartKept DEF Clean
<1> HIDE DEF th, new
<1>8. ListSide'
  <2>1. CASE InList(t)
    <3>1. \A u \in Threads \ {t} : ~ InList(u)
      BY <2>1 DEF Clean, ListSide, OneInList
    <3>2. InList(t)'
      BY <1>3, <1>4, <2>1 DEF InList, th
    <3> QED
      BY <1>1, <1>3, <1>6, <3>1, <3>2, InsideSide DEF Clean
  <2>2. CASE ~ InList(t)
    <3>1. ~ InList(t)'
      BY <1>3, <1>4, <2>2 DEF InList, th
    <3>2. \A u \in Threads : OutOfSight(u)
      BY <1>1 DEF OutOfSight
    <3>3. threads'[t].pc \in {"inode", "zero"} => ~ threads'[t].empty /\ threads'[t].target = 0
      BY <1>3, <1>6 DEF ListOK
    <3> QED
      BY <1>1, <1>3, <2>2, <3>1, <3>2, <3>3, OutsideSide DEF Clean
  <2> QED
    BY <2>1, <2>2
<1> QED
  BY <1>2, <1>7, <1>8 DEF StaysClean
(* A step outside the list that writes nothing but the thread's own state. *)
LEMMA OutsideClean ==
    ASSUME TypeInv, UpdateInv, mixed = {}, Clean, NEW t \in Threads, Steps(t), "empty" \notin mixed',
           UNCHANGED <<settled, held, free_list_head, super_disk, inode_block>>, ~ InList(t), ~ InList(t)',
           threads'[t].pc \in {"inode", "zero"} => ~ threads'[t].empty /\ threads'[t].target = 0,
           Becomes(t, Idle) => threads[t].pc = "inode"
    PROVE  StaysClean
<1>1. UNCHANGED Lists!vars
  BY ListUnchanged
<1>2. Alone(t)
  BY StepsAlone
<1>3. ListSide'
  <2>1. \A u \in Threads : OutOfSight(u)
    BY DEF OutOfSight
  <2> QED
    BY <1>2, <2>1, OutsideSide DEF Clean
<1>4. FilesApart'
  <2>1. threads[t].pc # "node"
    BY DEF InList
  <2> QED
    BY <2>1, ApartKept DEF Clean
<1> QED
  BY <1>1, <1>3, <1>4 DEF StaysClean

(* The read of the last block.                                             *)
LEMMA ReadDataClean ==
    ASSUME TypeInv, UpdateInv, mixed = {}, Clean, NEW t \in Threads, ReadData(t)
    PROVE  StaysClean
<1> DEFINE th == threads[t]
<1>1. th \in Busy /\ th.pc = "data" /\ Steps(t)
  <2>1. "data" \in Pcs /\ At(t, "data")
    BY PcNames DEF ReadData
  <2> QED
    BY <2>1, AtFacts, ReadDataSteps
<1>2. UNCHANGED <<settled, held, free_list_head, super_disk, inode_block, mixed>>
  BY DEF ReadData
<1>3. Alone(t)
  BY <1>1, StepsAlone
<1>4. threads'[t].pc \in {"block", "fill"}
  <2>1. PICK pc, w : pc \in {"block", "fill"} /\ Becomes(t, Access(th, pc, w))
    BY DEF ReadData
  <2>2. threads'[t] = Access(th, pc, w)
    BY <2>1 DEF Becomes, TypeInv
  <2> QED
    BY <1>1, <2>1, <2>2 DEF Access, Busy
<1>5. ~ Becomes(t, Idle)
  BY <1>4, BecomesFacts, BusyFacts
<1> QED
  BY <1>1, <1>2, <1>4, <1>5, OutsideClean DEF InList

(* The read of write_inode.                                                *)
LEMMA ReadInodeBlockClean ==
    ASSUME TypeInv, UpdateInv, mixed = {}, Clean, NEW t \in Threads, ReadInodeBlock(t)
    PROVE  StaysClean
<1> DEFINE th == threads[t]
           mid == [th EXCEPT !.image = inode_block]
<1>1. th \in Busy /\ th.pc = "block" /\ Steps(t) /\ mid \in Busy
  <2>1. "block" \in Pcs /\ At(t, "block")
    BY PcNames DEF ReadInodeBlock
  <2>2. th \in Busy /\ th.pc = "block" /\ Steps(t)
    BY <2>1, AtFacts, ReadInodeBlockSteps
  <2> QED
    BY <2>2, Assigned DEF TypeInv
<1>2. UNCHANGED <<settled, held, free_list_head, super_disk, inode_block>>
  BY DEF ReadInodeBlock
<1>3. "empty" \notin mixed'
  <2>1. th.file \in Inodes /\ \A u \in Threads : threads[u].pc = "store" => threads[u].file \in Inodes
    <3>1. \A u \in Threads : threads[u].pc = "store" => threads[u] \in Busy
      BY ThreadBusy
    <3> QED
      BY <1>1, <3>1 DEF Busy
  <2>2. mixed' \subseteq Inodes
    BY <2>1 DEF ReadInodeBlock
  <2> QED
    BY <2>2, ThreadAssumption
<1>4. threads'[t].pc = "store"
  <2>1. Becomes(t, Access(mid, "store", 1))
    BY DEF ReadInodeBlock
  <2>2. threads'[t] = Access(mid, "store", 1)
    BY <2>1 DEF Becomes, TypeInv
  <2> QED
    BY <1>1, <2>2 DEF Access, Busy
<1>5. ~ Becomes(t, Idle)
  BY <1>4, BecomesFacts, BusyFacts
<1> QED
  BY <1>1, <1>2, <1>3, <1>4, <1>5, OutsideClean DEF InList

(* The write of write_inode.                                               *)
LEMMA WriteInodeBlockClean ==
    ASSUME TypeInv, UpdateInv, mixed = {}, Clean, NEW t \in Threads, WriteInodeBlock(t)
    PROVE  StaysClean
<1>1. threads[t].pc = "store" /\ Becomes(t, Idle)
  BY DEF WriteInodeBlock, At
<1>2. UNCHANGED <<settled, held, free_list_head, super_disk, mixed>>
  BY DEF WriteInodeBlock
<1>3. UNCHANGED Lists!vars
  BY <1>2, ListUnchanged
<1>4. FilesApart'
  BY ApartStored DEF Clean
<1>5. ListSide'
  <2>1. Alone(t) /\ threads'[t] = Idle
    BY <1>1, BecomesFacts DEF Alone
  <2>2. \A u \in Threads : OutOfSight(u)
    BY <1>2 DEF OutOfSight
  <2>3. ~ InList(t) /\ ~ InList(t)' /\ threads'[t].pc = "idle"
    BY <1>1, <2>1, BusyFacts DEF InList
  <2> QED
    BY <1>2, <2>1, <2>2, <2>3, OutsideSide DEF Clean
<1> QED
  BY <1>3, <1>4, <1>5 DEF StaysClean

(* The write of the data, into a block that is no list block and that no   *)
(* other thread is about to free.                                          *)
LEMMA WriteDataClean ==
    ASSUME TypeInv, TypeInv', UpdateInv, mixed = {}, Clean, NEW t \in Threads, WriteData(t)
    PROVE  StaysClean
<1> DEFINE th == threads[t]
           w == IF th.call = "write" THEN Data ELSE 0
<1>1. th \in Busy /\ ThreadOK(th) /\ th.pc = "fill" /\ pos = th.want /\ pos \in DataBlocks /\ Steps(t) /\ Alone(t)
  <2>1. "fill" \in Pcs /\ At(t, "fill")
    BY PcNames DEF WriteData
  <2> QED
    BY <2>1, AtFacts, WriteDataSteps, StepsAlone
<1>2. UNCHANGED <<free_list_head, super_disk, inode_block, held, mixed>>
  BY DEF WriteData
<1>3. settled' = [settled EXCEPT !.disk[pos] = [s \in Slots |-> w]]
  BY DEF WriteData, Filled
<1>4. Changing(th) /\ Len(th.copy) > 0 /\ pos = Last(th.copy)
  <2>1. th.call # "read" /\ th.copy # <<>> /\ pos = Last(th.copy) /\ th.copy \in Seq(DataBlocks)
    BY <1>1, PcFacts DEF ThreadOK, CopyOK, CallOK
  <2> QED
    BY <1>1, <2>1, PcFacts, CopyFacts DEF Changing
<1>5. pos \in held /\ \A u \in Threads \ {t} : Changing(threads[u]) /\ Len(threads[u].copy) > 0
                                               => Last(threads[u].copy) # pos
  BY <1>4, LastHeld DEF Clean
<1>6. Lists!Next
  BY <1>2, <1>3, <1>5, WriteHeld DEF Clean
<1>7. threads'[t].pc = "block"
  <2>1. Becomes(t, Access(th, "block", 1))
    BY DEF WriteData
  <2>2. threads'[t] = Access(th, "block", 1)
    BY <2>1 DEF Becomes, TypeInv
  <2> QED
    BY <1>1, <2>2 DEF Access, Busy
<1>8. FilesApart'
  <2>1. ~ Becomes(t, Idle)
    BY <1>7, BecomesFacts, BusyFacts
  <2> QED
    BY <1>1, <1>2, <2>1, ApartKept DEF Clean
<1> HIDE DEF th, w
<1>9. ListSide'
  <2>1. settled' = [head |-> settled.head, super |-> settled.super, disk |-> [disk EXCEPT ![pos] = [s \in Slots |-> w]]]
    BY <1>3, SettledWrite
  <2>2. \A b \in DataBlocks : b # pos => settled'.disk[b] = settled.disk[b]
    BY <2>1 DEF TypeInv
  <2>3. settled.head \in DataBlocks => settled.head # pos
    BY <1>5, ListFacts DEF ListKnown, Clean
  <2>4. ASSUME NEW u \in Threads \ {t}, InList(u), threads[u].call = "truncate"
        PROVE  threads[u].block \in DataBlocks /\ threads[u].block # pos
    <3>1. threads[u].pc \in ListPcs
      BY <2>4, PcFacts DEF InList
    <3>2. /\ Changing(threads[u]) /\ Len(threads[u].copy) > 0 /\ threads[u].block = Last(threads[u].copy)
          /\ threads[u].block \in held
      BY <2>4, <3>1, FreedHeld DEF Clean
    <3>3. held \subseteq DataBlocks
      BY ListFacts DEF ListKnown, Clean
    <3> QED
      BY <1>5, <3>2, <3>3
  <2>5. \A u \in Threads \ {t} : InList(u) => OutOfSight(u)
    BY <2>2, <2>3, <2>4 DEF OutOfSight
  <2>6. ~ InList(t) /\ ~ InList(t)'
    BY <1>1, <1>7 DEF InList, th
  <2> QED
    BY <1>1, <1>2, <1>7, <2>1, <2>5, <2>6, OutsideSide DEF Clean
<1> QED
  BY <1>6, <1>8, <1>9 DEF StaysClean
(* A step to or in the list, but the last.                                 *)
LEMMA InsideClean ==
    ASSUME TypeInv, UpdateInv, mixed = {}, Clean, NEW t \in Threads, Steps(t), threads'[t].pc \in InPcs,
           threads[t].pc # "node", UNCHANGED <<inode_block, held>>, [Lists!Next]_(Lists!vars),
           mixed' = {} => /\ \A u \in Threads \ {t} : ~ InList(u)
                          /\ ListOK(threads'[t], free_list_head', super_disk', settled')
    PROVE  StaysClean
<1>1. Alone(t)
  BY StepsAlone
<1>2. FilesApart'
  <2>1. ~ Becomes(t, Idle)
    BY BecomesFacts, BusyFacts DEF InPcs
  <2> QED
    BY <2>1, ApartKept DEF Clean
<1>3. mixed' = {} => ListSide'
  <2>1. InList(t)'
    BY DEF InList, InPcs
  <2> QED
    BY <1>1, <2>1, InsideSide DEF Clean
<1> QED
  BY <1>2, <1>3 DEF StaysClean

(* read_inode: create_new_dblock finds the head where the last call left it.*)
LEMMA ReadInodeClean ==
    ASSUME TypeInv, UpdateInv, mixed = {}, Clean, NEW t \in Threads, ReadInode(t)
    PROVE  StaysClean
<1> DEFINE old == threads[t]
           th == [old EXCEPT !.copy = inode_block[old.file]]
           n == Len(th.copy)
<1>1. old \in Busy /\ ThreadOK(old) /\ old.pc = "inode" /\ Steps(t) /\ ~ InList(t)
  <2>1. "inode" \in Pcs /\ At(t, "inode")
    BY PcNames DEF ReadInode
  <2> QED
    BY <2>1, AtFacts, ReadInodeSteps DEF InList
<1>2. inode_block[old.file] \in Seq(DataBlocks) /\ inode_block[old.file] \in Seq(Words)
  BY <1>1, NumberFacts, CopyFacts DEF TypeInv, Busy
<1>3. th \in Busy
  BY <1>1, <1>2, Assigned
<1>4. ~ old.empty /\ old.target = 0
  BY <1>1 DEF Clean, ListSide, ThreadsListOK, ListOK
<1>5. th.call = old.call /\ th.pc = "inode" /\ ~ th.empty /\ th.target = 0 /\ th.copy = inode_block[old.file]
  BY <1>1, <1>4 DEF Busy
<1>6. UNCHANGED <<free_list_head, super_disk, inode_block, held, settled>>
  BY DEF ReadInode
<1>7. \/ /\ th.call = "write" /\ free_list_head # 0
         /\ Becomes(t, Access(th, "list", free_list_head)) /\ EnterList(t)
      \/ /\ th.call = "truncate" /\ n > 1
         /\ Becomes(t, Access([th EXCEPT !.block = Last(th.copy)], "zero", Last(th.copy)))
         /\ UNCHANGED mixed
      \/ Becomes(t, Access(th, "data", Last(th.copy))) /\ UNCHANGED mixed
      \/ Becomes(t, Idle) /\ UNCHANGED mixed
  BY DEF ReadInode
<1> HIDE DEF old, th
<1>8. CASE /\ th.call = "write" /\ free_list_head # 0
           /\ Becomes(t, Access(th, "list", free_list_head)) /\ EnterList(t)
  <2> DEFINE new == Access(th, "list", free_list_head)
  <2>1. threads'[t] = new
    BY <1>8 DEF Becomes, TypeInv
  <2>2. new.pc = "list" /\ new.want = free_list_head /\ ~ new.empty /\ new.target = 0 /\ new.call = "write"
    BY <1>3, <1>5, <1>8 DEF Access, Busy
  <2> HIDE DEF new
  <2>3. "empty" \notin mixed' /\ (mixed' = {} => \A u \in Threads \ {t} : ~ InList(u))
    BY <1>8 DEF EnterList
  <2>4. ASSUME mixed' = {}
        PROVE  ListOK(new, free_list_head', super_disk', settled')
    <3>1. \A u \in Threads : ~ InList(u)
      BY <1>1, <2>3, <2>4
    <3>2. free_list_head = settled.head /\ super_disk = settled.super
      BY <3>1 DEF Clean, ListSide, ListAtRest
    <3> QED
      BY <1>6, <1>8, <2>2, <3>2 DEF ListOK
  <2>5. UNCHANGED Lists!vars
    BY <1>6, <2>3, ListUnchanged
  <2>6. threads'[t].pc \in InPcs
    BY <2>1, <2>2 DEF InPcs
  <2>7. mixed' = {} => /\ \A u \in Threads \ {t} : ~ InList(u)
                       /\ ListOK(threads'[t], free_list_head', super_disk', settled')
    BY <2>1, <2>3, <2>4
  <2>8. threads[t].pc # "node"
    BY <1>1 DEF old
  <2> QED
    BY <1>1, <1>6, <2>5, <2>6, <2>7, <2>8, InsideClean
<1>9. ASSUME UNCHANGED mixed,
             threads'[t].pc \in {"zero", "data", "idle"},
             threads'[t].pc = "zero" => ~ threads'[t].empty /\ threads'[t].target = 0
      PROVE  StaysClean
  <2>1. ~ InList(t)' /\ "empty" \notin mixed'
    BY <1>9 DEF InList
  <2> QED
    BY <1>1, <1>6, <1>9, <2>1, OutsideClean DEF old
<1>10. CASE /\ th.call = "truncate" /\ n > 1
            /\ Becomes(t, Access([th EXCEPT !.block = Last(th.copy)], "zero", Last(th.copy)))
            /\ UNCHANGED mixed
  <2> DEFINE b == Last(th.copy)
             cut == [th EXCEPT !.block = b]
  <2>1. threads'[t] = Access(cut, "zero", b)
    BY <1>10 DEF Becomes, TypeInv
  <2>2. Access(cut, "zero", b).pc = "zero" /\ ~ Access(cut, "zero", b).empty /\ Access(cut, "zero", b).target = 0
    <3> HIDE DEF b
    <3> QED
      BY <1>3, <1>5 DEF Access, Busy
  <2> QED
    BY <1>9, <1>10, <2>1, <2>2
<1>11. CASE Becomes(t, Access(th, "data", Last(th.copy))) /\ UNCHANGED mixed
  <2>1. threads'[t] = Access(th, "data", Last(th.copy))
    BY <1>11 DEF Becomes, TypeInv
  <2>2. threads'[t].pc = "data"
    BY <1>3, <2>1 DEF Access, Busy
  <2> QED
    BY <1>9, <1>11, <2>2
<1>12. CASE Becomes(t, Idle) /\ UNCHANGED mixed
  <2>1. threads'[t].pc = "idle"
    BY <1>12, BecomesFacts, BusyFacts
  <2> QED
    BY <1>9, <1>12, <2>1
<1> QED
  BY <1>7, <1>8, <1>10, <1>11, <1>12

(* free_dblock clears the block and looks at the head.                     *)
LEMMA ZeroBlockClean ==
    ASSUME TypeInv, TypeInv', UpdateInv, mixed = {}, Clean, NEW t \in Threads, ZeroBlock(t)
    PROVE  StaysClean
<1> DEFINE th == threads[t]
           b == th.block
<1>1. th \in Busy /\ ThreadOK(th) /\ th.pc = "zero" /\ th.want \in DataBlocks /\ Steps(t) /\ ~ InList(t)
  <2>1. "zero" \in Pcs /\ At(t, "zero")
    BY PcNames DEF ZeroBlock
  <2> QED
    BY <2>1, AtFacts, ZeroBlockSteps DEF InList
<1>2. th.call = "truncate" /\ th.want = b /\ b \in DataBlocks
  BY <1>1 DEF ThreadOK, CallOK
<1>3. b \in held
  BY <1>1, <1>2, FreedHeld, PcFacts DEF Clean
<1>4. ~ th.empty /\ th.target = 0
  BY <1>1 DEF Clean, ListSide, ThreadsListOK, ListOK
<1>5. /\ settled' = [settled EXCEPT !.disk[b] = Zero]
      /\ UNCHANGED <<super_disk, inode_block, held>> /\ EnterList(t)
      /\ \/ /\ free_list_head = 0 /\ free_list_head' = b
            /\ Becomes(t, Access([th EXCEPT !.head = b, !.empty = TRUE], "super", 0))
         \/ /\ free_list_head # 0 /\ free_list_head' = free_list_head
            /\ Becomes(t, Access(th, "list", free_list_head))
  BY DEF ZeroBlock
<1>6. "empty" \notin mixed' /\ (mixed' = {} => \A u \in Threads \ {t} : ~ InList(u))
  BY <1>5 DEF EnterList
<1>7. Lists!Next
  <2>1. Zero = [s \in Slots |-> 0]
    BY DEF Zero
  <2> HIDE DEF b, th
  <2> QED
    BY <1>3, <1>5, <1>6, <2>1, WriteHeld DEF Clean
<1>8. settled'.head = settled.head /\ settled'.super = settled.super /\ settled'.disk[b] = Zero
  <2>1. settled' = [head |-> settled.head, super |-> settled.super, disk |-> [disk EXCEPT ![b] = Zero]]
    BY <1>5, SettledWrite
  <2> HIDE DEF b
  <2> QED
    BY <1>2, <2>1 DEF TypeInv
<1>9. ASSUME mixed' = {}
      PROVE  free_list_head = settled.head /\ super_disk = settled.super
  <2>1. \A u \in Threads : ~ InList(u)
    BY <1>1, <1>6, <1>9
  <2> QED
    BY <2>1 DEF Clean, ListSide, ListAtRest
<1>10. ASSUME threads'[t].pc \in InPcs,
              mixed' = {} => ListOK(threads'[t], free_list_head', super_disk', settled')
       PROVE  StaysClean
  BY <1>1, <1>5, <1>6, <1>7, <1>10, InsideClean
<1>11. CASE /\ free_list_head = 0 /\ free_list_head' = b
            /\ Becomes(t, Access([th EXCEPT !.head = b, !.empty = TRUE], "super", 0))
  <2> DEFINE new == Access([th EXCEPT !.head = b, !.empty = TRUE], "super", 0)
  <2>1. threads'[t] = new
    BY <1>11 DEF Becomes, TypeInv
  <2>2. new.pc = "super" /\ new.call = "truncate" /\ new.block = b /\ new.head = b /\ new.empty /\ new.target = 0
    BY <1>1, <1>2, <1>4 DEF Access, Busy
  <2> HIDE DEF new, b
  <2>3. mixed' = {} => ListOK(new, free_list_head', super_disk', settled')
    BY <1>8, <1>9, <1>11, <2>2 DEF ListOK, HeadMoves
  <2> QED
    BY <1>10, <2>1, <2>2, <2>3 DEF InPcs
<1>12. CASE /\ free_list_head # 0 /\ free_list_head' = free_list_head
            /\ Becomes(t, Access(th, "list", free_list_head))
  <2> DEFINE new == Access(th, "list", free_list_head)
  <2>1. threads'[t] = new
    BY <1>12 DEF Becomes, TypeInv
  <2>2. /\ new.pc = "list" /\ new.call = "truncate" /\ new.block = b /\ new.want = free_list_head
        /\ ~ new.empty /\ new.target = 0
    BY <1>1, <1>2, <1>4 DEF Access, Busy
  <2> HIDE DEF new, b
  <2>3. mixed' = {} => ListOK(new, free_list_head', super_disk', settled')
    BY <1>5, <1>8, <1>9, <1>12, <2>2 DEF ListOK
  <2> QED
    BY <1>10, <2>1, <2>2, <2>3 DEF InPcs
<1> QED
  BY <1>5, <1>11, <1>12
(* What is known of the thread that is in the list.                        *)
LEMMA InListFacts ==
    ASSUME Clean, NEW t \in Threads, threads[t] \in Busy, threads[t].pc \in InPcs
    PROVE  /\ \A u \in Threads \ {t} : ~ InList(u)
           /\ ListOK(threads[t], free_list_head, super_disk, settled)
BY DEF Clean, ListSide, OneInList, ThreadsListOK, InList, InPcs

(* create_new_dblock has read the head.                                    *)
LEMMA ReadListToCreateClean ==
    ASSUME TypeInv, UpdateInv, mixed = {}, Clean, NEW t \in Threads, ReadListToCreate(t)
    PROVE  StaysClean
<1> DEFINE th == threads[t]
           h == settled.head
           read == disk[h]
<1>1. th \in Busy /\ ThreadOK(th) /\ th.pc = "list" /\ th.want \in DataBlocks /\ th.call = "write" /\ Steps(t)
  <2>1. "list" \in Pcs /\ At(t, "list")
    BY PcNames DEF ReadListToCreate
  <2>2. th.call = "write"
    BY DEF ReadListToCreate
  <2> QED
    BY <2>1, <2>2, AtFacts, ReadListToCreateSteps
<1>2. ~ th.empty
  BY <1>1 DEF ThreadOK, CallOK
<1>3. /\ \A u \in Threads \ {t} : ~ InList(u)
      /\ ListOK(th, free_list_head, super_disk, settled)
  BY <1>1, InListFacts DEF InPcs
<1>4. th.want = h /\ free_list_head = h /\ h \in DataBlocks /\ super_disk = settled.super /\ th.target = 0
  BY <1>1, <1>2, <1>3 DEF ListOK
<1>5. UNCHANGED <<super_disk, inode_block, held, settled, mixed>>
  BY DEF ReadListToCreate
<1>6. UNCHANGED Lists!vars
  BY <1>5, ListUnchanged
<1>7. settled.disk = disk /\ read \in [Slots -> Words] /\ 0 \in Slots
  BY <1>4, SameNames DEF TypeInv
<1>8. ASSUME threads'[t].pc \in InPcs,
             ListOK(threads'[t], free_list_head', super_disk', settled')
      PROVE  StaysClean
  BY <1>1, <1>3, <1>5, <1>6, <1>8, InsideClean
<1>9. \/ \E s \in Atomic!EntrySlots :
            /\ Atomic!FirstUsed(read, s)
            /\ KeepHead(t, [th EXCEPT !.block = read[s]], Erased(read, s))
      \/ /\ \A s \in Atomic!EntrySlots : read[s] = 0
         /\ MoveHead(t, [th EXCEPT !.block = free_list_head], read[0], Erased(read, 0), free_list_head)
  BY <1>4 DEF ReadListToCreate
<1> HIDE DEF th, h, read
<1>10. ASSUME NEW s \in Atomic!EntrySlots, Atomic!FirstUsed(read, s),
              KeepHead(t, [th EXCEPT !.block = read[s]], Erased(read, s))
       PROVE  StaysClean
  <2> DEFINE new == Access([[th EXCEPT !.block = read[s]] EXCEPT !.node = Erased(read, s)], "node", free_list_head)
  <2>1. threads'[t] = new /\ free_list_head' = free_list_head
    BY <1>10 DEF KeepHead, Becomes, TypeInv
  <2>2. /\ new.pc = "node" /\ new.want = h /\ new.call = "write" /\ new.block = read[s] /\ ~ new.empty
        /\ new.node = [read EXCEPT ![s] = 0]
    BY <1>1, <1>2, <1>4 DEF Access, Busy, Erased
  <2> HIDE DEF new
  <2>3. HeadStays(new, settled)
    BY <1>4, <1>7, <1>10, <2>2 DEF HeadStays, h, read
  <2>4. ListOK(new, free_list_head', super_disk', settled')
    BY <1>4, <1>5, <2>1, <2>2, <2>3 DEF ListOK, h
  <2> QED
    BY <1>8, <2>1, <2>2, <2>4 DEF InPcs
<1>11. CASE /\ \A s \in Atomic!EntrySlots : read[s] = 0
            /\ MoveHead(t, [th EXCEPT !.block = free_list_head], read[0], Erased(read, 0), free_list_head)
  <2> DEFINE new == Access([[th EXCEPT !.block = free_list_head]
                              EXCEPT !.head = read[0], !.node = Erased(read, 0), !.target = free_list_head], "super", 0)
  <2>1. threads'[t] = new /\ free_list_head' = read[0]
    BY <1>11 DEF MoveHead, Becomes, TypeInv
  <2>2. /\ new.pc = "super" /\ new.call = "write" /\ new.block = h /\ ~ new.empty /\ new.head = read[0]
        /\ new.target = h /\ new.node = [read EXCEPT ![0] = 0]
    BY <1>1, <1>2, <1>4 DEF Access, Busy, Erased
  <2> HIDE DEF new
  <2>3. HeadMoves(new, settled)
    BY <1>4, <1>7, <1>11, <2>2 DEF HeadMoves, h, read
  <2>4. ListOK(new, free_list_head', super_disk', settled')
    BY <1>4, <1>5, <2>1, <2>2, <2>3 DEF ListOK, h
  <2> QED
    BY <1>8, <2>1, <2>2, <2>4 DEF InPcs
<1> QED
  BY <1>9, <1>10, <1>11

(* free_dblock has read the head, or the cleared block it has made the head.*)
LEMMA ReadListToFreeClean ==
    ASSUME TypeInv, UpdateInv, mixed = {}, Clean, NEW t \in Threads, ReadListToFree(t)
    PROVE  StaysClean
<1> DEFINE th == threads[t]
           h == free_list_head
           read == disk[h]
           b == th.block
<1>1. th \in Busy /\ ThreadOK(th) /\ th.pc = "list" /\ th.want \in DataBlocks /\ th.call = "truncate" /\ Steps(t)
  <2>1. "list" \in Pcs /\ At(t, "list")
    BY PcNames DEF ReadListToFree
  <2>2. th.call = "truncate"
    BY DEF ReadListToFree
  <2> QED
    BY <2>1, <2>2, AtFacts, ReadListToFreeSteps
<1>2. /\ \A u \in Threads \ {t} : ~ InList(u)
      /\ ListOK(th, free_list_head, super_disk, settled)
  BY <1>1, InListFacts DEF InPcs
<1>3. settled.disk = disk /\ \A x \in DataBlocks : disk[x] \in [Slots -> Words]
  BY DEF TypeInv
<1>4. /\ th.want = h /\ h \in DataBlocks /\ th.target = 0 /\ settled.disk[b] = Zero
      /\ IF th.empty THEN settled.head = 0 /\ h = b /\ super_disk = b
         ELSE settled.head = h /\ super_disk = settled.super
  BY <1>1, <1>2 DEF ListOK
<1>5. UNCHANGED <<super_disk, inode_block, held, settled, mixed>>
  BY DEF ReadListToFree
<1>6. UNCHANGED Lists!vars
  BY <1>5, ListUnchanged
<1>7. ASSUME threads'[t].pc \in InPcs,
             ListOK(threads'[t], free_list_head', super_disk', settled')
      PROVE  StaysClean
  BY <1>1, <1>2, <1>5, <1>6, <1>7, InsideClean
<1>8. \/ \E s \in Atomic!EntrySlots :
            Atomic!FirstUnused(read, s) /\ KeepHead(t, th, [read EXCEPT ![s] = b])
      \/ /\ \A s \in Atomic!EntrySlots : read[s] # 0
         /\ MoveHead(t, th, b, [Zero EXCEPT ![0] = h], b)
  BY <1>4 DEF ReadListToFree
<1> HIDE DEF th, b
<1>9. ASSUME NEW s \in Atomic!EntrySlots, Atomic!FirstUnused(read, s),
             KeepHead(t, th, [read EXCEPT ![s] = b])
      PROVE  StaysClean
  <2> DEFINE new == Access([th EXCEPT !.node = [read EXCEPT ![s] = b]], "node", free_list_head)
  <2>1. threads'[t] = new /\ free_list_head' = h
    BY <1>9 DEF KeepHead, Becomes, TypeInv
  <2>2. /\ new.pc = "node" /\ new.want = h /\ new.call = "truncate" /\ new.block = b /\ new.empty = th.empty
        /\ new.node = [read EXCEPT ![s] = b]
    BY <1>1 DEF Access, Busy, b
  <2> HIDE DEF new
  <2>3. CASE ~ th.empty
    <3>1. HeadStays(new, settled)
      BY <1>3, <1>4, <1>9, <2>2, <2>3 DEF HeadStays
    <3>2. ListOK(new, free_list_head', super_disk', settled')
      BY <1>4, <1>5, <2>1, <2>2, <2>3, <3>1 DEF ListOK
    <3> QED
      BY <1>7, <2>1, <2>2, <3>2 DEF InPcs
  <2>4. CASE th.empty
    <3>1. read = Zero
      BY <1>3, <1>4, <2>4
    <3>2. Emptied(new, settled)
      BY <1>4, <1>9, <2>2, <2>4, <3>1 DEF Emptied
    <3>3. ListOK(new, free_list_head', super_disk', settled')
      BY <1>4, <1>5, <2>1, <2>2, <2>4, <3>2 DEF ListOK
    <3> QED
      BY <1>7, <2>1, <2>2, <3>3 DEF InPcs
  <2> QED
    BY <2>3, <2>4
<1>10. CASE /\ \A s \in Atomic!EntrySlots : read[s] # 0
            /\ MoveHead(t, th, b, [Zero EXCEPT ![0] = h], b)
  <2> DEFINE new == Access([th EXCEPT !.head = b, !.node = [Zero EXCEPT ![0] = h], !.target = b], "super", 0)
  <2>1. threads'[t] = new /\ free_list_head' = b
    BY <1>10 DEF MoveHead, Becomes, TypeInv
  <2>2. /\ new.pc = "super" /\ new.call = "truncate" /\ new.block = b /\ new.empty = th.empty /\ new.head = b
        /\ new.target = b /\ new.node = [Zero EXCEPT ![0] = h]
    BY <1>1 DEF Access, Busy, b
  <2> HIDE DEF new
  <2>3. ~ th.empty
    <3>1. th.empty => read = Zero
      BY <1>3, <1>4
    <3>2. 1 \in Atomic!EntrySlots /\ 1 \in Slots
      BY SameNames
    <3>3. Zero[1] = 0
      BY <3>2 DEF Zero
    <3>4. read[1] # 0
      BY <1>10, <3>2
    <3> QED
      BY <3>1, <3>3, <3>4
  <2>4. HeadMoves(new, settled)
    <3>1. settled.head = h /\ h \in DataBlocks /\ settled.disk[h] = read
      BY <1>3, <1>4, <2>3
    <3> HIDE DEF h, read
    <3> QED
      BY <1>10, <2>2, <2>3, <3>1 DEF HeadMoves
  <2>5. ListOK(new, free_list_head', super_disk', settled')
    BY <1>4, <1>5, <2>1, <2>2, <2>3, <2>4 DEF ListOK
  <2> QED
    BY <1>7, <2>1, <2>2, <2>5 DEF InPcs
<1> QED
  BY <1>8, <1>9, <1>10

(* The superblock is written.                                              *)
LEMMA WriteSuperClean ==
    ASSUME TypeInv, UpdateInv, mixed = {}, Clean, NEW t \in Threads, WriteSuper(t)
    PROVE  StaysClean
<1> DEFINE th == threads[t]
<1>1. th \in Busy /\ ThreadOK(th) /\ th.pc = "super" /\ Steps(t)
  <2>1. "super" \in Pcs /\ At(t, "super")
    BY PcNames DEF WriteSuper
  <2> QED
    BY <2>1, AtFacts, WriteSuperSteps
<1>2. /\ \A u \in Threads \ {t} : ~ InList(u)
      /\ ListOK(th, free_list_head, super_disk, settled)
  BY <1>1, InListFacts DEF InPcs
<1>3. HeadMoves(th, settled) /\ free_list_head = th.head /\ (th.call = "truncate" => settled.disk[th.block] = Zero)
  BY <1>1, <1>2 DEF ListOK
<1>4. UNCHANGED <<free_list_head, inode_block, held, settled, mixed>> /\ super_disk' = th.head
  BY DEF WriteSuper
<1>5. UNCHANGED Lists!vars
  BY <1>4, ListUnchanged
<1>6. ASSUME threads'[t].pc \in InPcs,
             ListOK(threads'[t], free_list_head', super_disk', settled')
      PROVE  StaysClean
  BY <1>1, <1>2, <1>4, <1>5, <1>6, InsideClean
<1>7. Becomes(t, IF th.empty /\ th.target = 0 THEN Access(th, "list", free_list_head) ELSE Access(th, "node", th.target))
  BY DEF WriteSuper
<1>8. th.empty => th.target = 0 /\ th.head = th.block /\ settled.head = 0 /\ th.call = "truncate"
  BY <1>1, <1>3 DEF HeadMoves, ThreadOK, CallOK
<1> HIDE DEF th
<1>9. CASE th.empty
  <2> DEFINE new == Access(th, "list", free_list_head)
  <2>1. threads'[t] = new
    BY <1>7, <1>8, <1>9 DEF Becomes, TypeInv
  <2>2. /\ new.pc = "list" /\ new.want = free_list_head /\ new.call = th.call /\ new.block = th.block
        /\ new.empty /\ new.target = 0
    BY <1>1, <1>8, <1>9 DEF Access, Busy
  <2> HIDE DEF new
  <2>3. ListOK(new, free_list_head', super_disk', settled')
    BY <1>3, <1>4, <1>8, <1>9, <2>2 DEF ListOK
  <2> QED
    BY <1>6, <2>1, <2>2, <2>3 DEF InPcs
<1>10. CASE ~ th.empty
  <2> DEFINE new == Access(th, "node", th.target)
  <2>1. threads'[t] = new
    BY <1>7, <1>10 DEF Becomes, TypeInv
  <2>2. /\ new.pc = "node" /\ new.want = th.target /\ new.call = th.call /\ new.block = th.block
        /\ ~ new.empty /\ new.target = th.target /\ new.head = th.head /\ new.node = th.node
    BY <1>1, <1>10 DEF Access, Busy
  <2> HIDE DEF new
  <2>3. HeadMoves(new, settled)
    BY <1>3, <1>10, <2>2 DEF HeadMoves
  <2>4. ListOK(new, free_list_head', super_disk', settled')
    BY <1>3, <1>4, <2>2, <2>3 DEF ListOK
  <2> QED
    BY <1>6, <2>1, <2>2, <2>4 DEF InPcs
<1> QED
  BY <1>9, <1>10
(* The call of the list ends, and was one step of FreeList.                *)
LEMMA WriteNodeAtomic ==
    ASSUME TypeInv, TypeInv', UpdateInv, mixed = {}, Clean, NEW t \in Threads, WriteNode(t)
    PROVE  Lists!Next /\ (threads[t].call = "write" => threads[t].block \notin held)
<1> DEFINE th == threads[t]
           h == settled.head
           b == th.block
<1>1. th \in Busy /\ ThreadOK(th) /\ th.pc = "node" /\ th.want \in DataBlocks
  <2>1. "node" \in Pcs /\ At(t, "node")
    BY PcNames DEF WriteNode
  <2> QED
    BY <2>1, AtFacts
<1>2. th.call \in {"write", "truncate"}
  BY <1>1, PcFacts DEF ThreadOK, CallOK, Busy, Calls
<1>3. ListOK(th, free_list_head, super_disk, settled)
  BY <1>1, InListFacts DEF InPcs
<1>4. /\ settled' = [head |-> free_list_head, super |-> super_disk, disk |-> [disk EXCEPT ![th.want] = th.node]]
      /\ held' = IF th.call = "write" THEN held \cup {b} ELSE held \ {b}
      /\ mixed' = IF th.empty THEN {"empty"} ELSE {}
  BY DEF WriteNode
<1>5. settled.disk = disk
  BY DEF TypeInv
<1>6. th.call = "truncate" => b \in held /\ disk[b] = Zero
  <2>1. th.call = "truncate" => b \in held
    BY <1>1, FreedHeld, PcFacts DEF Clean
  <2> QED
    BY <1>1, <1>3, <1>5, <2>1 DEF ListOK
<1>7. \/ HeadStays(th, settled) /\ free_list_head = h /\ super_disk = settled.super
      \/ HeadMoves(th, settled) /\ ~ th.empty /\ th.want = th.target /\ free_list_head = th.head /\ super_disk = th.head
      \/ Emptied(th, settled) /\ free_list_head = b /\ super_disk = b
  BY <1>1, <1>3 DEF ListOK
<1> HIDE DEF th, h, b
<1>8. CASE HeadStays(th, settled) /\ free_list_head = h /\ super_disk = settled.super
  <2>1. h \in DataBlocks /\ th.want = h /\ "empty" \notin mixed'
    BY <1>4, <1>8 DEF HeadStays, h
  <2>2. CASE th.call = "write"
    <3>1. PICK s \in Atomic!EntrySlots : /\ Atomic!FirstUsed(disk[h], s) /\ b = disk[h][s]
                                         /\ th.node = [disk[h] EXCEPT ![s] = 0]
      BY <1>5, <1>8, <2>2 DEF HeadStays, h, b
    <3>2. /\ settled' = [head |-> h, super |-> settled.super, disk |-> [disk EXCEPT ![h] = [disk[h] EXCEPT ![s] = 0]]]
          /\ held' = held \cup {disk[h][s]}
      BY <1>4, <1>8, <2>1, <2>2, <3>1
    <3>3. Lists!Next /\ disk[h][s] \in DataBlocks \ held
      BY <2>1, <3>1, <3>2, EntryHandedOut DEF Clean, h
    <3> QED
      BY <3>1, <3>3 DEF b, th
  <2>3. CASE th.call = "truncate"
    <3>1. PICK s \in Atomic!EntrySlots : Atomic!FirstUnused(disk[h], s) /\ th.node = [disk[h] EXCEPT ![s] = b]
      BY <1>5, <1>8, <2>3 DEF HeadStays, h, b
    <3>2. /\ settled' = [head |-> h, super |-> settled.super, disk |-> [disk EXCEPT ![h] = [disk[h] EXCEPT ![s] = b]]]
          /\ held' = held \ {b}
      BY <1>4, <1>8, <2>1, <2>3, <3>1
    <3>3. Lists!Next
      BY <1>6, <2>1, <2>3, <3>1, <3>2, FreedIntoEntry DEF Clean, h
    <3> QED
      BY <2>3, <3>3 DEF th
  <2> QED
    BY <1>2, <2>2, <2>3
<1>9. CASE /\ HeadMoves(th, settled) /\ ~ th.empty /\ th.want = th.target
           /\ free_list_head = th.head /\ super_disk = th.head
  <2>1. h \in DataBlocks /\ "empty" \notin mixed'
    BY <1>4, <1>9 DEF HeadMoves, h
  <2>2. CASE th.call = "write"
    <3>1. /\ b = h /\ th.want = h /\ th.head = disk[h][0] /\ th.node = [disk[h] EXCEPT ![0] = 0]
          /\ \A s \in Atomic!EntrySlots : disk[h][s] = 0
      BY <1>5, <1>9, <2>2 DEF HeadMoves, h, b
    <3>2. /\ settled' = [head |-> disk[h][0], super |-> disk[h][0], disk |-> [disk EXCEPT ![h] = [disk[h] EXCEPT ![0] = 0]]]
          /\ held' = held \cup {h}
      BY <1>4, <1>9, <2>2, <3>1
    <3>3. Lists!Next /\ h \notin held
      BY <2>1, <3>1, <3>2, HeadHandedOut DEF Clean, h
    <3> QED
      BY <3>1, <3>3 DEF b, th
  <2>3. CASE th.call = "truncate"
    <3>1. /\ th.want = b /\ th.head = b /\ th.node = [Zero EXCEPT ![0] = h]
          /\ \A s \in Atomic!EntrySlots : disk[h][s] # 0
      BY <1>5, <1>9, <2>3 DEF HeadMoves, h, b
    <3>2. /\ settled' = [head |-> b, super |-> b, disk |-> [disk EXCEPT ![b] = [Zero EXCEPT ![0] = h]]]
          /\ held' = held \ {b}
      BY <1>4, <1>9, <2>3, <3>1
    <3>3. Lists!Next
      BY <1>6, <2>1, <2>3, <3>1, <3>2, FreedAsHead DEF Clean, h
    <3> QED
      BY <2>3, <3>3 DEF th
  <2> QED
    BY <1>2, <2>2, <2>3
<1>10. CASE Emptied(th, settled) /\ free_list_head = b /\ super_disk = b
  <2>1. PICK s \in Atomic!EntrySlots : Atomic!FirstUnused(Zero, s) /\ th.node = [Zero EXCEPT ![s] = b]
    BY <1>10 DEF Emptied, b
  <2>2. th.call = "truncate" /\ "empty" \in mixed' /\ h = 0 /\ th.want = b
    BY <1>1, <1>4, <1>10 DEF Emptied, ThreadOK, CallOK, h, b
  <2>3. /\ settled' = [head |-> b, super |-> b, disk |-> [disk EXCEPT ![b] = [Zero EXCEPT ![s] = b]]]
        /\ held' = held \ {b}
    BY <1>4, <1>10, <2>1, <2>2
  <2>4. Lists!Next
    BY <1>6, <2>1, <2>2, <2>3, FreedIntoExhausted DEF Clean, h
  <2> QED
    BY <2>2, <2>4 DEF th
<1> QED
  BY <1>7, <1>8, <1>9, <1>10

(* The thread goes on to the data with the block in its copy of the inode. *)
LEMMA WriteNodeClean ==
    ASSUME TypeInv, TypeInv', UpdateInv, mixed = {}, Clean, NEW t \in Threads, WriteNode(t)
    PROVE  StaysClean
<1> DEFINE th == threads[t]
<1>1. th \in Busy /\ ThreadOK(th) /\ th.pc = "node" /\ Steps(t) /\ Alone(t)
  <2>1. "node" \in Pcs /\ At(t, "node")
    BY PcNames DEF WriteNode
  <2> QED
    BY <2>1, AtFacts, WriteNodeSteps, StepsAlone
<1>2. Lists!Next /\ (th.call = "write" => th.block \notin held)
  BY WriteNodeAtomic
<1>3. \A u \in Threads \ {t} : ~ InList(u)
  BY <1>1, InListFacts DEF InPcs
<1>4. threads'[t].pc = "data"
  <2>1. PICK copy, b : Becomes(t, Access([th EXCEPT !.copy = copy, !.node = Zero, !.target = 0, !.head = 0], "data", b))
    BY DEF WriteNode
  <2>2. threads'[t] = Access([th EXCEPT !.copy = copy, !.node = Zero, !.target = 0, !.head = 0], "data", b)
    BY <2>1 DEF Becomes, TypeInv
  <2> QED
    BY <1>1, <2>2 DEF Access, Busy
<1>5. ListSide'
  <2>1. settled'.head = free_list_head' /\ settled'.super = super_disk'
    BY DEF WriteNode
  <2> QED
    BY <1>1, <1>3, <1>4, <2>1, LeavesSide, PcFacts DEF Clean
<1>6. FilesApart'
  <2>1. ~ Becomes(t, Idle)
    BY <1>4, BecomesFacts, BusyFacts
  <2>2. PICK new \in Busy : ThreadOK(new) /\ Advances(th, new) /\ Becomes(t, new)
    BY <1>1, <2>1 DEF Steps
  <2>3. threads'[t] = new
    BY <2>2, BecomesFacts
  <2>4. new.pc \in DataPcs /\ new.call = th.call /\ new.file = th.file /\ new.copy = CopyAfter(th)
    BY <1>1, <1>4, <2>2, <2>3, PcFacts DEF Advances, CopyAfter
  <2>5. /\ th.call = "write" => held' = held \cup {th.block}
        /\ th.call # "write" => held' = held \ {th.block}
        /\ UNCHANGED inode_block
    BY DEF WriteNode
  <2> QED
    BY <1>1, <1>2, <2>2, <2>4, <2>5, ApartUpdated DEF Clean
<1> QED
  BY <1>2, <1>5, <1>6 DEF StaysClean
-----------------------------------------------------------------------------
(* Until something is mixed up                                             *)

CleanInv == mixed = {} => Clean

(* What went wrong stays on record.                                        *)
LEMMA MixedGrows == [Next]_vars => mixed \subseteq mixed'
<1> SUFFICES ASSUME [Next]_vars PROVE mixed \subseteq mixed'
  OBVIOUS
<1>1. CASE UNCHANGED vars
  BY <1>1 DEF vars
<1>2. ASSUME NEW t \in Threads, NEW call \in Calls, NEW f \in Inodes, Begin(t, call, f)
      PROVE  mixed \subseteq mixed'
  BY <1>2 DEF Begin
<1>3. ASSUME NEW t \in Threads, ReadInode(t) \/ ZeroBlock(t)
      PROVE  mixed \subseteq mixed'
  BY <1>3 DEF ReadInode, ZeroBlock, EnterList
<1>4. ASSUME NEW t \in Threads,
             Seek(t) \/ ReadListToCreate(t) \/ ReadListToFree(t) \/ WriteSuper(t) \/ ReadData(t)
                \/ WriteData(t) \/ WriteInodeBlock(t)
      PROVE  mixed' = mixed
  BY <1>4 DEF Seek, ReadListToCreate, ReadListToFree, WriteSuper, ReadData, WriteData, WriteInodeBlock
<1>5. ASSUME NEW t \in Threads, GoAstray(t) \/ WriteNode(t) \/ ReadInodeBlock(t)
      PROVE  mixed \subseteq mixed'
  BY <1>5 DEF GoAstray, WriteNode, ReadInodeBlock
<1> QED
  BY <1>1, <1>2, <1>3, <1>4, <1>5 DEF Next, Calls

(* Every step is one of FreeList, and leaves what is known of the list     *)
(* true.                                                                   *)
LEMMA StepStaysClean ==
    ASSUME TypeInv, TypeInv', UpdateInv, mixed = {}, Clean, Next
    PROVE  StaysClean
<1>1. ASSUME NEW t \in Threads, NEW call \in Calls, NEW f \in Inodes, Begin(t, call, f)
      PROVE  StaysClean
  BY <1>1, BeginClean
<1>2. ASSUME NEW t \in Threads, Seek(t) PROVE StaysClean
  BY <1>2, SeekClean
<1>3. ASSUME NEW t \in Threads, GoAstray(t) PROVE StaysClean
  <2>1. mixed' \in {{"position"}, {"wild"}} /\ UNCHANGED <<settled, held>>
    BY <1>3 DEF GoAstray
  <2>2. UNCHANGED Lists!vars
    BY <2>1, ListUnchanged
  <2> QED
    BY <2>1, <2>2 DEF StaysClean
<1>4. ASSUME NEW t \in Threads, ReadInode(t) PROVE StaysClean
  BY <1>4, ReadInodeClean
<1>5. ASSUME NEW t \in Threads, ZeroBlock(t) PROVE StaysClean
  BY <1>5, ZeroBlockClean
<1>6. ASSUME NEW t \in Threads, ReadListToCreate(t) PROVE StaysClean
  BY <1>6, ReadListToCreateClean
<1>7. ASSUME NEW t \in Threads, ReadListToFree(t) PROVE StaysClean
  BY <1>7, ReadListToFreeClean
<1>8. ASSUME NEW t \in Threads, WriteSuper(t) PROVE StaysClean
  BY <1>8, WriteSuperClean
<1>9. ASSUME NEW t \in Threads, WriteNode(t) PROVE StaysClean
  BY <1>9, WriteNodeClean
<1>10. ASSUME NEW t \in Threads, ReadData(t) PROVE StaysClean
  BY <1>10, ReadDataClean
<1>11. ASSUME NEW t \in Threads, WriteData(t) PROVE StaysClean
  BY <1>11, WriteDataClean
<1>12. ASSUME NEW t \in Threads, ReadInodeBlock(t) PROVE StaysClean
  BY <1>12, ReadInodeBlockClean
<1>13. ASSUME NEW t \in Threads, WriteInodeBlock(t) PROVE StaysClean
  BY <1>13, WriteInodeBlockClean
<1> QED
  BY <1>1, <1>2, <1>3, <1>4, <1>5, <1>6, <1>7, <1>8, <1>9, <1>10, <1>11, <1>12, <1>13 DEF Next, Calls

(* So it is known in every state in which nothing is mixed up.             *)
LEMMA StepClean == TypeInv /\ TypeInv' /\ UpdateInv /\ CleanInv /\ [Next]_vars => CleanInv'
<1> SUFFICES ASSUME TypeInv, TypeInv', UpdateInv, CleanInv, [Next]_vars, mixed' = {}
             PROVE  Clean'
  BY DEF CleanInv
<1>1. mixed = {}
  BY MixedGrows
<1>2. Clean
  BY <1>1 DEF CleanInv
<1>3. CASE Next
  <2>1. StaysClean
    BY <1>1, <1>2, <1>3, StepStaysClean
  <2>2. Lists!PoolInv'
    BY <1>2, <2>1, PoolKept DEF Clean, StaysClean
  <2> QED
    BY <2>1, <2>2 DEF Clean, StaysClean
<1>4. CASE UNCHANGED vars
  <2>1. UNCHANGED <<free_list_head, super_disk, disk, inode_block, threads, held, settled, mixed>>
    BY <1>4 DEF vars
  <2>2. ListSide'
    BY <1>2, <2>1 DEF Clean, ListSide, OneInList, ListAtRest, ThreadsListOK, InList
  <2>3. FilesApart'
    BY <1>2, <2>1 DEF Clean, FilesApart, Owns, Holds, HasUpdate
  <2>4. Lists!PoolInv'
    <3>1. UNCHANGED Lists!vars
      BY <1>1, <2>1, ListUnchanged
    <3> QED
      BY <1>2, <3>1, PoolKept DEF Clean
  <2> QED
    BY <2>2, <2>3, <2>4 DEF Clean
<1> QED
  BY <1>3, <1>4

(* make_fs leaves the list that FreeList begins with.                      *)
LEMMA InitChain == Init => ChainFrom(settled) = [i \in 1 .. Atomic!ListBlocks |-> Atomic!ListBlock(Atomic!ListBlocks - i)]
<1> SUFFICES ASSUME Init
             PROVE  ChainFrom(settled) = [i \in 1 .. Atomic!ListBlocks |-> Atomic!ListBlock(Atomic!ListBlocks - i)]
  OBVIOUS
<1> DEFINE q == [i \in 1 .. Atomic!ListBlocks |-> Atomic!ListBlock(Atomic!ListBlocks - i)]
<1>1. Made!Init
  BY DEF Init, Made!Init, Made!FirstListBlock, Atomic!FirstListBlock, Made!DataBlocks, DataBlocks, Made!ListBlocks,
         Atomic!ListBlocks, Made!ListBlock, Atomic!ListBlock, Made!ListImage, Atomic!ListImage, Made!OnDevice,
         Atomic!OnDevice, Made!Slots, Atomic!Slots, Made!Zero, Zero, Slots
<1>2. Made!TypeOK /\ Made!ListShape
  BY <1>1, ListAssumptions, Made!InitType, Made!InitList
<1>3. Made!DataBlocks = DataBlocks
  BY DEF Made!DataBlocks, DataBlocks
<1>4. Chained(settled, q)
  <2>1. q \in Seq(DataBlocks)
    BY <1>2, <1>3 DEF Made!TypeOK
  <2>2. settled.head = IF q = <<>> THEN 0 ELSE q[Len(q)]
    BY <1>2 DEF Made!ListShape, Made!HeadIsLast
  <2>3. DOMAIN q = 1 .. Len(q)
    <3> HIDE DEF q
    <3> QED
      BY <2>1, LenProperties
  <2>4. /\ \A i \in DOMAIN q : settled.disk[q[i]][0] = IF i = 1 THEN 0 ELSE q[i - 1]
        /\ \A i, j \in DOMAIN q : q[i] = q[j] => i = j
    BY <1>2 DEF Made!ListShape, Made!LinksFollowChain
  <2> HIDE DEF q
  <2> QED
    BY <2>1, <2>2, <2>3, <2>4 DEF Chained
<1>5. settled.disk \in [DataBlocks -> [Slots -> Words]]
  BY InitType DEF TypeInv
<1> HIDE DEF q
<1>6. ChainFrom(settled) = q
  BY <1>4, <1>5, ChainIs
<1> QED
  BY <1>6 DEF q

(* The list begins as FreeList's.                                          *)
LEMMA InitAtomic == Init => Lists!Init /\ Atomic!Init
<1> SUFFICES ASSUME Init PROVE Lists!Init /\ Atomic!Init
  OBVIOUS
<1>1. Atomic!Init
  BY InitChain DEF Init, Atomic!Init, Atomic!DataBlocks, DataBlocks, Atomic!Zero, Zero, Atomic!Slots, Slots
<1>2. Lists!Init
  BY InitChain DEF Init, Lists!Init, Lists!FirstListBlock, Atomic!FirstListBlock, Lists!DataBlocks, DataBlocks,
         Lists!ListBlocks, Atomic!ListBlocks, Lists!ListBlock, Atomic!ListBlock, Lists!ListImage, Atomic!ListImage,
         Lists!OnDevice, Atomic!OnDevice, Lists!Slots, Atomic!Slots, Lists!Zero, Zero, Slots, Chain, Mishaps
<1> QED
  BY <1>1, <1>2

(* Nothing is mixed up after make_fs.                                      *)
LEMMA InitClean == Init => CleanInv
<1> SUFFICES ASSUME Init PROVE Clean
  BY DEF CleanInv
<1>1. Lists!PoolInv
  BY InitAtomic, ListAssumptions, Lists!InitPool
<1>2. \A t \in Threads : threads[t] = Idle
  BY DEF Init
<1>3. ListSide
  BY <1>2, BusyFacts DEF Init, ListSide, OneInList, ListAtRest, ThreadsListOK, InList
<1>4. FilesApart
  <2>1. \A f \in Inodes : Holds(f, inode_block[f])
    BY <1>2, BusyFacts, PcFacts DEF Holds, HasUpdate
  <2>2. inode_block = [f \in Inodes |-> <<>>] /\ held = {}
    BY DEF Init
  <2>3. Fits([f \in Inodes |-> <<>>], {})
    <3>1. <<>> \in Seq({}) /\ Len(<<>>) = 0 /\ 1 .. 0 = {}
      OBVIOUS
    <3> QED
      BY <3>1 DEF Fits
  <2>4. Owns(inode_block)
    BY <2>1, <2>2, <2>3 DEF Owns
  <2> QED
    BY <2>4 DEF FilesApart
<1> QED
  BY <1>1, <1>3, <1>4 DEF Clean

-----------------------------------------------------------------------------
(* The theorems                                                            *)

(* A sequence without repetitions has as many elements as places.          *)
LEMMA DistinctCount ==
    ASSUME NEW S, NEW q \in Seq(S), \A i, j \in 1 .. Len(q) : q[i] = q[j] => i = j
    PROVE  Cardinality({q[i] : i \in DOMAIN q}) = Len(q)
<1> DEFINE T == {q[i] : i \in DOMAIN q}
<1>1. Len(q) \in Nat /\ DOMAIN q = 1 .. Len(q) /\ q \in [1 .. Len(q) -> S]
  BY LenProperties, SeqDef
<1>2. q \in [1 .. Len(q) -> T]
  BY <1>1
<1>3. q \in Injection(1 .. Len(q), T)
  BY <1>1, <1>2 DEF Injection, IsInjective
<1>4. q \in Surjection(1 .. Len(q), T)
  BY <1>1, <1>2 DEF Surjection
<1>5. ExistsBijection(1 .. Len(q), T)
  BY <1>3, <1>4 DEF ExistsBijection, Bijection
<1> HIDE DEF T
<1>6. Cardinality(T) = Len(q)
  BY <1>1, <1>5, FS_CountingElements
<1> QED
  BY <1>6 DEF T

(* Files no thread works on keep to blocks of their own, which the list    *)
(* does not have, as long as nothing is mixed up.                          *)
LEMMA ApartIsQuiet == TypeInv /\ CleanInv => QuietFilesApart
<1> SUFFICES ASSUME TypeInv, CleanInv, mixed = {},
                    NEW f \in Inodes, \A t \in Threads : ~ BusyWith(t, f)
             PROVE  LET blocks(h) == {inode_block[h][i] : i \in DOMAIN inode_block[h]}
                    IN  /\ blocks(f) \subseteq held
                        /\ Cardinality(blocks(f)) = Len(inode_block[f])
                        /\ \A g \in Inodes \ {f} : (\A t \in Threads : ~ BusyWith(t, g)) => blocks(f) \cap blocks(g) = {}
  BY DEF QuietFilesApart
<1>1. PICK own : Owns(own)
  BY DEF CleanInv, Clean, FilesApart
<1>2. ASSUME NEW g \in Inodes, \A t \in Threads : ~ BusyWith(t, g)
      PROVE  own[g] = inode_block[g]
  <2>1. \A t \in Threads : ~ HasUpdate(t, g)
    BY <1>2, PcFacts DEF HasUpdate, BusyWith
  <2> QED
    BY <1>1, <2>1 DEF Owns, Holds
<1>3. \A g \in Inodes : own[g] \in Seq(held) /\ DOMAIN own[g] = 1 .. Len(own[g])
  BY <1>1, LenProperties DEF Owns, Fits
<1>4. own[f] = inode_block[f]
  BY <1>2
<1>5. {inode_block[f][i] : i \in DOMAIN inode_block[f]} \subseteq held
  BY <1>3, <1>4, ElementOfSeq
<1>6. Cardinality({inode_block[f][i] : i \in DOMAIN inode_block[f]}) = Len(inode_block[f])
  <2>1. own[f] \in Seq(held) /\ \A i, j \in 1 .. Len(own[f]) : own[f][i] = own[f][j] => i = j
    BY <1>1, <1>3 DEF Owns, Fits
  <2> QED
    BY <1>4, <2>1, DistinctCount
<1>7. ASSUME NEW g \in Inodes \ {f}, \A t \in Threads : ~ BusyWith(t, g)
      PROVE  {inode_block[f][i] : i \in DOMAIN inode_block[f]} \cap {inode_block[g][i] : i \in DOMAIN inode_block[g]} = {}
  <2>1. own[g] = inode_block[g]
    BY <1>2, <1>7
  <2>2. \A i \in DOMAIN own[f], j \in DOMAIN own[g] : own[f][i] # own[g][j]
    BY <1>1, <1>3 DEF Owns, Fits
  <2> QED
    BY <1>4, <2>1, <2>2
<1> QED
  BY <1>5, <1>6, <1>7

(* However the accesses of the threads fall, files that no thread works on *)
(* do not share blocks and have none that is free, until accesses met that *)
(* the program does not keep apart.                                        *)
THEOREM QuietFilesAlwaysApart == Spec => []QuietFilesApart
BY ApartIsQuiet, InitType, StepType, InitUpdate, StepUpdate, InitClean, StepClean, PTL DEF Spec

(* Every call of create_new_dblock and free_dblock takes effect as one step *)
(* of FreeList, whatever other threads do between its block accesses, until *)
(* accesses met that the program does not keep apart.                       *)
THEOREM ListCallsAreAtomic == Spec => ListCallsAtomic
<1>1. TypeInv /\ TypeInv' /\ UpdateInv /\ CleanInv /\ [Next]_vars => [mixed # {} \/ Atomic!Next]_(Atomic!vars)
  <2> SUFFICES ASSUME TypeInv, TypeInv', UpdateInv, CleanInv, [Next]_vars, mixed = {}
               PROVE  [Atomic!Next]_(Atomic!vars)
    OBVIOUS
  <2>1. Clean
    BY DEF CleanInv
  <2>2. CASE Next
    BY <2>1, <2>2, StepStaysClean, SameSteps DEF StaysClean
  <2>3. CASE UNCHANGED vars
    <3>1. UNCHANGED <<held, settled, mixed>>
      BY <2>3 DEF vars
    <3>2. UNCHANGED Lists!vars
      BY <3>1, ListUnchanged
    <3> QED
      BY <3>2, SameSteps
  <2> QED
    BY <2>2, <2>3
<1> QED
  BY <1>1, InitAtomic, InitType, StepType, InitUpdate, StepUpdate, InitClean, StepClean, PTL DEF Spec, ListCallsAtomic

=============================================================================
