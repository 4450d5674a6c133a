--------------------------- MODULE FreeListProofs ---------------------------
(***************************************************************************)
(* Theorems about FreeList, for every geometry of the device, every set of *)
(* caller words and with or without I/O faults.                            *)
(***************************************************************************)
EXTENDS FreeList, SequenceTheorems, TLAPS

USE GeometryAssumption, ClientAssumption

-----------------------------------------------------------------------------
(* Geometry                                                                *)

(* init_freelist makes at least one list block.                            *)
LEMMA ListBlocksType == ListBlocks \in Nat /\ ListBlocks >= 1
  BY DEF ListBlocks, FirstListBlock

(* The last list block is on the device, and the one after it would not be.*)
LEMMA ListBlocksBounds ==
    /\ ListBlock(ListBlocks - 1) < BLOCK_COUNT
    /\ ListBlock(ListBlocks) >= BLOCK_COUNT
  BY DEF ListBlocks, ListBlock, FirstListBlock

(* Two list blocks are at least DBLOCKS_PER_BLOCK apart.                   *)
LEMMA ListBlockGap ==
    ASSUME NEW j \in Nat, NEW k \in Nat, j < k
    PROVE  /\ ListBlock(j) \in Nat /\ ListBlock(k) \in Nat
           /\ ListBlock(j) + DBLOCKS_PER_BLOCK <= ListBlock(k)
           /\ ListBlock(j + 1) = ListBlock(j) + DBLOCKS_PER_BLOCK
  BY DEF ListBlock, FirstListBlock

-----------------------------------------------------------------------------
(* Type correctness                                                        *)

(* A block of zeros is a block of block numbers.                           *)
LEMMA ZeroType == Zero \in [Slots -> Words]
  BY DEF Zero, Words

(* What a block may hold: block numbers, 0, and the words of callers.      *)
LEMMA WordsFacts == DataBlocks \subseteq Words /\ 0 \in Words /\ ClientWords \subseteq Words
  BY DEF DataBlocks, Words

(* What init_freelist writes are block numbers or 0.                       *)
LEMMA ListImageType ==
    ASSUME NEW b \in DataBlocks
    PROVE  ListImage(b) \in [Slots -> Words]
  BY DEF ListImage, OnDevice, Slots, Words, DataBlocks

(* What is left of a sequence without its last element.                    *)
Front(q) == SubSeq(q, 1, Len(q) - 1)

(* Without its last element a sequence is one shorter and otherwise same.  *)
LEMMA FrontFacts ==
    ASSUME NEW S, NEW q \in Seq(S)
    PROVE  /\ Front(q) \in Seq(S)
           /\ Len(q) = 0 => Front(q) = <<>>
           /\ Len(q) >= 1 => /\ Len(Front(q)) = Len(q) - 1
                             /\ \A i \in 1 .. Len(q) - 1 : Front(q)[i] = q[i]
<1>1. Len(q) \in Nat /\ \A i \in 1 .. Len(q) - 1 : q[i] \in S
  BY ElementOfSeq, LenProperties
<1>2. CASE Len(q) = 0
  BY <1>1, <1>2, SubSeqEmpty, SubSeqProperties DEF Front
<1>3. CASE Len(q) >= 1
  <2>1. PICK n \in Nat : n = Len(q)
    BY <1>1
  <2>2. /\ Front(q) \in Seq(S)
        /\ Len(Front(q)) = IF 1 <= n - 1 THEN n - 1 - 1 + 1 ELSE 0
        /\ \A i \in 1 .. n - 1 - 1 + 1 : Front(q)[i] = q[1 + i - 1]
    <3>1. \A i \in 1 .. n - 1 : q[i] \in S
      BY <1>1, <2>1
    <3>2. 1 \in Int /\ n - 1 \in Int
      OBVIOUS
    <3>3. /\ SubSeq(q, 1, n - 1) \in Seq(S)
          /\ Len(SubSeq(q, 1, n - 1)) = IF 1 <= n - 1 THEN n - 1 - 1 + 1 ELSE 0
          /\ \A i \in 1 .. n - 1 - 1 + 1 : SubSeq(q, 1, n - 1)[i] = q[1 + i - 1]
      BY <3>1, <3>2, SubSeqProperties
    <3> QED
      BY <2>1, <3>3, Zenon DEF Front
  <2>3. n >= 1 /\ (IF 1 <= n - 1 THEN n - 1 - 1 + 1 ELSE 0) = n - 1
    BY <1>3, <2>1
  <2>4. ASSUME NEW i \in 1 .. n - 1
        PROVE  i \in 1 .. n - 1 - 1 + 1 /\ 1 + i - 1 = i
    OBVIOUS
  <2>5. \A i \in 1 .. n - 1 : Front(q)[i] = q[i]
    BY <2>2, <2>4, Zenon
  <2> QED
    BY <1>3, <2>1, <2>2, <2>3, <2>5
<1> QED
  BY <1>1, <1>2, <1>3

(* make_fs leaves a type-correct state.                                    *)
LEMMA InitType == Init => TypeOK
<1> SUFFICES ASSUME Init PROVE TypeOK
  OBVIOUS
<1>1. free_list_head \in Words /\ super_disk \in Words
  BY DEF Init, FirstListBlock, Words
<1>2. disk \in [DataBlocks -> [Slots -> Words]]
  BY ListImageType, ZeroType DEF Init
<1>3. chain \in Seq(DataBlocks)
  <2>1. ASSUME NEW i \in 1 .. ListBlocks
        PROVE  ListBlock(ListBlocks - i) \in DataBlocks
    <3>1. /\ ListBlocks \in Nat
          /\ ListBlocks - i \in Nat
          /\ ListBlocks - i < ListBlocks
      BY ListBlocksType
    <3>2. ListBlock(ListBlocks - i) \in Nat /\ ListBlock(ListBlocks - i) >= FirstListBlock
      BY <3>1 DEF ListBlock, FirstListBlock
    <3>3. ListBlock(ListBlocks - i) <= ListBlock(ListBlocks - 1)
      <4>1. CASE i = 1
        BY <3>2, <4>1
      <4>2. CASE i # 1
        <5>1. ListBlocks - 1 \in Nat /\ ListBlocks - i < ListBlocks - 1
          BY <3>1, <4>2
        <5> QED
          BY <3>1, <5>1, ListBlockGap
      <4> QED
        BY <4>1, <4>2
    <3>4. ListBlock(ListBlocks - 1) \in Nat
      BY <3>1 DEF ListBlock, FirstListBlock
    <3> QED
      BY <3>2, <3>3, <3>4, ListBlocksBounds DEF DataBlocks, FirstListBlock
  <2> QED
    BY <2>1, ListBlocksType DEF Init
<1> QED
  BY <1>1, <1>2, <1>3 DEF Init, TypeOK, Mishaps

(* Every step keeps the state type correct.                                *)
LEMMA StepType == TypeOK /\ [Next]_vars => TypeOK'
<1> SUFFICES ASSUME TypeOK, [Next]_vars PROVE TypeOK'
  OBVIOUS
<1> USE ZeroType, WordsFacts DEF TypeOK, HeadRead, Mishaps
<1>front. SubSeq(chain, 1, Len(chain) - 1) \in Seq(DataBlocks)
  BY FrontFacts DEF Front
<1>zeroed. ASSUME NEW io \in IO, NEW b \in DataBlocks
           PROVE  Zeroed(b, io) \in [DataBlocks -> [Slots -> Words]]
  BY DEF Zeroed
<1>1. ASSUME NEW io \in IO, CreateFromEntry(io)
      PROVE  TypeOK'
  <2>1. PICK s \in EntrySlots :
           /\ held' = held \cup {disk[free_list_head][s]}
           /\ disk' = [disk EXCEPT ![free_list_head] = [@ EXCEPT ![s] = 0]]
    BY <1>1 DEF CreateFromEntry
  <2>2. s \in Slots
    BY DEF Slots, EntrySlots
  <2>3. disk[free_list_head][s] \in Words
    BY <1>1, <2>2 DEF CreateFromEntry
  <2> QED
    BY <1>1, <2>1, <2>2, <2>3 DEF CreateFromEntry
<1>2. ASSUME NEW io \in IO, CreateFromHead(io)
      PROVE  TypeOK'
  <2>1. 0 \in Slots
    BY DEF Slots
  <2>2. free_list_head' \in Words /\ super_disk' \in Words
    BY <1>2, <2>1 DEF CreateFromHead
  <2>3. disk' \in [DataBlocks -> [Slots -> Words]]
    <3> DEFINE image == [disk[free_list_head] EXCEPT ![0] = 0]
    <3>1. free_list_head \in DataBlocks /\ disk[free_list_head] \in [Slots -> Words]
      BY <1>2 DEF CreateFromHead
    <3>2. image \in [Slots -> Words]
      BY <3>1
    <3>3. disk' = disk \/ disk' = [disk EXCEPT ![free_list_head] = image]
      BY <1>2 DEF CreateFromHead
    <3> HIDE DEF image
    <3> QED
      BY <3>1, <3>2, <3>3
  <2> QED
    BY <1>2, <2>2, <2>3, <1>front DEF CreateFromHead
<1>3. ASSUME NEW io \in IO, NEW b \in held \cap DataBlocks, FreeIntoEntry(b, io)
      PROVE  TypeOK'
  <2> DEFINE z == Zeroed(b, io)
  <2>1. PICK s \in EntrySlots :
           disk' = [z EXCEPT ![free_list_head] = [@ EXCEPT ![s] = b]]
    BY <1>3 DEF FreeIntoEntry
  <2>2. z \in [DataBlocks -> [Slots -> Words]] /\ b \in Words
    BY <1>zeroed
  <2> DEFINE image == [z[free_list_head] EXCEPT ![s] = b]
  <2> HIDE DEF z
  <2>3. free_list_head \in DataBlocks => image \in [Slots -> Words]
    BY <2>2
  <2>4. disk' = [z EXCEPT ![free_list_head] = image]
    BY <2>1
  <2> HIDE DEF image
  <2>5. disk' \in [DataBlocks -> [Slots -> Words]]
    BY <2>2, <2>3, <2>4
  <2> QED
    BY <1>3, <2>5 DEF FreeIntoEntry
<1>4. ASSUME NEW io \in IO, NEW b \in held \cap DataBlocks, FreeAsHead(b, io)
      PROVE  TypeOK'
  <2> DEFINE z == Zeroed(b, io)
             image == [Zero EXCEPT ![0] = free_list_head]
  <2>1. disk' \in [DataBlocks -> [Slots -> Words]]
    <3>1. z \in [DataBlocks -> [Slots -> Words]] /\ image \in [Slots -> Words]
      BY <1>zeroed
    <3>2. disk' = [z EXCEPT ![b] = image] \/ disk' = z
      BY <1>4 DEF FreeAsHead
    <3> HIDE DEF z, image
    <3> QED
      BY <3>1, <3>2
  <2> HIDE DEF z, image
  <2>2. chain' \in Seq(DataBlocks)
    <3>1. Append(chain, b) \in Seq(DataBlocks) /\ <<>> \in Seq(DataBlocks)
      BY AppendProperties
    <3> QED
      BY <1>4, <3>1 DEF FreeAsHead
  <2> QED
    BY <1>4, <2>1, <2>2 DEF FreeAsHead
<1>5. ASSUME NEW io \in IO, NEW b \in held \cap DataBlocks, FreeIntoExhausted(b, io)
      PROVE  TypeOK'
  <2> DEFINE z == Zeroed(b, io)
  <2>1. \/ \E s \in EntrySlots : disk' = [z EXCEPT ![b] = [@ EXCEPT ![s] = b]]
        \/ disk' = [z EXCEPT ![b] = [Zero EXCEPT ![0] = b]]
        \/ disk' = z
    BY <1>5 DEF FreeIntoExhausted
  <2>2. z \in [DataBlocks -> [Slots -> Words]] /\ b \in Words
    BY <1>zeroed
  <2> HIDE DEF z
  <2>3. disk' \in [DataBlocks -> [Slots -> Words]]
    BY <2>1, <2>2
  <2> QED
    BY <1>5, <2>3 DEF FreeIntoExhausted
<1>6. ASSUME NEW io \in IO, NEW b \in held \cap DataBlocks, FreeFails(b, io)
      PROVE  TypeOK'
  BY <1>6, <1>zeroed DEF FreeFails
<1>7. ASSUME NEW b \in held \cap DataBlocks, NEW w \in ClientWords, WriteDblock(b, w)
      PROVE  TypeOK'
  BY <1>7 DEF WriteDblock
<1>8. CASE UNCHANGED vars
  BY <1>8 DEF vars
<1> QED
  BY <1>1, <1>2, <1>3, <1>4, <1>5, <1>6, <1>7, <1>8 DEF Next, Create, Free, Write

(* The state stays type correct whatever callers and the device do.        *)
THEOREM TypeCorrect == Spec => []TypeOK
<1>1. QED
  BY InitType, StepType, PTL DEF Spec

-----------------------------------------------------------------------------
(* The list and the blocks the callers hold                                *)

ListShape == HeadIsLast /\ LinksFollowChain /\ EntriesAreDataBlocks /\ EntriesUnique
HeldApart == held \subseteq DataBlocks /\ held \cap FreeBlocks = {}
ListInv == Sound => ListShape /\ HeldApart

(* The list blocks are data blocks.                                        *)
LEMMA NodesInRange ==
    ASSUME TypeOK
    PROVE  ListNodes \subseteq DataBlocks /\ Len(chain) \in Nat /\ DOMAIN chain = 1 .. Len(chain)
  BY ElementOfSeq, LenProperties DEF TypeOK, ListNodes

(* The entries are data blocks that are not list blocks.                   *)
LEMMA EntriesInRange ==
    ASSUME EntriesAreDataBlocks
    PROVE  Entries \subseteq DataBlocks \ ListNodes
  BY DEF EntriesAreDataBlocks, Entries

(* A readable head is the last list block.                                 *)
LEMMA HeadInChain ==
    ASSUME TypeOK, HeadIsLast, free_list_head \in DataBlocks
    PROVE  /\ Len(chain) >= 1
           /\ free_list_head = chain[Len(chain)]
           /\ free_list_head \in ListNodes
<1>1. 0 \notin DataBlocks
  BY DEF DataBlocks
<1>2. chain # <<>>
  BY <1>1 DEF HeadIsLast
<1>3. Len(chain) >= 1
  BY <1>2, NodesInRange, EmptySeq DEF TypeOK
<1> QED
  BY <1>2, <1>3, NodesInRange DEF HeadIsLast, ListNodes

(* Writes outside the list blocks do not touch the list.                   *)
LEMMA ListFrame ==
    ASSUME TypeOK, ListShape, HeldApart, 
           UNCHANGED <<free_list_head, chain, held>>,
           \A n \in ListNodes : disk'[n] = disk[n]
    PROVE  ListShape' /\ HeldApart'
<1>1. ListNodes' = ListNodes
  BY DEF ListNodes
<1>2. \A i \in DOMAIN chain : disk'[chain[i]] = disk[chain[i]]
  BY DEF ListNodes
<1>3. Entries' = Entries
  BY <1>1 DEF Entries
<1>4. HeadIsLast'
  BY DEF ListShape, HeadIsLast
<1>5. LinksFollowChain'
  BY <1>2 DEF ListShape, LinksFollowChain
<1>6. EntriesAreDataBlocks'
  BY <1>1 DEF ListShape, EntriesAreDataBlocks
<1>7. EntriesUnique'
  BY <1>1 DEF ListShape, EntriesUnique
<1>8. HeldApart'
  BY <1>1, <1>3 DEF HeldApart, FreeBlocks
<1> QED
  BY <1>4, <1>5, <1>6, <1>7, <1>8 DEF ListShape

(* What CreateFromEntry does to the list, and to the set of free blocks.   *)
LEMMA CreateFromEntryStep ==
    ASSUME TypeOK, ListShape, HeldApart, NEW io \in IO, CreateFromEntry(io)
    PROVE  /\ ListShape' /\ HeldApart'
           /\ \E d \in Entries : /\ FreeBlocks' = FreeBlocks \ {d}
                                 /\ Entries' = Entries \ {d}
                                 /\ held' = held \cup {d}
<1> DEFINE h == free_list_head
<1>1. PICK s \in EntrySlots :
         /\ FirstUsed(disk[h], s)
         /\ held' = held \cup {disk[h][s]}
         /\ disk' = [disk EXCEPT ![h] = [@ EXCEPT ![s] = 0]]
  BY DEF CreateFromEntry
<1> DEFINE d == disk[h][s]
<1>2. h \in DataBlocks /\ h \in ListNodes
  BY HeadInChain DEF CreateFromEntry, HeadRead, ListShape
<1>3. s \in Slots /\ s # 0 /\ 0 \in Slots
  BY DEF EntrySlots, Slots
<1>4. d # 0 /\ d \in DataBlocks \ ListNodes /\ d \in Entries
  BY <1>1, <1>2 DEF FirstUsed, ListShape, EntriesAreDataBlocks, Entries
<1>5. ListNodes' = ListNodes /\ chain' = chain /\ free_list_head' = free_list_head
  BY DEF ListNodes, CreateFromEntry
<1>6. /\ \A n \in ListNodes, t \in Slots : 
             disk'[n][t] = IF n = h /\ t = s THEN 0 ELSE disk[n][t]
      /\ \A i \in DOMAIN chain : disk'[chain[i]][0] = disk[chain[i]][0]
  BY <1>1, <1>2, <1>3, NodesInRange DEF TypeOK, ListNodes
<1>7. EntrySlots \subseteq Slots
  BY DEF EntrySlots, Slots
<1>8. Entries' = Entries \ {d}
  <2>1. ASSUME NEW x \in Entries, x # d PROVE x \in Entries'
    BY <2>1, <1>5, <1>6, <1>7 DEF Entries
  <2>2. ASSUME NEW x \in Entries' PROVE x \in Entries \ {d}
    <3>1. PICK n \in ListNodes, t \in EntrySlots : x = disk'[n][t] /\ x # 0
      BY <1>5 DEF Entries
    <3>2. x = disk[n][t] /\ ~ (n = h /\ t = s)
      BY <3>1, <1>6, <1>7
    <3> QED
      BY <3>1, <3>2, <1>2, <1>4 DEF Entries, ListShape, EntriesUnique
  <2> QED
    BY <2>1, <2>2, <1>4
<1>9. FreeBlocks' = FreeBlocks \ {d}
  BY <1>4, <1>5, <1>8 DEF FreeBlocks
<1>10. HeadIsLast' /\ LinksFollowChain'
  BY <1>5, <1>6 DEF ListShape, HeadIsLast, LinksFollowChain
<1>11. EntriesAreDataBlocks'
  BY <1>5, <1>6, <1>7 DEF ListShape, EntriesAreDataBlocks
<1>12. EntriesUnique'
  BY <1>5, <1>6, <1>7 DEF ListShape, EntriesUnique
<1>13. HeldApart'
  BY <1>1, <1>4, <1>9 DEF HeldApart
<1> QED
  BY <1>1, <1>4, <1>8, <1>9, <1>10, <1>11, <1>12, <1>13 DEF ListShape

(* What CreateFromHead does to the list, and to the set of free blocks.    *)
LEMMA CreateFromHeadStep ==
    ASSUME TypeOK, Sound, ListShape, HeldApart, NEW io \in IO, CreateFromHead(io)
    PROVE  /\ ListShape' /\ HeldApart'
           /\ free_list_head \in ListNodes
           /\ FreeBlocks' = FreeBlocks \ {free_list_head}
           /\ Entries' = Entries
<1> DEFINE h == free_list_head
           m == Len(chain)
<1>1. h \in DataBlocks /\ h \in ListNodes /\ m \in Nat /\ m >= 1 /\ h = chain[m]
  BY HeadInChain, NodesInRange DEF CreateFromHead, HeadRead, ListShape
<1>2. /\ chain' \in Seq(DataBlocks)
      /\ Len(chain') = m - 1
      /\ \A i \in 1 .. m - 1 : chain'[i] = chain[i]
  BY <1>1, FrontFacts DEF CreateFromHead, Front, TypeOK
<1>3. DOMAIN chain = 1 .. m /\ DOMAIN chain' = 1 .. m - 1
  BY <1>2, NodesInRange, LenProperties
<1>4. \A i \in 1 .. m - 1 : chain[i] # h
  BY <1>1, <1>3 DEF ListShape, LinksFollowChain
<1>5. ListNodes' = ListNodes \ {h}
  BY <1>1, <1>2, <1>3, <1>4 DEF ListNodes
<1>6. /\ \A n \in ListNodes' : disk'[n] = disk[n]
      /\ \A s \in EntrySlots : disk[h][s] = 0
  BY <1>5, NodesInRange DEF CreateFromHead, TypeOK
<1>7. Entries' = Entries
  BY <1>5, <1>6 DEF Entries
<1>8. FreeBlocks' = FreeBlocks \ {h}
  <2>1. h \notin Entries
    BY <1>1, EntriesInRange DEF ListShape
  <2> QED
    BY <1>5, <1>7, <2>1 DEF FreeBlocks
<1>9. HeadIsLast'
  <2>1. free_list_head' = IF m = 1 THEN 0 ELSE chain[m - 1]
    BY <1>1, <1>3 DEF CreateFromHead, ListShape, LinksFollowChain
  <2>2. CASE m = 1
    BY <1>2, <2>1, <2>2, EmptySeq DEF HeadIsLast
  <2>3. CASE m # 1
    <3>1. chain' # <<>> /\ m - 1 \in 1 .. m - 1
      BY <1>1, <1>2, <2>3, EmptySeq
    <3> QED
      BY <1>2, <2>1, <2>3, <3>1 DEF HeadIsLast
  <2> QED
    BY <2>2, <2>3
<1>10. LinksFollowChain'
  <2>1. ASSUME NEW i \in 1 .. m - 1
        PROVE  /\ disk'[chain'[i]][0] = IF i = 1 THEN 0 ELSE chain'[i - 1]
               /\ \A j \in 1 .. m - 1 : chain'[i] = chain'[j] => i = j
    <3>1. chain'[i] = chain[i] /\ chain[i] \in ListNodes' /\ i \in 1 .. m
      BY <1>2, <1>3, <2>1 DEF ListNodes
    <3>2. disk[chain[i]][0] = IF i = 1 THEN 0 ELSE chain[i - 1]
      BY <1>3, <3>1 DEF ListShape, LinksFollowChain
    <3>3. i # 1 => chain'[i - 1] = chain[i - 1]
      BY <1>1, <1>2
    <3>4. \A j \in 1 .. m - 1 : chain[i] = chain[j] => i = j
      BY <1>1, <1>3, <3>1 DEF ListShape, LinksFollowChain
    <3> QED
      BY <1>2, <1>6, <3>1, <3>2, <3>3, <3>4
  <2> QED
    BY <1>3, <2>1 DEF LinksFollowChain
<1>11. EntriesAreDataBlocks' /\ EntriesUnique'
  BY <1>5, <1>6 DEF ListShape, EntriesAreDataBlocks, EntriesUnique
<1>12. HeldApart'
  <2>1. held' = held \cup {h} \/ held' = held
    BY DEF CreateFromHead
  <2> QED
    BY <1>1, <1>8, <2>1 DEF HeldApart
<1> QED
  BY <1>1, <1>7, <1>8, <1>9, <1>10, <1>11, <1>12 DEF ListShape

(* What FreeIntoEntry does to the list, and to the set of free blocks.     *)
LEMMA FreeIntoEntryStep ==
    ASSUME TypeOK, ListShape, HeldApart,
           NEW io \in IO, NEW b \in held \cap DataBlocks, FreeIntoEntry(b, io)
    PROVE  /\ ListShape' /\ HeldApart'
           /\ FreeBlocks' = FreeBlocks \cup {b}
           /\ Entries' = Entries \cup {b}
           /\ \A n \in DataBlocks \ (ListNodes \cup {b}) : disk'[n] = disk[n]
           /\ disk'[b] = Zeroed(b, io)[b]
<1> DEFINE h == free_list_head
           z == Zeroed(b, io)
<1>1. PICK s \in EntrySlots :
         /\ FirstUnused(z[h], s)
         /\ disk' = [z EXCEPT ![h] = [@ EXCEPT ![s] = b]]
  BY DEF FreeIntoEntry
<1>2. h \in DataBlocks /\ h \in ListNodes
  BY HeadInChain DEF FreeIntoEntry, HeadRead, ListShape
<1>3. b \notin ListNodes /\ b \notin Entries /\ b # 0
  BY DEF HeldApart, FreeBlocks, DataBlocks
<1>4. /\ z \in [DataBlocks -> [Slots -> Words]]
      /\ \A n \in DataBlocks \ {b} : z[n] = disk[n]
  BY ZeroType DEF Zeroed, TypeOK
<1>5. s \in Slots /\ s # 0 /\ 0 \in Slots /\ EntrySlots \subseteq Slots
  BY DEF EntrySlots, Slots
<1>6. ListNodes' = ListNodes /\ chain' = chain /\ free_list_head' = free_list_head
  BY DEF ListNodes, FreeIntoEntry
<1>7. z[h] = disk[h] /\ disk[h][s] = 0
  BY <1>1, <1>2, <1>3, <1>4 DEF FirstUnused
<1>8. \A n \in ListNodes, t \in Slots :
          disk'[n][t] = IF n = h /\ t = s THEN b ELSE disk[n][t]
  <2>1. ListNodes \subseteq DataBlocks \ {b}
    BY <1>3, NodesInRange
  <2> HIDE DEF z
  <2> QED
    BY <1>1, <1>2, <1>4, <1>5, <1>7, <2>1 DEF TypeOK
<1>9. \A i \in DOMAIN chain : disk'[chain[i]][0] = disk[chain[i]][0]
  BY <1>5, <1>8 DEF ListNodes
<1>10. Entries' = Entries \cup {b}
  <2>1. ASSUME NEW x \in Entries PROVE x \in Entries'
    BY <2>1, <1>5, <1>6, <1>7, <1>8 DEF Entries
  <2>2. b \in Entries'
    BY <1>2, <1>3, <1>5, <1>6, <1>8 DEF Entries
  <2>3. ASSUME NEW x \in Entries' PROVE x \in Entries \cup {b}
    BY <2>3, <1>5, <1>6, <1>8 DEF Entries
  <2> QED
    BY <2>1, <2>2, <2>3
<1>11. FreeBlocks' = FreeBlocks \cup {b}
  BY <1>6, <1>10 DEF FreeBlocks
<1>12. HeadIsLast' /\ LinksFollowChain'
  BY <1>6, <1>9 DEF ListShape, HeadIsLast, LinksFollowChain
<1>13. EntriesAreDataBlocks'
  BY <1>3, <1>5, <1>6, <1>8 DEF ListShape, EntriesAreDataBlocks
<1>14. EntriesUnique'
  <2>1. \A n \in ListNodes, t \in EntrySlots : disk[n][t] # b
    BY <1>3 DEF Entries
  <2> QED
    BY <1>3, <1>5, <1>6, <1>8, <2>1 DEF ListShape, EntriesUnique
<1>15. HeldApart'
  BY <1>11 DEF HeldApart, FreeIntoEntry
<1>16. /\ \A n \in DataBlocks \ (ListNodes \cup {b}) : disk'[n] = disk[n]
       /\ disk'[b] = z[b]
  <2> HIDE DEF z
  <2> QED
    BY <1>1, <1>2, <1>3, <1>4
<1> QED
  BY <1>10, <1>11, <1>12, <1>13, <1>14, <1>15, <1>16 DEF ListShape

(* What FreeAsHead does to the list when its writes succeed.               *)
LEMMA FreeAsHeadStep ==
    ASSUME TypeOK, Sound, Sound', ListShape, HeldApart,
           NEW io \in IO, NEW b \in held \cap DataBlocks, FreeAsHead(b, io)
    PROVE  /\ ListShape' /\ HeldApart'
           /\ FreeBlocks' = FreeBlocks \cup {b}
           /\ Entries' = Entries
           /\ held' = held \ {b} /\ mishaps' = mishaps
           /\ super_disk' = free_list_head'
           /\ \A n \in DataBlocks \ {b} : disk'[n] = disk[n]
<1> DEFINE h == free_list_head
           z == Zeroed(b, io)
           m == Len(chain)
<1>1. /\ io.super /\ io.node
      /\ disk' = [z EXCEPT ![b] = [Zero EXCEPT ![0] = h]]
      /\ held' = held \ {b} /\ mishaps' = mishaps
      /\ chain' = Append(chain, b)
      /\ free_list_head' = b /\ super_disk' = b
  BY DEF FreeAsHead, Sound
<1>2. h \in ListNodes /\ m \in Nat /\ m >= 1 /\ h = chain[m] /\ DOMAIN chain = 1 .. m
  BY HeadInChain, NodesInRange DEF FreeAsHead, HeadRead, ListShape
<1>3. b \notin ListNodes /\ b \notin Entries
  BY DEF HeldApart, FreeBlocks
<1>4. /\ z \in [DataBlocks -> [Slots -> Words]]
      /\ \A n \in DataBlocks \ {b} : z[n] = disk[n]
  BY ZeroType DEF Zeroed, TypeOK
<1>5. /\ \A n \in DataBlocks \ {b} : disk'[n] = disk[n]
      /\ disk'[b][0] = h
      /\ \A s \in EntrySlots : disk'[b][s] = 0
  <2>1. Zero \in [Slots -> Words] /\ 0 \in Slots /\ EntrySlots \subseteq Slots \ {0}
    BY ZeroType DEF Slots, EntrySlots
  <2>2. \A s \in EntrySlots : Zero[s] = 0
    BY <2>1 DEF Zero
  <2> HIDE DEF z
  <2> QED
    BY <1>1, <1>4, <2>1, <2>2
<1>6. /\ chain' \in Seq(DataBlocks) /\ Len(chain') = m + 1
      /\ \A i \in 1 .. m : chain'[i] = chain[i]
      /\ chain'[m + 1] = b
      /\ DOMAIN chain' = 1 .. m + 1
  BY <1>1, AppendProperties, LenProperties DEF TypeOK
<1>7. ListNodes' = ListNodes \cup {b}
  BY <1>2, <1>6 DEF ListNodes
<1>8. \A n \in ListNodes : disk'[n] = disk[n]
  BY <1>3, <1>5, NodesInRange
<1>9. Entries' = Entries
  BY <1>5, <1>7, <1>8 DEF Entries
<1>10. FreeBlocks' = FreeBlocks \cup {b}
  BY <1>7, <1>9 DEF FreeBlocks
<1>11. HeadIsLast'
  BY <1>1, <1>2, <1>6, EmptySeq DEF HeadIsLast
<1>12. LinksFollowChain'
  <2>1. ASSUME NEW i \in 1 .. m + 1
        PROVE  /\ disk'[chain'[i]][0] = IF i = 1 THEN 0 ELSE chain'[i - 1]
               /\ \A j \in 1 .. m + 1 : chain'[i] = chain'[j] => i = j
    <3>1. CASE i = m + 1
      <4>1. \A j \in 1 .. m : chain[j] # b
        BY <1>2, <1>3 DEF ListNodes
      <4> QED
        BY <1>2, <1>5, <1>6, <3>1, <4>1
    <3>2. CASE i # m + 1
      <4>1. i \in 1 .. m /\ chain[i] \in ListNodes /\ chain'[i] = chain[i]
        BY <1>2, <1>6, <3>2 DEF ListNodes
      <4>2. disk'[chain[i]][0] = IF i = 1 THEN 0 ELSE chain[i - 1]
        BY <1>2, <1>8, <4>1 DEF ListShape, LinksFollowChain
      <4>3. i # 1 => chain'[i - 1] = chain[i - 1]
        BY <1>2, <1>6, <4>1
      <4>4. \A j \in 1 .. m : chain[i] = chain[j] => i = j
        BY <1>2, <4>1 DEF ListShape, LinksFollowChain
      <4> QED
        BY <1>2, <1>3, <1>6, <4>1, <4>2, <4>3, <4>4
    <3> QED
      BY <3>1, <3>2
  <2> QED
    BY <1>6, <2>1 DEF LinksFollowChain
<1>13. EntriesAreDataBlocks'
  <2>1. ASSUME NEW n \in ListNodes, NEW s \in EntrySlots, disk[n][s] # 0
        PROVE  disk[n][s] \in DataBlocks \ (ListNodes \cup {b})
    BY <1>3, <2>1 DEF ListShape, EntriesAreDataBlocks, Entries
  <2> QED
    BY <1>5, <1>7, <1>8, <2>1 DEF EntriesAreDataBlocks
<1>14. EntriesUnique'
  BY <1>5, <1>7, <1>8 DEF ListShape, EntriesUnique
<1>15. HeldApart'
  BY <1>1, <1>10 DEF HeldApart
<1> QED
  BY <1>1, <1>5, <1>9, <1>10, <1>11, <1>12, <1>13, <1>14, <1>15 DEF ListShape

-----------------------------------------------------------------------------
(* The list invariant                                                      *)

(* Where a list block of the fresh device lies, and what its entries are.  *)
LEMMA FreshEntry ==
    ASSUME NEW k \in 0 .. ListBlocks - 1, NEW s \in EntrySlots
    PROVE  /\ ListBlock(k) \in DataBlocks
           /\ ListImage(ListBlock(k))[s] = OnDevice(ListBlock(k) + s)
           /\ ListBlock(k) < ListBlock(k) + s
           /\ ListBlock(k) + s < ListBlock(k + 1)
           /\ ListBlock(k) + s \in Nat
<1>1. k \in Nat /\ ListBlocks \in Nat /\ ListBlocks - 1 \in Nat /\ k <= ListBlocks - 1
  BY ListBlocksType
<1>2. ListBlock(k) \in Nat /\ ListBlock(k) >= FirstListBlock
  BY <1>1 DEF ListBlock, FirstListBlock
<1>3. ListBlock(k) <= ListBlock(ListBlocks - 1)
  BY <1>1, <1>2, ListBlockGap
<1>4. ListBlock(ListBlocks - 1) \in Nat
  BY <1>1 DEF ListBlock, FirstListBlock
<1>5. ListBlock(k) \in DataBlocks
  BY <1>2, <1>3, <1>4, ListBlocksBounds DEF DataBlocks, FirstListBlock
<1>6. ListBlock(k + 1) = ListBlock(k) + DBLOCKS_PER_BLOCK
  BY <1>1, ListBlockGap
<1> QED
  BY <1>2, <1>5, <1>6 DEF ListImage, EntrySlots, Slots

(* Two different list blocks of the fresh device share no entry, and a     *)
(* list block is no entry.                                                 *)
LEMMA FreshDisjoint ==
    ASSUME NEW j \in 0 .. ListBlocks - 1, NEW k \in 0 .. ListBlocks - 1,
           NEW s \in EntrySlots, NEW t \in EntrySlots
    PROVE  /\ ListBlock(j) + s # ListBlock(k)
           /\ ListBlock(j) + s = ListBlock(k) + t => j = k /\ s = t
           /\ ListBlock(j) = ListBlock(k) => j = k
<1>0. j \in Nat /\ k \in Nat /\ s \in 1 .. DBLOCKS_PER_BLOCK - 1 /\ t \in 1 .. DBLOCKS_PER_BLOCK - 1
  BY ListBlocksType DEF EntrySlots
<1>1. CASE j < k
  BY <1>0, <1>1, ListBlockGap
<1>2. CASE k < j
  BY <1>0, <1>2, ListBlockGap
<1>3. CASE j = k
  <2>1. ListBlock(j) \in Nat
    BY <1>0 DEF ListBlock, FirstListBlock
  <2> QED
    BY <1>0, <1>3, <2>1
<1> QED
  BY <1>0, <1>1, <1>2, <1>3

(* Every data block of the fresh device lies at or after some list block   *)
(* and before the next.                                                    *)
LEMMA FreshCovered ==
    ASSUME NEW b \in DataBlocks
    PROVE  \E k \in 0 .. ListBlocks - 1, s \in Slots : b = ListBlock(k) + s
<1> DEFINE k == (b - FirstListBlock) \div DBLOCKS_PER_BLOCK
           s == (b - FirstListBlock) % DBLOCKS_PER_BLOCK
<1>1. b - FirstListBlock \in Nat
  BY DEF DataBlocks, FirstListBlock
<1>2. k \in Nat /\ s \in Slots /\ b = ListBlock(k) + s
  BY <1>1 DEF ListBlock, Slots, FirstListBlock, DataBlocks
<1>3. k < ListBlocks
  <2> HIDE DEF k, s
  <2>1. CASE k < ListBlocks
    BY <2>1
  <2>2. CASE ListBlocks <= k
    <3>1. ListBlock(ListBlocks) <= ListBlock(k) /\ ListBlock(ListBlocks) \in Nat /\ ListBlock(k) \in Nat
      BY <1>2, <2>2, ListBlocksType, ListBlockGap DEF ListBlock, FirstListBlock
    <3> QED
      BY <1>2, <3>1, ListBlocksBounds DEF DataBlocks, Slots
  <2> QED
    BY <1>2, <2>1, <2>2, ListBlocksType
<1> HIDE DEF k, s
<1> QED
  BY <1>2, <1>3, ListBlocksType

(* make_fs leaves a well-formed list of all data blocks.                   *)
LEMMA InitList == Init => ListShape /\ HeldApart /\ FreeBlocks = DataBlocks
<1> SUFFICES ASSUME Init PROVE ListShape /\ HeldApart /\ FreeBlocks = DataBlocks
  OBVIOUS
<1> DEFINE L == ListBlocks
<1>1. L \in Nat /\ L >= 1
  BY ListBlocksType
<1>2. /\ chain = [i \in 1 .. L |-> ListBlock(L - i)]
      /\ DOMAIN chain = 1 .. L /\ Len(chain) = L
      /\ chain[L] = FirstListBlock /\ chain # <<>>
  <2>1. chain = [i \in 1 .. L |-> ListBlock(L - i)]
    BY DEF Init
  <2>2. DOMAIN chain = 1 .. L
    BY <2>1
  <2>3. Len(chain) = L
    BY <1>1, <2>2, InitType, NodesInRange, LenProperties DEF TypeOK
  <2>4. chain[L] = FirstListBlock
    BY <1>1, <2>1 DEF ListBlock, FirstListBlock
  <2> QED
    BY <1>1, <2>1, <2>2, <2>3, <2>4, EmptySeq
<1>3. ListNodes = {ListBlock(k) : k \in 0 .. L - 1}
  <2>1. ASSUME NEW i \in 1 .. L PROVE L - i \in 0 .. L - 1
    BY <1>1
  <2>2. ASSUME NEW k \in 0 .. L - 1 PROVE L - k \in 1 .. L /\ L - (L - k) = k
    BY <1>1
  <2>3. \A k \in 0 .. L - 1 : chain[L - k] = ListBlock(k)
    BY <1>2, <2>2
  <2>4. \A i \in 1 .. L : chain[i] = ListBlock(L - i)
    BY <1>2
  <2> HIDE DEF L
  <2> QED
    BY <1>2, <2>1, <2>2, <2>3, <2>4 DEF ListNodes
<1>4. ASSUME NEW k \in 0 .. L - 1
      PROVE  /\ ListBlock(k) \in DataBlocks
             /\ \A s \in Slots : disk[ListBlock(k)][s] = ListImage(ListBlock(k))[s]
             /\ \A s \in EntrySlots : disk[ListBlock(k)][s] = OnDevice(ListBlock(k) + s)
  <2>1. 1 \in EntrySlots /\ EntrySlots \subseteq Slots
    BY DEF EntrySlots, Slots
  <2>2. ListBlock(k) \in DataBlocks
    BY <2>1, FreshEntry
  <2>3. disk[ListBlock(k)] = ListImage(ListBlock(k))
    BY <2>2 DEF Init
  <2> QED
    BY <2>1, <2>2, <2>3, FreshEntry
<1>5. HeadIsLast
  BY <1>2 DEF HeadIsLast, Init
<1>6. LinksFollowChain
  <2>1. ASSUME NEW i \in 1 .. L
        PROVE  disk[chain[i]][0] = IF i = 1 THEN 0 ELSE chain[i - 1]
    <3>1. L - i \in 0 .. L - 1 /\ chain[i] = ListBlock(L - i) /\ 0 \in Slots
      BY <1>1, <1>2 DEF Slots
    <3>2. disk[chain[i]][0] = OnDevice(ListBlock(L - i) + DBLOCKS_PER_BLOCK)
      BY <1>4, <3>1 DEF ListImage
    <3>3. ListBlock(L - i) + DBLOCKS_PER_BLOCK = ListBlock(L - i + 1)
      BY <3>1, ListBlockGap
    <3>4. CASE i = 1
      <4>1. L - i + 1 = L
        BY <1>1, <3>4
      <4> QED
        BY <3>2, <3>3, <3>4, <4>1, ListBlocksBounds DEF OnDevice
    <3>5. CASE i # 1
      <4>1. i - 1 \in 1 .. L /\ L - (i - 1) = L - i + 1 /\ L - i + 1 \in 0 .. L - 1
        BY <1>1, <3>5
      <4>2. chain[i - 1] = ListBlock(L - i + 1)
        BY <1>2, <4>1
      <4>3. ListBlock(L - i + 1) \in DataBlocks
        BY <1>4, <4>1
      <4>4. ~ (ListBlock(L - i + 1) >= BLOCK_COUNT)
        BY <4>3 DEF DataBlocks
      <4> QED
        BY <3>2, <3>3, <3>5, <4>2, <4>4 DEF OnDevice
    <3> QED
      BY <3>4, <3>5
  <2>2. ASSUME NEW i \in 1 .. L, NEW j \in 1 .. L, chain[i] = chain[j]
        PROVE  i = j
    <3>1. L - i \in 0 .. L - 1 /\ L - j \in 0 .. L - 1
      BY <1>1
    <3>2. ListBlock(L - i) = ListBlock(L - j)
      BY <1>2, <2>2
    <3>3. 1 \in EntrySlots
      BY DEF EntrySlots
    <3>4. L - i = L - j
      BY <3>1, <3>2, <3>3, FreshDisjoint
    <3> QED
      BY <1>1, <3>4
  <2> QED
    BY <1>2, <2>1, <2>2 DEF LinksFollowChain
<1>7. EntriesAreDataBlocks
  <2>1. ASSUME NEW k \in 0 .. L - 1, NEW s \in EntrySlots, disk[ListBlock(k)][s] # 0
        PROVE  disk[ListBlock(k)][s] \in DataBlocks \ ListNodes
    <3>1. disk[ListBlock(k)][s] = ListBlock(k) + s /\ ListBlock(k) + s < BLOCK_COUNT
      BY <1>4, <2>1, FreshEntry DEF OnDevice
    <3>2. ListBlock(k) + s \in DataBlocks
      BY <3>1, FreshEntry DEF DataBlocks
    <3>3. \A j \in 0 .. L - 1 : ListBlock(k) + s # ListBlock(j)
      BY FreshDisjoint
    <3> QED
      BY <1>3, <3>1, <3>2, <3>3
  <2> QED
    BY <1>3, <2>1 DEF EntriesAreDataBlocks
<1>8. EntriesUnique
  <2>1. ASSUME NEW j \in 0 .. L - 1, NEW k \in 0 .. L - 1, NEW s \in EntrySlots, NEW t \in EntrySlots,
               disk[ListBlock(j)][s] = disk[ListBlock(k)][t], disk[ListBlock(j)][s] # 0
        PROVE  j = k /\ s = t
    <3>1. ListBlock(j) + s = ListBlock(k) + t
      BY <1>4, <2>1 DEF OnDevice
    <3> QED
      BY <3>1, FreshDisjoint
  <2> QED
    BY <1>3, <2>1 DEF EntriesUnique
<1>9. FreeBlocks = DataBlocks
  <2>1. FreeBlocks \subseteq DataBlocks
    BY <1>7, InitType, NodesInRange, EntriesInRange DEF FreeBlocks
  <2>2. ASSUME NEW b \in DataBlocks PROVE b \in FreeBlocks
    <3>1. PICK k \in 0 .. L - 1, s \in Slots : b = ListBlock(k) + s
      BY FreshCovered
    <3>2. CASE s = 0
      <4>1. b = ListBlock(k)
        BY <1>4, <3>1, <3>2 DEF DataBlocks
      <4> QED
        BY <1>3, <4>1 DEF FreeBlocks
    <3>3. CASE s # 0
      <4>1. s \in EntrySlots /\ b < BLOCK_COUNT /\ b # 0 /\ b \in Nat
        BY <3>3 DEF Slots, EntrySlots, DataBlocks
      <4>2. disk[ListBlock(k)][s] = b
        BY <1>4, <3>1, <4>1 DEF OnDevice
      <4> QED
        BY <1>3, <4>1, <4>2 DEF FreeBlocks, Entries
    <3> QED
      BY <3>2, <3>3
  <2> QED
    BY <2>1, <2>2
<1>10. HeldApart
  BY DEF HeldApart, Init
<1> QED
  BY <1>5, <1>6, <1>7, <1>8, <1>9, <1>10 DEF ListShape

(* A step as the callers see it.                                           *)
PoolStep ==
    \/ \E d \in FreeBlocks : FreeBlocks' = FreeBlocks \ {d} /\ held' = held \cup {d}
    \/ \E b \in held : FreeBlocks' = FreeBlocks \cup {b} /\ held' = held \ {b}
    \/ /\ IOFaults /\ "lost" \in mishaps'
       /\ \E d \in FreeBlocks : FreeBlocks' = FreeBlocks \ {d} /\ held' = held
    \/ FreeBlocks' = FreeBlocks /\ held' = held

(* Up to the first corrupting event, every step keeps the list well formed *)
(* and the held blocks apart from it, and is a step of the pool.           *)
LEMMA ListStep ==
    ASSUME TypeOK, ListInv, [Next]_vars, Sound'
    PROVE  /\ ListShape' /\ HeldApart'
           /\ mishaps \subseteq mishaps' /\ PoolStep
<1>sound. Sound /\ mishaps \subseteq mishaps'
  <2>1. mishaps \subseteq mishaps'
    BY DEF Next, Create, Free, Write, vars, CreateFromEntry, CreateFromHead, FreeIntoEntry,
           FreeAsHead, FreeIntoExhausted, FreeFails, WriteDblock
  <2> QED
    BY <2>1 DEF Sound
<1>list. ListShape /\ HeldApart
  BY <1>sound DEF ListInv
<1>frame. ASSUME UNCHANGED <<free_list_head, chain, held>>,
                 \A n \in ListNodes : disk'[n] = disk[n]
          PROVE  ListShape' /\ HeldApart' /\ PoolStep
  <2>1. FreeBlocks' = FreeBlocks
    BY <1>frame DEF FreeBlocks, Entries, ListNodes
  <2> QED
    BY <1>frame, <1>list, <2>1, ListFrame DEF PoolStep
<1>1. ASSUME NEW io \in IO, CreateFromEntry(io)
      PROVE  ListShape' /\ HeldApart' /\ PoolStep
  BY <1>1, <1>list, CreateFromEntryStep DEF PoolStep, FreeBlocks
<1>2. ASSUME NEW io \in IO, CreateFromHead(io)
      PROVE  ListShape' /\ HeldApart' /\ PoolStep
  <2>1. ~ (io.super /\ io.node) => IOFaults
    BY DEF IO
  <2>2. \/ held' = held \cup {free_list_head}
        \/ held' = held /\ IOFaults /\ "lost" \in mishaps'
    BY <1>2, <2>1 DEF CreateFromHead
  <2> QED
    BY <1>2, <1>list, <1>sound, <2>2, CreateFromHeadStep DEF PoolStep, FreeBlocks
<1>3. ASSUME NEW io \in IO, NEW b \in held \cap DataBlocks, FreeIntoEntry(b, io)
      PROVE  ListShape' /\ HeldApart' /\ PoolStep
  <2>1. held' = held \ {b}
    BY <1>3 DEF FreeIntoEntry
  <2> QED
    BY <1>3, <1>list, <2>1, FreeIntoEntryStep DEF PoolStep
<1>4. ASSUME NEW io \in IO, NEW b \in held \cap DataBlocks, FreeAsHead(b, io)
      PROVE  ListShape' /\ HeldApart' /\ PoolStep
  BY <1>4, <1>list, <1>sound, FreeAsHeadStep DEF PoolStep
<1>5. ASSUME NEW io \in IO, NEW b \in held \cap DataBlocks, FreeIntoExhausted(b, io)
      PROVE  FALSE
  BY <1>5 DEF FreeIntoExhausted, Sound
<1>6. ASSUME NEW io \in IO, NEW b \in held \cap DataBlocks, FreeFails(b, io)
      PROVE  ListShape' /\ HeldApart' /\ PoolStep
  <2>1. b \notin ListNodes
    BY <1>list DEF HeldApart, FreeBlocks
  <2>2. \A n \in ListNodes : disk'[n] = disk[n]
    BY <1>6, <2>1, NodesInRange DEF FreeFails, Zeroed, TypeOK
  <2> QED
    BY <1>6, <2>2, <1>frame DEF FreeFails
<1>7. ASSUME NEW b \in held \cap DataBlocks, NEW w \in ClientWords, WriteDblock(b, w)
      PROVE  ListShape' /\ HeldApart' /\ PoolStep
  <2>1. b \notin ListNodes
    BY <1>list DEF HeldApart, FreeBlocks
  <2>2. \A n \in ListNodes : disk'[n] = disk[n]
    BY <1>7, <2>1, NodesInRange DEF WriteDblock, TypeOK
  <2> QED
    BY <1>7, <2>2, <1>frame DEF WriteDblock
<1>8. CASE UNCHANGED vars
  BY <1>8, <1>frame DEF vars
<1> QED
  BY <1>sound, <1>1, <1>2, <1>3, <1>4, <1>5, <1>6, <1>7, <1>8 DEF Next, Create, Free, Write

(* The inductive invariant: the list is what the allocator takes it for,   *)
(* and, until a create fails half-way, no data block is unaccounted for.   *)
AllAccounted == mishaps \cap {"corrupt", "lost"} = {} => DataBlocks \subseteq held \cup FreeBlocks
PoolInv == TypeOK /\ ListInv /\ AllAccounted

(* The invariant holds after make_fs.                                      *)
LEMMA InitPool == Init => PoolInv
  BY InitType, InitList DEF PoolInv, ListInv, AllAccounted

(* Every step keeps the invariant.                                         *)
LEMMA StepPool == PoolInv /\ [Next]_vars => PoolInv'
<1> SUFFICES ASSUME PoolInv, [Next]_vars PROVE PoolInv'
  OBVIOUS
<1>1. TypeOK'
  BY StepType DEF PoolInv
<1>2. CASE ~ Sound'
  BY <1>1, <1>2 DEF PoolInv, ListInv, AllAccounted, Sound
<1>3. CASE Sound'
  <2>1. /\ ListShape' /\ HeldApart' /\ PoolStep /\ mishaps \subseteq mishaps'
    BY <1>3, ListStep DEF PoolInv
  <2>2. AllAccounted'
    BY <2>1 DEF PoolInv, AllAccounted, PoolStep
  <2> QED
    BY <1>1, <2>1, <2>2 DEF PoolInv, ListInv
<1> QED
  BY <1>2, <1>3

(* The invariant holds in every state the program reaches.                 *)
THEOREM PoolInvariant == Spec => []PoolInv
  BY InitPool, StepPool, PTL DEF Spec

(* The free list is a chain of distinct data blocks that records every     *)
(* free block once.                                                        *)
THEOREM ListAlwaysWellFormed == Spec => []ListWellFormed
<1>1. PoolInv => ListWellFormed
  BY DEF PoolInv, ListInv, ListShape, ListWellFormed
<1> QED
  BY <1>1, PoolInvariant, PTL

(* A block in use is never on the free list.                               *)
THEOREM HeldNeverFree == Spec => []HeldNotFree
<1>1. PoolInv => HeldNotFree
  BY DEF PoolInv, ListInv, HeldApart, HeldNotFree
<1> QED
  BY <1>1, PoolInvariant, PTL

(* No data block is lost, and an empty list means a full device.           *)
THEOREM NothingEverLost == Spec => []NothingLost
<1>1. ASSUME PoolInv PROVE NothingLost
  <2>1. SUFFICES ASSUME mishaps \cap {"corrupt", "lost"} = {}, free_list_head = 0
                 PROVE  held = DataBlocks
    BY <1>1 DEF PoolInv, AllAccounted, NothingLost
  <2>2. ListShape /\ HeldApart /\ DataBlocks \subseteq held \cup FreeBlocks /\ TypeOK
    BY <1>1, <2>1 DEF PoolInv, ListInv, AllAccounted, Sound
  <2>3. chain = <<>>
    <3>1. SUFFICES ASSUME chain # <<>> PROVE FALSE
      OBVIOUS
    <3>2. Len(chain) \in 1 .. Len(chain)
      BY <2>2, <3>1, EmptySeq, NodesInRange DEF TypeOK
    <3>3. chain[Len(chain)] \in DataBlocks
      BY <2>2, <3>2, NodesInRange DEF ListNodes
    <3> QED
      BY <2>1, <2>2, <3>1, <3>3 DEF ListShape, HeadIsLast, DataBlocks
  <2>4. FreeBlocks = {}
    BY <2>3 DEF FreeBlocks, Entries, ListNodes
  <2> QED
    BY <2>2, <2>4 DEF HeldApart
<1> QED
  BY <1>1, PoolInvariant, PTL

(* The superblock on the device follows the one in memory.                 *)
LEMMA StepSuper == SuperblockCurrent /\ [Next]_vars => SuperblockCurrent'
<1> SUFFICES ASSUME SuperblockCurrent, [Next]_vars, mishaps' \cap {"corrupt", "lost"} = {}
             PROVE  super_disk' = free_list_head'
  BY DEF SuperblockCurrent
<1>1. mishaps \subseteq mishaps'
  BY DEF Next, Create, Free, Write, vars, CreateFromEntry, CreateFromHead, FreeIntoEntry,
         FreeAsHead, FreeIntoExhausted, FreeFails, WriteDblock
<1>2. super_disk = free_list_head
  BY <1>1 DEF SuperblockCurrent
<1> QED
  BY <1>2 DEF Next, Create, Free, Write, vars, CreateFromEntry, CreateFromHead, FreeIntoEntry,
              FreeAsHead, FreeIntoExhausted, FreeFails, WriteDblock

(* While no write failed half-way, block 0 names the list in memory.       *)
THEOREM SuperblockAlwaysCurrent == Spec => []SuperblockCurrent
<1>1. Init => SuperblockCurrent
  BY DEF Init, SuperblockCurrent
<1> QED
  BY <1>1, StepSuper, PTL DEF Spec

(* The entries stay blocks of zeros, and what a create hands out is one.   *)
LEMMA StepZero ==
    ASSUME PoolInv, EntriesZero, [Next]_vars, mishaps' \cap {"corrupt", "dirty"} = {}
    PROVE  /\ \A b \in Entries' : disk'[b] = Zero
           /\ \A b \in held' \ held : disk'[b] = Zero
<1>1. Sound' /\ Sound /\ mishaps \cap {"corrupt", "dirty"} = {}
  <2>1. mishaps \subseteq mishaps'
    BY DEF Next, Create, Free, Write, vars, CreateFromEntry, CreateFromHead, FreeIntoEntry,
           FreeAsHead, FreeIntoExhausted, FreeFails, WriteDblock
  <2> QED
    BY <2>1 DEF Sound
<1>2. TypeOK /\ ListShape /\ HeldApart
  BY <1>1 DEF PoolInv, ListInv
<1>3. /\ \A b \in Entries : disk[b] = Zero
      /\ Entries \subseteq DataBlocks \ ListNodes
      /\ Entries \cap held = {} /\ ListNodes \cap held = {}
      /\ ListNodes \subseteq DataBlocks
  BY <1>1, <1>2, EntriesInRange, NodesInRange DEF EntriesZero, ListShape, HeldApart, FreeBlocks
<1>frame. ASSUME UNCHANGED <<chain, held>>, \A n \in DataBlocks \ held : disk'[n] = disk[n]
          PROVE  /\ \A b \in Entries' : disk'[b] = Zero
                 /\ held' \ held = {}
  <2>1. ListNodes' = ListNodes
    BY <1>frame DEF ListNodes
  <2>2. \A n \in ListNodes : disk'[n] = disk[n]
    BY <1>frame, <1>3
  <2>3. Entries' = Entries
    BY <2>1, <2>2 DEF Entries
  <2>4. \A b \in Entries : disk'[b] = disk[b]
    BY <1>frame, <1>3
  <2> QED
    BY <1>frame, <1>3, <2>3, <2>4
<1>4. ASSUME NEW io \in IO, CreateFromEntry(io)
      PROVE  /\ \A b \in Entries' : disk'[b] = Zero
             /\ \A b \in held' \ held : disk'[b] = Zero
  <2>1. PICK d \in Entries : Entries' = Entries \ {d} /\ held' = held \cup {d}
    BY <1>2, <1>4, CreateFromEntryStep
  <2>2. free_list_head \in ListNodes
    BY <1>2, <1>4, HeadInChain DEF CreateFromEntry, HeadRead, ListShape
  <2>3. \A b \in Entries : disk'[b] = disk[b]
    BY <1>2, <1>3, <1>4, <2>2 DEF CreateFromEntry, TypeOK
  <2> QED
    BY <1>3, <2>1, <2>3
<1>5. ASSUME NEW io \in IO, CreateFromHead(io)
      PROVE  /\ \A b \in Entries' : disk'[b] = Zero
             /\ \A b \in held' \ held : disk'[b] = Zero
  <2>1. free_list_head \in ListNodes /\ Entries' = Entries
    BY <1>1, <1>2, <1>5, CreateFromHeadStep
  <2>2. \A b \in Entries : disk'[b] = disk[b]
    BY <1>2, <1>3, <1>5, <2>1 DEF CreateFromHead, TypeOK
  <2>3. ASSUME NEW b \in held' \ held PROVE disk'[b] = Zero
    <3>1. /\ b = free_list_head
          /\ disk' = [disk EXCEPT ![free_list_head] = [@ EXCEPT ![0] = 0]]
          /\ \A s \in EntrySlots : disk[free_list_head][s] = 0
      BY <1>5, <2>3 DEF CreateFromHead
    <3>2. disk[free_list_head] \in [Slots -> Words] /\ free_list_head \in DataBlocks
      BY <1>2, <1>3, <2>1 DEF TypeOK
    <3>3. \A s \in Slots : s = 0 \/ s \in EntrySlots
      BY DEF Slots, EntrySlots
    <3>4. /\ disk'[b] \in [Slots -> Words \cup {0}]
          /\ \A s \in Slots : disk'[b][s] = 0
      BY <1>2, <3>1, <3>2, <3>3 DEF TypeOK
    <3> QED
      BY <3>4 DEF Zero
  <2> QED
    BY <1>3, <2>1, <2>2, <2>3
<1>6. ASSUME NEW io \in IO, NEW b \in held \cap DataBlocks, FreeIntoEntry(b, io)
      PROVE  /\ \A e \in Entries' : disk'[e] = Zero
             /\ \A e \in held' \ held : disk'[e] = Zero
  <2>1. /\ Entries' = Entries \cup {b}
        /\ \A n \in DataBlocks \ (ListNodes \cup {b}) : disk'[n] = disk[n]
        /\ disk'[b] = Zeroed(b, io)[b]
    BY <1>2, <1>6, FreeIntoEntryStep
  <2>2. io.zero \/ disk[b] = Zero
    BY <1>6 DEF FreeIntoEntry
  <2>3. Zeroed(b, io)[b] = Zero
    BY <1>2, <2>2 DEF Zeroed, TypeOK
  <2>4. held' = held \ {b}
    BY <1>6 DEF FreeIntoEntry
  <2> QED
    BY <1>3, <2>1, <2>3, <2>4
<1>7. ASSUME NEW io \in IO, NEW b \in held \cap DataBlocks, FreeAsHead(b, io)
      PROVE  /\ \A e \in Entries' : disk'[e] = Zero
             /\ \A e \in held' \ held : disk'[e] = Zero
  BY <1>1, <1>2, <1>3, <1>7, FreeAsHeadStep
<1>8. ASSUME NEW io \in IO, NEW b \in held \cap DataBlocks, FreeIntoExhausted(b, io)
      PROVE  FALSE
  BY <1>1, <1>8 DEF FreeIntoExhausted, Sound
<1>9. ASSUME NEW io \in IO, NEW b \in held \cap DataBlocks, FreeFails(b, io)
      PROVE  /\ \A e \in Entries' : disk'[e] = Zero
             /\ \A e \in held' \ held : disk'[e] = Zero
  <2>1. \A n \in DataBlocks \ held : disk'[n] = disk[n]
    BY <1>2, <1>9 DEF FreeFails, Zeroed, TypeOK
  <2> QED
    BY <1>9, <2>1, <1>frame DEF FreeFails
<1>10. ASSUME NEW b \in held \cap DataBlocks, NEW w \in ClientWords, WriteDblock(b, w)
       PROVE  /\ \A e \in Entries' : disk'[e] = Zero
              /\ \A e \in held' \ held : disk'[e] = Zero
  <2>1. \A n \in DataBlocks \ held : disk'[n] = disk[n]
    BY <1>2, <1>10 DEF WriteDblock, TypeOK
  <2> QED
    BY <1>10, <2>1, <1>frame DEF WriteDblock
<1>11. CASE UNCHANGED vars
  BY <1>11, <1>frame DEF vars
<1> QED
  BY <1>4, <1>5, <1>6, <1>7, <1>8, <1>9, <1>10, <1>11 DEF Next, Create, Free, Write

(* All entries are blocks of zeros on a fresh device.                      *)
LEMMA InitZero == Init => EntriesZero
<1> SUFFICES ASSUME Init, NEW b \in Entries PROVE disk[b] = Zero
  BY DEF EntriesZero
<1>1. b \in DataBlocks \ ListNodes
  BY InitList, EntriesInRange DEF ListShape
<1>2. ASSUME NEW k \in 0 .. ListBlocks - 1 PROVE ListBlock(k) \in ListNodes
  <2>1. ListBlocks - k \in 1 .. ListBlocks /\ ListBlocks - (ListBlocks - k) = k
    BY ListBlocksType
  <2>2. chain = [i \in 1 .. ListBlocks |-> ListBlock(ListBlocks - i)]
    BY DEF Init
  <2>3. ListBlocks - k \in DOMAIN chain /\ chain[ListBlocks - k] = ListBlock(k)
    BY <2>1, <2>2
  <2> QED
    BY <2>3 DEF ListNodes
<1> QED
  BY <1>1, <1>2 DEF Init

(* Every entry of the list is a block of zeros, unless a zeroing write     *)
(* failed.                                                                 *)
THEOREM EntriesAlwaysZero == Spec => []EntriesZero
<1>1. PoolInv /\ EntriesZero /\ [Next]_vars => EntriesZero'
  BY StepZero DEF EntriesZero
<1> QED
  BY <1>1, InitZero, PoolInvariant, PTL DEF Spec

(* create_new_dblock hands out blocks of zeros.                            *)
THEOREM AlwaysHandsOutZeros == Spec => HandsOutZeros
<1>1. PoolInv /\ EntriesZero /\ [Next]_vars =>
         [mishaps' \cap {"corrupt", "dirty"} = {} => \A b \in held' \ held : disk'[b] = Zero]_vars
  BY StepZero
<1> QED
  BY <1>1, PoolInvariant, EntriesAlwaysZero, PTL DEF Spec, HandsOutZeros

(* A step as the pool sees it.                                             *)
LEMMA StepIsPoolStep ==
    ASSUME PoolInv, [Next]_vars
    PROVE  [Pool!Next]_(Pool!vars)
<1>1. CASE UNCHANGED vars
  BY <1>1 DEF vars, Pool!vars, FreeBlocks, Entries, ListNodes, Sound
<1>2. CASE Next /\ ~ Sound'
  BY <1>2 DEF Pool!Next, Pool!Corrupt
<1>3. CASE Next /\ Sound'
  <2>1. PoolStep /\ mishaps \subseteq mishaps'
    BY <1>3, ListStep DEF PoolInv
  <2>2. UNCHANGED Sound
    BY <1>3, <2>1 DEF Sound
  <2> QED
    BY <2>1, <2>2 DEF PoolStep, Pool!Next, Pool!Alloc, Pool!Release, Pool!Lose, Pool!vars
<1> QED
  BY <1>1, <1>2, <1>3

(* Up to the first corrupting event, block_layer implements the pool.      *)
THEOREM FreeListImplementsPool == Spec => ImplementsPool
<1>1. Init => Pool!Init
  BY InitList DEF Pool!Init, Init, Sound
<1> QED
  BY <1>1, StepIsPoolStep, PoolInvariant, PTL DEF Spec, ImplementsPool, Pool!Spec
=============================================================================
