-------------------------- MODULE FileBlocksProofs --------------------------
(***************************************************************************)
(* Theorems about FileBlocks, for every number of direct blocks, of block  *)
(* numbers in a block and of bytes in a block, and every set of blocks,    *)
(* files and directories.                                                  *)
(***************************************************************************)
EXTENDS FileBlocks, DataLemmas

-----------------------------------------------------------------------------
(* Types                                                                   *)

Owners == Files \cup {Nobody}

Devices ==
    [file : Files, owner : [Blocks -> Owners], words : [Blocks -> [Slots -> Words]],
     misfreed : SUBSET Blocks, overrun : BOOLEAN]

Inodes ==
    [direct : [0 .. D - 1 -> Words], single : Words, double : Words, triple : Words,
     num_blocks : Nat, file_size : Nat]

Opens == [dev : Devices, inode : Inodes, ok : BOOLEAN]

\* The shape of inodes and blocks.
LEMMA ShapeFacts ==
    /\ D \in Nat /\ D >= 1 /\ P \in Nat /\ P >= 1 /\ P * P \in Nat
    /\ 0 \notin Blocks /\ \A b \in Blocks : b \in Nat
    /\ 0 \in Slots /\ \A i \in Slots : i \in Nat /\ i < P
    /\ Nobody \notin Files
  BY ShapeAssumption DEF D, P, Slots, Files

-----------------------------------------------------------------------------
(* Giving blocks back                                                      *)

\* free_dblock of a block the file has.
LEMMA FreeDblockTyped ==
    ASSUME NEW dev \in Devices, NEW b \in Words
    PROVE  /\ FreeDblock(dev, b) \in Devices /\ FreeDblock(dev, b).file = dev.file
           /\ FreeDblock(dev, b).overrun = dev.overrun
  BY ShapeFacts DEF FreeDblock, Devices, Words, Owners, ZeroBlock

\* FreeAll as a series of free_dblock calls, one device after each.
LEMMA FreeAllSteps ==
    ASSUME NEW dev \in Devices, NEW n \in Nat, NEW bs \in [1 .. n -> Words]
    PROVE  \E f : /\ f \in [0 .. n -> Devices] /\ f[0] = dev /\ FreeAll(dev, bs) = f[n]
                  /\ \A i \in 1 .. n : f[i] = FreeDblock(f[i - 1], bs[i])
<1>1. bs \in Seq(Words) /\ Len(bs) = n
  BY FcnIsSeq
<1> DEFINE Is(f) == f = [k \in 0 .. Len(bs) |-> IF k = 0 THEN dev ELSE FreeDblock(f[k - 1], bs[k])]
           G == [y \in Devices \X (1 .. n) |-> FreeDblock(y[1], bs[y[2]])]
           done == CHOOSE f : Is(f)
<1>2. FreeAll(dev, bs) = done[Len(bs)]
  BY DEF FreeAll, Each
<1>3. G \in [Devices \X (1 .. n) -> Devices]
  BY FreeDblockTyped
<1>4. PICK f : StepsOf(f, Devices, n, G, dev)
  <2> HIDE DEF G
  <2> QED
    BY <1>3, Stepwise
<1>5. f \in [0 .. n -> Devices] /\ f[0] = dev
  BY <1>4 DEF StepsOf
<1>6. \A i \in 1 .. n : f[i] = FreeDblock(f[i - 1], bs[i])
  <2> SUFFICES ASSUME NEW i \in 1 .. n
               PROVE  f[i] = FreeDblock(f[i - 1], bs[i])
    OBVIOUS
  <2>1. f[i] = G[<<f[i - 1], i>>]
    BY <1>4 DEF StepsOf
  <2>2. i - 1 \in 0 .. n
    OBVIOUS
  <2>3. <<f[i - 1], i>> \in Devices \X (1 .. n)
    BY <1>5, <2>2
  <2> QED
    BY <2>1, <2>3
<1>7. Is(f)
  <2>1. \A k \in 0 .. n : k = 0 \/ k \in 1 .. n
    OBVIOUS
  <2>2. \A k \in 0 .. n : f[k] = IF k = 0 THEN dev ELSE FreeDblock(f[k - 1], bs[k])
    BY <1>5, <1>6, <2>1
  <2> QED
    BY <1>1, <1>5, <2>2
<1>8. Is(done)
  <2> HIDE DEF Is
  <2> QED
    BY <1>7
<1>9. /\ done = [k \in 0 .. n |-> done[k]] /\ done[0] = dev
      /\ \A i \in 1 .. n : done[i] = FreeDblock(done[i - 1], bs[i])
  <2> HIDE DEF done
  <2>1. \A k \in 1 .. n : k \in 0 .. n /\ k # 0
    OBVIOUS
  <2> QED
    BY <1>1, <1>8, <2>1
<1>10. \A i \in 0 .. n : f[i] = done[i]
  <2> HIDE DEF done, Is, G
  <2> DEFINE E == {i \in 0 .. n : f[i] = done[i]}
  <2>1. 0 \in E
    BY <1>5, <1>9
  <2>2. ASSUME NEW i \in 1 .. n, i - 1 \in E
        PROVE  i \in E
    <3>1. f[i] = FreeDblock(f[i - 1], bs[i]) /\ f[i - 1] = done[i - 1]
      BY <1>6, <2>2
    <3>2. done[i] = FreeDblock(done[i - 1], bs[i])
      BY <1>9
    <3>3. f[i] = done[i]
      BY <3>1, <3>2
    <3> QED
      BY <3>3
  <2>3. \A i \in 0 .. n : i \in E
    <3> HIDE DEF E
    <3> QED
      BY <2>1, <2>2, RangeInduction
  <2> QED
    BY <2>3
<1> QED
  <2> HIDE DEF done
  <2>1. FreeAll(dev, bs) = f[n]
    BY <1>1, <1>2, <1>10
  <2> QED
    BY <1>5, <1>6, <2>1

\* The entries of an index before its first 0: n of them, and then comes a 0
\* or the end.
LEMMA UsedFacts ==
    ASSUME NEW N \in Nat \ {0}, NEW index \in [0 .. N - 1 -> Words]
    PROVE  \E n \in 0 .. N : /\ Used(index) \in [1 .. n -> Blocks]
                             /\ \A i \in 1 .. n : Used(index)[i] = index[i - 1]
                             /\ \A i \in 0 .. n - 1 : index[i] # 0
                             /\ n = N \/ index[n] = 0
<1> DEFINE zeros == {i \in DOMAIN index : index[i] = 0}
           n == IF zeros = {} THEN Max(DOMAIN index) + 1 ELSE Min(zeros)
<1>1. DOMAIN index = 0 .. N - 1
  OBVIOUS
<1>2. n \in 0 .. N /\ (\A i \in 0 .. n - 1 : index[i] # 0) /\ (n = N \/ index[n] = 0)
  <2>1. CASE zeros = {}
    <3>1. N - 1 \in DOMAIN index /\ \A y \in DOMAIN index : N - 1 >= y
      OBVIOUS
    <3>2. Max(DOMAIN index) = N - 1
      BY <3>1 DEF Max
    <3> QED
      BY <2>1, <3>2
  <2>2. CASE zeros # {}
    <3>1. zeros \in SUBSET Nat
      OBVIOUS
    <3>2. Min(zeros) \in zeros /\ \A y \in zeros : Min(zeros) <= y
      <4> HIDE DEF zeros
      <4> QED
        BY <2>2, <3>1, LeastExists
    <3>3. n \in zeros /\ \A y \in zeros : n <= y
      <4> HIDE DEF zeros
      <4> QED
        BY <2>2, <3>2
    <3> HIDE DEF n
    <3> QED
      BY <3>3
  <2> QED
    BY <2>1, <2>2
<1>3. Used(index) = [i \in 1 .. n |-> index[i - 1]]
  BY DEF Used
<1>4. ASSUME NEW i \in 1 .. n
      PROVE  index[i - 1] \in Blocks
  <2> HIDE DEF n
  <2>1. i - 1 \in 0 .. n - 1 /\ i - 1 \in 0 .. N - 1
    BY <1>2
  <2> QED
    BY <1>2, <2>1 DEF Words
<1> QED
  <2> HIDE DEF n
  <2>1. Used(index) \in [1 .. n -> Blocks] /\ \A i \in 1 .. n : Used(index)[i] = index[i - 1]
    BY <1>3, <1>4
  <2> QED
    BY <1>2, <2>1

\* What the loops over an index give back.
Entries(index) == {index[i] : i \in {i \in DOMAIN index : \A j \in 0 .. i : index[j] # 0}}

\* They are the entries that Used lists.
LEMMA UsedEntries ==
    ASSUME NEW N \in Nat \ {0}, NEW index \in [0 .. N - 1 -> Words]
    PROVE  /\ Entries(index) = {Used(index)[i] : i \in DOMAIN Used(index)}
           /\ Entries(index) \subseteq Blocks
<1>1. PICK n \in 0 .. N : /\ Used(index) \in [1 .. n -> Blocks]
                          /\ \A i \in 1 .. n : Used(index)[i] = index[i - 1]
                          /\ \A i \in 0 .. n - 1 : index[i] # 0
                          /\ n = N \/ index[n] = 0
  BY UsedFacts
<1>2. \A i \in 0 .. N - 1 : (\A j \in 0 .. i : index[j] # 0) <=> i < n
  <2> SUFFICES ASSUME NEW i \in 0 .. N - 1
               PROVE  (\A j \in 0 .. i : index[j] # 0) <=> i < n
    OBVIOUS
  <2>1. CASE i < n
    <3>1. \A j \in 0 .. i : j \in 0 .. n - 1
      BY <2>1
    <3> QED
      BY <1>1, <2>1, <3>1
  <2>2. CASE i >= n
    <3>1. n \in 0 .. i /\ n # N
      BY <2>2
    <3>2. index[n] = 0
      BY <1>1, <3>1
    <3> QED
      BY <2>2, <3>1, <3>2
  <2> QED
    BY <2>1, <2>2
<1>3. Entries(index) = {index[i] : i \in 0 .. n - 1}
  <2>1. {i \in DOMAIN index : \A j \in 0 .. i : index[j] # 0} = 0 .. n - 1
    BY <1>2
  <2> QED
    BY <2>1 DEF Entries
<1>4. \A i \in 0 .. n - 1 : i + 1 \in 1 .. n /\ index[i] = Used(index)[i + 1]
  BY <1>1
<1>5. \A i \in 1 .. n : i - 1 \in 0 .. n - 1 /\ Used(index)[i] = index[i - 1]
  BY <1>1
<1>6. DOMAIN Used(index) = 1 .. n
  BY <1>1
<1>7. {index[i] : i \in 0 .. n - 1} = {Used(index)[i] : i \in 1 .. n}
  BY <1>4, <1>5
<1> QED
  BY <1>1, <1>3, <1>6, <1>7

(* What giving blocks back may do to a device: blocks become free and are  *)
(* zeroed, and all others stay as they are.  Unless a block was given back *)
(* that was not the file's own, those that are free now were the file's.   *)
GivesBack(dev, new) ==
    /\ new \in Devices /\ new.file = dev.file /\ new.overrun = dev.overrun
    /\ dev.misfreed \subseteq new.misfreed
    /\ \A b \in Blocks :
          \/ new.owner[b] = dev.owner[b] /\ new.words[b] = dev.words[b]
          \/ /\ new.owner[b] = Nobody /\ new.words[b] = ZeroBlock
             /\ new.misfreed = {} => dev.owner[b] = dev.file

\* Nothing done is nothing given back by mistake.
LEMMA GivesBackNothing ==
    ASSUME NEW dev \in Devices
    PROVE  GivesBack(dev, dev)
  BY DEF GivesBack

\* Giving back, and then more.
LEMMA GivesBackTwice ==
    ASSUME NEW dev \in Devices, NEW mid, NEW new, GivesBack(dev, mid), GivesBack(mid, new)
    PROVE  GivesBack(dev, new)
<1>1. /\ new \in Devices /\ new.file = dev.file /\ new.overrun = dev.overrun
      /\ dev.misfreed \subseteq new.misfreed
  BY DEF GivesBack
<1>2. ASSUME NEW b \in Blocks
      PROVE  \/ new.owner[b] = dev.owner[b] /\ new.words[b] = dev.words[b]
             \/ /\ new.owner[b] = Nobody /\ new.words[b] = ZeroBlock
                /\ new.misfreed = {} => dev.owner[b] = dev.file
  <2>1. /\ \/ mid.owner[b] = dev.owner[b] /\ mid.words[b] = dev.words[b]
           \/ /\ mid.owner[b] = Nobody /\ mid.words[b] = ZeroBlock
              /\ mid.misfreed = {} => dev.owner[b] = dev.file
        /\ \/ new.owner[b] = mid.owner[b] /\ new.words[b] = mid.words[b]
           \/ /\ new.owner[b] = Nobody /\ new.words[b] = ZeroBlock
              /\ new.misfreed = {} => mid.owner[b] = mid.file
        /\ mid.misfreed \subseteq new.misfreed /\ mid.file = dev.file
    BY DEF GivesBack
  <2>2. dev.file # Nobody
    BY ShapeFacts DEF Devices
  <2>3. new.misfreed = {} => mid.misfreed = {}
    BY <2>1
  <2> QED
    BY <2>1, <2>2, <2>3
<1> QED
  BY <1>1, <1>2 DEF GivesBack

\* One call of free_dblock.
LEMMA FreeDblockGives ==
    ASSUME NEW dev \in Devices, NEW b \in Words
    PROVE  GivesBack(dev, FreeDblock(dev, b))
<1> DEFINE new == FreeDblock(dev, b)
<1> SUFFICES GivesBack(dev, new)
  OBVIOUS
<1>1. new \in Devices /\ new.file = dev.file /\ new.overrun = dev.overrun
  BY FreeDblockTyped
<1>2. CASE b = 0
  BY <1>2, GivesBackNothing DEF FreeDblock
<1>3. CASE b # 0
  <2>1. b \in Blocks
    BY <1>3 DEF Words
  <2>2. /\ new.owner = [dev.owner EXCEPT ![b] = Nobody]
        /\ new.words = [dev.words EXCEPT ![b] = ZeroBlock]
        /\ new.misfreed = dev.misfreed \cup (IF dev.owner[b] = dev.file THEN {} ELSE {b})
    BY <1>3 DEF FreeDblock, Devices
  <2>3. dev.owner \in [Blocks -> Owners] /\ dev.words \in [Blocks -> [Slots -> Words]]
    BY DEF Devices
  <2>4. ASSUME NEW c \in Blocks
        PROVE  \/ new.owner[c] = dev.owner[c] /\ new.words[c] = dev.words[c]
               \/ /\ new.owner[c] = Nobody /\ new.words[c] = ZeroBlock
                  /\ new.misfreed = {} => dev.owner[c] = dev.file
    <3> HIDE DEF new
    <3>1. CASE c = b
      BY <2>1, <2>2, <2>3, <3>1
    <3>2. CASE c # b
      BY <2>1, <2>2, <2>3, <3>2
    <3> QED
      BY <3>1, <3>2
  <2> HIDE DEF new
  <2>5. dev.misfreed \subseteq new.misfreed
    BY <2>2
  <2> QED
    BY <1>1, <2>4, <2>5 DEF GivesBack
<1> QED
  BY <1>2, <1>3

\* A loop of calls of free_dblock.
LEMMA FreeAllGives ==
    ASSUME NEW dev \in Devices, NEW n \in Nat, NEW bs \in [1 .. n -> Words]
    PROVE  GivesBack(dev, FreeAll(dev, bs))
<1>1. PICK f : /\ f \in [0 .. n -> Devices] /\ f[0] = dev /\ FreeAll(dev, bs) = f[n]
               /\ \A i \in 1 .. n : f[i] = FreeDblock(f[i - 1], bs[i])
  BY FreeAllSteps
<1> DEFINE E == {i \in 0 .. n : GivesBack(dev, f[i])}
<1>2. 0 \in E
  BY <1>1, GivesBackNothing
<1>3. ASSUME NEW i \in 1 .. n, i - 1 \in E
      PROVE  i \in E
  <2>1. f[i - 1] \in Devices /\ bs[i] \in Words /\ GivesBack(dev, f[i - 1])
    BY <1>1, <1>3
  <2>2. GivesBack(f[i - 1], f[i])
    BY <1>1, <2>1, FreeDblockGives
  <2>3. GivesBack(dev, f[i])
    BY <2>1, <2>2, GivesBackTwice
  <2> QED
    BY <2>3
<1>4. \A i \in 0 .. n : i \in E
  <2> HIDE DEF E
  <2> QED
    BY <1>2, <1>3, RangeInduction
<1> QED
  BY <1>1, <1>4

\* remove_single_indirect, whatever the block stores.
LEMMA RemoveSingleGives ==
    ASSUME NEW dev \in Devices, NEW b \in Words
    PROVE  GivesBack(dev, RemoveSingle(dev, b))
<1>1. CASE b = 0
  BY <1>1, GivesBackNothing DEF RemoveSingle
<1>2. CASE b # 0
  <2>1. P \in Nat \ {0} /\ dev.words[b] \in [0 .. P - 1 -> Words]
    BY <1>2, ShapeFacts DEF Words, Devices, Slots
  <2>2. PICK n \in 0 .. P : Used(dev.words[b]) \in [1 .. n -> Blocks]
    BY <2>1, UsedFacts
  <2>3. n \in Nat /\ Used(dev.words[b]) \in [1 .. n -> Words]
    BY <2>1, <2>2 DEF Words
  <2> DEFINE mid == FreeAll(dev, Used(dev.words[b]))
  <2>4. GivesBack(dev, mid)
    BY <2>3, FreeAllGives
  <2>5. mid \in Devices
    BY <2>4 DEF GivesBack
  <2>6. GivesBack(mid, FreeDblock(mid, b))
    BY <2>5, FreeDblockGives
  <2>7. RemoveSingle(dev, b) = FreeDblock(mid, b)
    BY <1>2 DEF RemoveSingle
  <2> QED
    BY <2>4, <2>6, <2>7, GivesBackTwice
<1> QED
  BY <1>1, <1>2

\* The loop over single indirect blocks, one device after each.
LEMMA SinglesSteps ==
    ASSUME NEW dev \in Devices, NEW n \in Nat, NEW bs \in [1 .. n -> Words]
    PROVE  \E f : /\ f \in [0 .. n -> Devices] /\ f[0] = dev /\ Each(RemoveSingle, dev, bs) = f[n]
                  /\ \A i \in 1 .. n : f[i] = RemoveSingle(f[i - 1], bs[i])
<1>1. bs \in Seq(Words) /\ Len(bs) = n
  BY FcnIsSeq
<1> DEFINE Is(f) == f = [k \in 0 .. Len(bs) |-> IF k = 0 THEN dev ELSE RemoveSingle(f[k - 1], bs[k])]
           G == [y \in Devices \X (1 .. n) |-> RemoveSingle(y[1], bs[y[2]])]
           done == CHOOSE f : Is(f)
<1>2. Each(RemoveSingle, dev, bs) = done[Len(bs)]
  BY DEF Each
<1>3. G \in [Devices \X (1 .. n) -> Devices]
  <2>1. \A d \in Devices, b \in Words : RemoveSingle(d, b) \in Devices
    BY RemoveSingleGives DEF GivesBack
  <2> QED
    BY <2>1
<1>4. PICK f : StepsOf(f, Devices, n, G, dev)
  <2> HIDE DEF G
  <2> QED
    BY <1>3, Stepwise
<1>5. f \in [0 .. n -> Devices] /\ f[0] = dev
  BY <1>4 DEF StepsOf
<1>6. \A i \in 1 .. n : f[i] = RemoveSingle(f[i - 1], bs[i])
  <2> SUFFICES ASSUME NEW i \in 1 .. n
               PROVE  f[i] = RemoveSingle(f[i - 1], bs[i])
    OBVIOUS
  <2>1. f[i] = G[<<f[i - 1], i>>]
    BY <1>4 DEF StepsOf
  <2>2. i - 1 \in 0 .. n
    OBVIOUS
  <2>3. <<f[i - 1], i>> \in Devices \X (1 .. n)
    BY <1>5, <2>2
  <2> QED
    BY <2>1, <2>3
<1>7. Is(f)
  <2>1. \A k \in 0 .. n : k = 0 \/ k \in 1 .. n
    OBVIOUS
  <2>2. \A k \in 0 .. n : f[k] = IF k = 0 THEN dev ELSE RemoveSingle(f[k - 1], bs[k])
    BY <1>5, <1>6, <2>1
  <2> QED
    BY <1>1, <1>5, <2>2
<1>8. Is(done)
  <2> HIDE DEF Is
  <2> QED
    BY <1>7
<1>9. /\ done = [k \in 0 .. n |-> done[k]] /\ done[0] = dev
      /\ \A i \in 1 .. n : done[i] = RemoveSingle(done[i - 1], bs[i])
  <2> HIDE DEF done
  <2>1. \A k \in 1 .. n : k \in 0 .. n /\ k # 0
    OBVIOUS
  <2> QED
    BY <1>1, <1>8, <2>1
<1>10. \A i \in 0 .. n : f[i] = done[i]
  <2> HIDE DEF done, Is, G
  <2> DEFINE E == {i \in 0 .. n : f[i] = done[i]}
  <2>1. 0 \in E
    BY <1>5, <1>9
  <2>2. ASSUME NEW i \in 1 .. n, i - 1 \in E
        PROVE  i \in E
    <3>1. f[i] = RemoveSingle(f[i - 1], bs[i]) /\ f[i - 1] = done[i - 1]
      BY <1>6, <2>2
    <3>2. done[i] = RemoveSingle(done[i - 1], bs[i])
      BY <1>9
    <3>3. f[i] = done[i]
      BY <3>1, <3>2
    <3> QED
      BY <3>3
  <2>3. \A i \in 0 .. n : i \in E
    <3> HIDE DEF E
    <3> QED
      BY <2>1, <2>2, RangeInduction
  <2> QED
    BY <2>3
<1> QED
  <2> HIDE DEF done
  <2>1. Each(RemoveSingle, dev, bs) = f[n]
    BY <1>1, <1>2, <1>10
  <2> QED
    BY <1>5, <1>6, <2>1

\* remove_double_indirect, whatever the blocks store.
LEMMA RemoveDoubleGives ==
    ASSUME NEW dev \in Devices, NEW b \in Words
    PROVE  GivesBack(dev, RemoveDouble(dev, b))
<1>1. CASE b = 0
  BY <1>1, GivesBackNothing DEF RemoveDouble
<1>2. CASE b # 0
  <2>1. P \in Nat \ {0} /\ dev.words[b] \in [0 .. P - 1 -> Words]
    BY <1>2, ShapeFacts DEF Words, Devices, Slots
  <2> DEFINE bs == Used(dev.words[b])
  <2>2. PICK n \in 0 .. P : bs \in [1 .. n -> Blocks]
    BY <2>1, UsedFacts
  <2>3. n \in Nat /\ bs \in [1 .. n -> Words]
    BY <2>1, <2>2 DEF Words
  <2>4. PICK f : /\ f \in [0 .. n -> Devices] /\ f[0] = dev /\ Each(RemoveSingle, dev, bs) = f[n]
                 /\ \A i \in 1 .. n : f[i] = RemoveSingle(f[i - 1], bs[i])
    <3> HIDE DEF bs
    <3> QED
      BY <2>3, SinglesSteps
  <2> DEFINE E == {i \in 0 .. n : GivesBack(dev, f[i])}
  <2>5. 0 \in E
    BY <2>3, <2>4, GivesBackNothing
  <2>6. ASSUME NEW i \in 1 .. n, i - 1 \in E
        PROVE  i \in E
    <3> HIDE DEF bs
    <3>1. f[i - 1] \in Devices /\ bs[i] \in Words /\ GivesBack(dev, f[i - 1])
      BY <2>3, <2>4, <2>6
    <3>2. GivesBack(f[i - 1], f[i])
      BY <2>4, <3>1, RemoveSingleGives
    <3>3. GivesBack(dev, f[i])
      BY <3>1, <3>2, GivesBackTwice
    <3> QED
      BY <3>3
  <2>7. \A i \in 0 .. n : i \in E
    <3> HIDE DEF E
    <3> QED
      BY <2>3, <2>5, <2>6, RangeInduction
  <2>8. GivesBack(dev, f[n])
    BY <2>3, <2>7
  <2>9. f[n] \in Devices
    BY <2>8 DEF GivesBack
  <2>10. GivesBack(f[n], FreeDblock(f[n], b))
    BY <2>9, FreeDblockGives
  <2>11. RemoveDouble(dev, b) = FreeDblock(f[n], b)
    BY <1>2, <2>4 DEF RemoveDouble
  <2> QED
    BY <2>8, <2>10, <2>11, GivesBackTwice
<1> QED
  BY <1>1, <1>2

(* A device from which the file's own blocks in R were given back, each of *)
(* them once.                                                              *)
Freed(dev, R) ==
    [file |-> dev.file, overrun |-> dev.overrun, misfreed |-> dev.misfreed,
     owner |-> [b \in Blocks |-> IF b \in R THEN Nobody ELSE dev.owner[b]],
     words |-> [b \in Blocks |-> IF b \in R THEN ZeroBlock ELSE dev.words[b]]]

\* What a device is like when the blocks R have been freed.
LEMMA FreedTyped ==
    ASSUME NEW dev \in Devices, NEW R
    PROVE  /\ Freed(dev, R) \in Devices
           /\ \A b \in Blocks :
                 /\ b \in R => Freed(dev, R).owner[b] = Nobody /\ Freed(dev, R).words[b] = ZeroBlock
                 /\ b \notin R => /\ Freed(dev, R).owner[b] = dev.owner[b]
                                  /\ Freed(dev, R).words[b] = dev.words[b]
<1>1. ZeroBlock \in [Slots -> Words] /\ Nobody \in Owners
  BY DEF ZeroBlock, Words, Owners
<1>2. dev.owner \in [Blocks -> Owners] /\ dev.words \in [Blocks -> [Slots -> Words]]
  BY DEF Devices
<1>3. Freed(dev, R).owner \in [Blocks -> Owners] /\ Freed(dev, R).words \in [Blocks -> [Slots -> Words]]
  <2> HIDE DEF Owners, Words, ZeroBlock
  <2> QED
    BY <1>1, <1>2 DEF Freed
<1>4. Freed(dev, R) \in Devices
  BY <1>3 DEF Devices, Freed
<1> QED
  BY <1>4 DEF Freed

\* No block freed.
LEMMA FreedNothing ==
    ASSUME NEW dev \in Devices
    PROVE  Freed(dev, {}) = dev
<1>1. dev.owner = [b \in Blocks |-> dev.owner[b]] /\ dev.words = [b \in Blocks |-> dev.words[b]]
  BY DEF Devices
<1>2. dev = [file |-> dev.file, overrun |-> dev.overrun, misfreed |-> dev.misfreed,
             owner |-> dev.owner, words |-> dev.words]
  BY DEF Devices
<1>3. Freed(dev, {}) = [file |-> dev.file, overrun |-> dev.overrun, misfreed |-> dev.misfreed,
                        owner |-> [b \in Blocks |-> dev.owner[b]],
                        words |-> [b \in Blocks |-> dev.words[b]]]
  BY DEF Freed
<1> QED
  BY <1>1, <1>2, <1>3

\* First the blocks R are freed, then the blocks S.
LEMMA FreedTwice ==
    ASSUME NEW dev \in Devices, NEW R, NEW S
    PROVE  Freed(Freed(dev, R), S) = Freed(dev, R \cup S)
<1> DEFINE mid == Freed(dev, R)
<1>1. /\ \A b \in Blocks : mid.owner[b] = IF b \in R THEN Nobody ELSE dev.owner[b]
      /\ \A b \in Blocks : mid.words[b] = IF b \in R THEN ZeroBlock ELSE dev.words[b]
      /\ mid.file = dev.file /\ mid.overrun = dev.overrun /\ mid.misfreed = dev.misfreed
  BY DEF Freed
<1>2. [b \in Blocks |-> IF b \in S THEN Nobody ELSE mid.owner[b]]
        = [b \in Blocks |-> IF b \in R \cup S THEN Nobody ELSE dev.owner[b]]
  <2> HIDE DEF mid
  <2> QED
    BY <1>1
<1>3. [b \in Blocks |-> IF b \in S THEN ZeroBlock ELSE mid.words[b]]
        = [b \in Blocks |-> IF b \in R \cup S THEN ZeroBlock ELSE dev.words[b]]
  <2> HIDE DEF mid
  <2> QED
    BY <1>1
<1>4. Freed(mid, S) = Freed(dev, R \cup S)
  <2> HIDE DEF mid
  <2> QED
    BY <1>1, <1>2, <1>3 DEF Freed
<1> QED
  BY <1>4

\* free_dblock of a block the file has.
LEMMA FreeDblockFrees ==
    ASSUME NEW dev \in Devices, NEW b \in Blocks, dev.owner[b] = dev.file
    PROVE  FreeDblock(dev, b) = Freed(dev, {b})
<1>1. b # 0
  BY ShapeFacts
<1>2. dev = [file |-> dev.file, overrun |-> dev.overrun, misfreed |-> dev.misfreed,
             owner |-> dev.owner, words |-> dev.words]
  BY DEF Devices
<1>3. FreeDblock(dev, b) = [file |-> dev.file, overrun |-> dev.overrun, misfreed |-> dev.misfreed,
                            owner |-> [dev.owner EXCEPT ![b] = Nobody],
                            words |-> [dev.words EXCEPT ![b] = ZeroBlock]]
  BY <1>1, <1>2 DEF FreeDblock
<1>4. dev.owner \in [Blocks -> Owners] /\ dev.words \in [Blocks -> [Slots -> Words]]
  BY DEF Devices
<1>5. [dev.owner EXCEPT ![b] = Nobody] = [c \in Blocks |-> IF c \in {b} THEN Nobody ELSE dev.owner[c]]
  BY <1>4
<1>6. [dev.words EXCEPT ![b] = ZeroBlock]
        = [c \in Blocks |-> IF c \in {b} THEN ZeroBlock ELSE dev.words[c]]
  BY <1>4
<1> QED
  BY <1>3, <1>5, <1>6 DEF Freed

\* Blocks that are the file's, none of which is listed twice.
OwnList(dev, n, bs) ==
    /\ bs \in [1 .. n -> Blocks]
    /\ \A i \in 1 .. n : dev.owner[bs[i]] = dev.file
    /\ \A i, j \in 1 .. n : bs[i] = bs[j] => i = j

\* A loop of free_dblock over blocks the file has.
LEMMA FreeAllFrees ==
    ASSUME NEW dev \in Devices, NEW n \in Nat, NEW bs, OwnList(dev, n, bs)
    PROVE  FreeAll(dev, bs) = Freed(dev, {bs[i] : i \in 1 .. n})
<1>1. /\ bs \in [1 .. n -> Blocks]
      /\ \A i \in 1 .. n : dev.owner[bs[i]] = dev.file
      /\ \A i, j \in 1 .. n : bs[i] = bs[j] => i = j
  BY DEF OwnList
<1>2. PICK f : /\ f \in [0 .. n -> Devices] /\ f[0] = dev /\ FreeAll(dev, bs) = f[n]
               /\ \A i \in 1 .. n : f[i] = FreeDblock(f[i - 1], bs[i])
  <2>1. bs \in [1 .. n -> Words]
    BY <1>1 DEF Words
  <2> QED
    BY <2>1, FreeAllSteps
<1> DEFINE R(i) == {bs[j] : j \in 1 .. i}
           E == {i \in 0 .. n : f[i] = Freed(dev, R(i))}
<1>3. 0 \in E
  <2>1. R(0) = {}
    OBVIOUS
  <2>2. f[0] = Freed(dev, R(0))
    <3> HIDE DEF R
    <3> QED
      BY <1>2, <2>1, FreedNothing
  <2> QED
    BY <2>2
<1>4. ASSUME NEW i \in 1 .. n, i - 1 \in E
      PROVE  i \in E
  <2>1. f[i - 1] = Freed(dev, R(i - 1)) /\ f[i - 1] \in Devices
    BY <1>2, <1>4
  <2>2. bs[i] \in Blocks /\ bs[i] \notin R(i - 1)
    BY <1>1
  <2>3. f[i - 1].owner[bs[i]] = dev.owner[bs[i]] /\ f[i - 1].file = dev.file
    <3> HIDE DEF R
    <3> QED
      BY <2>1, <2>2, FreedTyped DEF Freed
  <2>4. f[i] = Freed(f[i - 1], {bs[i]})
    BY <1>1, <1>2, <2>1, <2>2, <2>3, FreeDblockFrees
  <2>5. R(i) = R(i - 1) \cup {bs[i]}
    <3>1. \A j \in 1 .. i : j = i \/ j \in 1 .. i - 1
      OBVIOUS
    <3>2. \A j \in 1 .. i - 1 : j \in 1 .. i
      OBVIOUS
    <3> QED
      BY <3>1, <3>2
  <2>6. f[i] = Freed(dev, R(i))
    <3> HIDE DEF R
    <3> QED
      BY <2>1, <2>4, <2>5, FreedTwice
  <2> QED
    BY <2>6
<1>5. \A i \in 0 .. n : i \in E
  <2> HIDE DEF E
  <2> QED
    BY <1>3, <1>4, RangeInduction
<1>6. f[n] = Freed(dev, R(n))
  BY <1>5
<1> QED
  BY <1>2, <1>6

\* The entries of an index that are not 0 are the file's, and differ.
OwnEntries(dev, index) ==
    /\ \A i \in DOMAIN index : index[i] # 0 => dev.owner[index[i]] = dev.file
    /\ \A i, j \in DOMAIN index : index[i] = index[j] /\ index[i] # 0 => i = j

\* The entries of an index before the first 0 are freed.
LEMMA EntriesFreed ==
    ASSUME NEW dev \in Devices, NEW N \in Nat \ {0}, NEW index \in [0 .. N - 1 -> Words],
           OwnEntries(dev, index)
    PROVE  FreeAll(dev, Used(index)) = Freed(dev, Entries(index))
<1>1. PICK n \in 0 .. N : /\ Used(index) \in [1 .. n -> Blocks]
                          /\ \A i \in 1 .. n : Used(index)[i] = index[i - 1]
                          /\ \A i \in 0 .. n - 1 : index[i] # 0
                          /\ n = N \/ index[n] = 0
  BY UsedFacts
<1>2. \A i \in 1 .. n : /\ i - 1 \in 0 .. n - 1 /\ i - 1 \in DOMAIN index
                        /\ Used(index)[i] = index[i - 1] /\ index[i - 1] # 0
  BY <1>1
<1>3. OwnList(dev, n, Used(index))
  <2>1. \A i \in 1 .. n : dev.owner[Used(index)[i]] = dev.file
    BY <1>2 DEF OwnEntries
  <2>2. \A i, j \in 1 .. n : Used(index)[i] = Used(index)[j] => i - 1 = j - 1
    BY <1>2 DEF OwnEntries
  <2>3. \A i, j \in 1 .. n : i - 1 = j - 1 => i = j
    OBVIOUS
  <2> QED
    BY <1>1, <2>1, <2>2, <2>3 DEF OwnList
<1>4. n \in Nat
  OBVIOUS
<1>5. FreeAll(dev, Used(index)) = Freed(dev, {Used(index)[i] : i \in 1 .. n})
  BY <1>3, <1>4, FreeAllFrees
<1>6. DOMAIN Used(index) = 1 .. n
  BY <1>1
<1> QED
  BY <1>5, <1>6, UsedEntries

\* An index block with the blocks it lists, all of them the file's.
OwnSingle(dev, b) ==
    /\ b \in Blocks /\ dev.owner[b] = dev.file
    /\ OwnEntries(dev, dev.words[b])
    /\ \A i \in Slots : dev.words[b][i] # b

SingleBlocks(wds, b) == {b} \cup Entries(wds[b])

\* remove_single_indirect of a block of the file.
LEMMA RemoveSingleFrees ==
    ASSUME NEW dev \in Devices, NEW b, OwnSingle(dev, b)
    PROVE  RemoveSingle(dev, b) = Freed(dev, SingleBlocks(dev.words, b))
<1>1. b \in Blocks /\ b # 0 /\ dev.owner[b] = dev.file
  BY ShapeFacts DEF OwnSingle
<1>2. P \in Nat \ {0} /\ dev.words[b] \in [0 .. P - 1 -> Words] /\ Slots = 0 .. P - 1
  BY <1>1, ShapeFacts DEF Devices, Slots
<1> DEFINE mid == Freed(dev, Entries(dev.words[b]))
<1>3. FreeAll(dev, Used(dev.words[b])) = mid
  BY <1>2, EntriesFreed DEF OwnSingle
<1>4. b \notin Entries(dev.words[b])
  BY <1>2 DEF OwnSingle, Entries
<1>5. mid \in Devices /\ mid.owner[b] = mid.file
  BY <1>1, <1>4, FreedTyped DEF Freed
<1>6. FreeDblock(mid, b) = Freed(mid, {b})
  BY <1>1, <1>5, FreeDblockFrees
<1>7. Freed(mid, {b}) = Freed(dev, Entries(dev.words[b]) \cup {b})
  BY FreedTwice
<1>8. RemoveSingle(dev, b) = FreeDblock(mid, b)
  BY <1>1, <1>3 DEF RemoveSingle
<1>9. Entries(dev.words[b]) \cup {b} = SingleBlocks(dev.words, b)
  BY DEF SingleBlocks
<1> QED
  BY <1>6, <1>7, <1>8, <1>9

\* A double indirect block with all that is below it.
OwnDouble(dev, b) ==
    LET index == dev.words[b]
    IN  /\ b \in Blocks /\ dev.owner[b] = dev.file
        /\ OwnEntries(dev, index)
        /\ \A i \in Slots : index[i] # b
        /\ \A i \in Slots : index[i] # 0 =>
              /\ OwnSingle(dev, index[i])
              /\ \A k \in Slots : LET c == dev.words[index[i]][k]
                                  IN  c # 0 => /\ c # b
                                               /\ \A j \in Slots : c # index[j]
                                               /\ \A j, l \in Slots :
                                                     index[j] # 0 /\ c = dev.words[index[j]][l] => i = j

DoubleBlocks(wds, b) == {b} \cup UNION {SingleBlocks(wds, c) : c \in Entries(wds[b])}

\* remove_double_indirect of a block of the file.
LEMMA RemoveDoubleFrees ==
    ASSUME NEW dev \in Devices, NEW b, OwnDouble(dev, b)
    PROVE  RemoveDouble(dev, b) = Freed(dev, DoubleBlocks(dev.words, b))
<1> DEFINE index == dev.words[b]
           bs == Used(index)
<1>1. b \in Blocks /\ b # 0 /\ dev.owner[b] = dev.file
  BY ShapeFacts DEF OwnDouble
<1>2. P \in Nat \ {0} /\ index \in [0 .. P - 1 -> Words] /\ Slots = 0 .. P - 1 /\ DOMAIN index = Slots
  BY <1>1, ShapeFacts DEF Devices, Slots
<1>3. PICK n \in 0 .. P : /\ bs \in [1 .. n -> Blocks]
                          /\ \A i \in 1 .. n : bs[i] = index[i - 1]
                          /\ \A i \in 0 .. n - 1 : index[i] # 0
                          /\ n = P \/ index[n] = 0
  <2> HIDE DEF index
  <2> QED
    BY <1>2, UsedFacts
<1>4. \A i \in 1 .. n : i - 1 \in Slots /\ bs[i] = index[i - 1] /\ index[i - 1] # 0
  <2> HIDE DEF bs, index
  <2>1. \A i \in 1 .. n : i - 1 \in 0 .. n - 1
    OBVIOUS
  <2> QED
    BY <1>2, <1>3, <2>1
<1>5. n \in Nat /\ bs \in [1 .. n -> Words]
  <2> HIDE DEF bs
  <2> QED
    BY <1>2, <1>3 DEF Words
<1>6. PICK f : /\ f \in [0 .. n -> Devices] /\ f[0] = dev /\ Each(RemoveSingle, dev, bs) = f[n]
               /\ \A i \in 1 .. n : f[i] = RemoveSingle(f[i - 1], bs[i])
  <2> HIDE DEF bs
  <2> QED
    BY <1>5, SinglesSteps
<1> DEFINE R(i) == UNION {SingleBlocks(dev.words, bs[j]) : j \in 1 .. i}
<1> DEFINE Whole(c) == {c} \cup ({dev.words[c][k] : k \in Slots} \ {0})
<1>7. \A i, j \in 1 .. n : Whole(bs[i]) \cap SingleBlocks(dev.words, bs[j]) # {} => i = j
  <2> SUFFICES ASSUME NEW i \in 1 .. n, NEW j \in 1 .. n,
                      NEW c \in Whole(bs[i]), c \in SingleBlocks(dev.words, bs[j])
               PROVE  i = j
    BY DEF SingleBlocks
  <2> DEFINE x == i - 1
             y == j - 1
  <2>1. /\ x \in Slots /\ y \in Slots /\ bs[i] = index[x] /\ bs[j] = index[y]
        /\ index[x] # 0 /\ index[y] # 0
    BY <1>4
  <2>2. x = y
    <3>1. OwnSingle(dev, index[x]) /\ OwnSingle(dev, index[y])
      BY <2>1 DEF OwnDouble
    <3>2. /\ dev.words[index[x]] \in [Slots -> Words] /\ dev.words[index[y]] \in [Slots -> Words]
      BY <3>1 DEF OwnSingle, Devices
    <3>3. c = index[x] \/ \E k \in Slots : c = dev.words[index[x]][k] /\ c # 0
      BY <2>1
    <3>4. c = index[y] \/ \E l \in Slots : c = dev.words[index[y]][l] /\ c # 0
      BY <1>2, <2>1, <3>2 DEF SingleBlocks, Entries
    <3>5. index[x] = index[y] => x = y
      BY <1>2, <2>1 DEF OwnDouble, OwnEntries
    <3>6. \A k \in Slots : /\ dev.words[index[x]][k] # 0 => dev.words[index[x]][k] # index[y]
                           /\ dev.words[index[y]][k] # 0 => dev.words[index[y]][k] # index[x]
      BY <2>1 DEF OwnDouble
    <3>7. \A k, l \in Slots : dev.words[index[x]][k] # 0
                                /\ dev.words[index[x]][k] = dev.words[index[y]][l] => x = y
      BY <2>1 DEF OwnDouble
    <3> QED
      BY <3>3, <3>4, <3>5, <3>6, <3>7
  <2>3. x = y => i = j
    OBVIOUS
  <2> QED
    BY <2>2, <2>3
<1>8. \A i \in 1 .. n : OwnSingle(dev, bs[i])
  BY <1>4 DEF OwnDouble
<1> DEFINE E == {i \in 0 .. n : f[i] = Freed(dev, R(i))}
<1>9. 0 \in E
  <2>1. R(0) = {}
    OBVIOUS
  <2>2. f[0] = Freed(dev, R(0))
    <3> HIDE DEF R
    <3> QED
      BY <1>6, <2>1, FreedNothing
  <2> QED
    BY <1>5, <2>2
<1>10. ASSUME NEW i \in 1 .. n, i - 1 \in E
       PROVE  i \in E
  <2> DEFINE d == f[i - 1]
             c == bs[i]
  <2>1. d = Freed(dev, R(i - 1)) /\ d \in Devices
    BY <1>6, <1>10
  <2>2. Whole(c) \cap R(i - 1) = {}
    <3>1. \A j \in 1 .. i - 1 : j \in 1 .. n /\ j # i
      OBVIOUS
    <3> HIDE DEF bs, Whole
    <3> QED
      BY <1>7, <3>1
  <2>3. c \in Blocks /\ c \notin R(i - 1)
    <3> HIDE DEF R, bs
    <3> QED
      BY <1>3, <2>2
  <2>4. d.words[c] = dev.words[c] /\ d.owner[c] = dev.owner[c] /\ d.file = dev.file
    <3> HIDE DEF R, bs, d
    <3> QED
      BY <2>1, <2>3, FreedTyped DEF Freed
  <2>5. OwnSingle(d, c)
    <3>1. OwnSingle(dev, c)
      BY <1>8
    <3>2. /\ dev.owner[c] = dev.file /\ OwnEntries(dev, dev.words[c])
          /\ \A k \in Slots : dev.words[c][k] # c
      BY <3>1 DEF OwnSingle
    <3>3. dev.words[c] \in [Slots -> Words]
      <4> HIDE DEF bs
      <4> QED
        BY <2>3 DEF Devices
    <3>4. ASSUME NEW k \in Slots, dev.words[c][k] # 0
          PROVE  d.owner[dev.words[c][k]] = dev.owner[dev.words[c][k]]
      <4>1. dev.words[c][k] \in Blocks /\ dev.words[c][k] \notin R(i - 1)
        <5> HIDE DEF R, c
        <5> QED
          BY <2>2, <3>3, <3>4 DEF Words
      <4> HIDE DEF R, c, d
      <4> QED
        BY <2>1, <4>1, FreedTyped
    <3>5. OwnEntries(d, dev.words[c])
      <4> HIDE DEF c, d
      <4> QED
        BY <2>4, <3>2, <3>3, <3>4 DEF OwnEntries
    <3> HIDE DEF c, d
    <3> QED
      BY <2>3, <2>4, <3>2, <3>5 DEF OwnSingle
  <2>6. f[i] = Freed(d, SingleBlocks(dev.words, c))
    <3>1. RemoveSingle(d, c) = Freed(d, SingleBlocks(d.words, c))
      <4> HIDE DEF c, d
      <4> QED
        BY <2>1, <2>5, RemoveSingleFrees
    <3>2. SingleBlocks(d.words, c) = SingleBlocks(dev.words, c)
      <4> HIDE DEF c, d
      <4> QED
        BY <2>4 DEF SingleBlocks
    <3> QED
      BY <1>6, <3>1, <3>2
  <2>7. R(i) = R(i - 1) \cup SingleBlocks(dev.words, c)
    <3>1. \A j \in 1 .. i : j = i \/ j \in 1 .. i - 1
      OBVIOUS
    <3>2. \A j \in 1 .. i - 1 : j \in 1 .. i
      OBVIOUS
    <3>3. i \in 1 .. i
      OBVIOUS
    <3> HIDE DEF bs
    <3> QED
      BY <3>1, <3>2, <3>3
  <2>8. f[i] = Freed(dev, R(i))
    <3> HIDE DEF R, c
    <3> QED
      BY <2>1, <2>6, <2>7, FreedTwice
  <2> QED
    BY <2>8
<1>11. \A i \in 0 .. n : i \in E
  <2> HIDE DEF E
  <2> QED
    BY <1>5, <1>9, <1>10, RangeInduction
<1>12. f[n] = Freed(dev, R(n))
  <2>1. n \in 0 .. n
    BY <1>5
  <2> QED
    BY <1>11, <2>1
<1>13. R(n) = UNION {SingleBlocks(dev.words, c) : c \in Entries(index)}
  <2>1. Entries(index) = {bs[i] : i \in 1 .. n}
    <3>1. DOMAIN bs = 1 .. n
      BY <1>3
    <3> HIDE DEF index
    <3> QED
      BY <1>2, <3>1, UsedEntries
  <2> HIDE DEF index, bs
  <2> QED
    BY <2>1
<1>14. f[n].owner[b] = f[n].file /\ f[n] \in Devices
  <2>1. b \notin R(n)
    <3> SUFFICES ASSUME NEW i \in 1 .. n
                 PROVE  b \notin SingleBlocks(dev.words, bs[i])
      OBVIOUS
    <3> DEFINE x == i - 1
    <3>1. x \in Slots /\ bs[i] = index[x] /\ index[x] # 0
      BY <1>4
    <3>2. OwnSingle(dev, index[x]) /\ index[x] # b /\ \A k \in Slots : dev.words[index[x]][k] # b
      BY <1>1, <3>1 DEF OwnDouble
    <3>3. dev.words[index[x]] \in [Slots -> Words]
      BY <3>2 DEF OwnSingle, Devices
    <3> HIDE DEF x, index
    <3> QED
      BY <3>1, <3>2, <3>3 DEF SingleBlocks, Entries
  <2> HIDE DEF R
  <2> QED
    BY <1>1, <1>12, <2>1, FreedTyped DEF Freed
<1>15. FreeDblock(f[n], b) = Freed(f[n], {b})
  BY <1>1, <1>14, FreeDblockFrees
<1>16. Freed(f[n], {b}) = Freed(dev, R(n) \cup {b})
  <2> HIDE DEF R
  <2> QED
    BY <1>12, FreedTwice
<1>17. RemoveDouble(dev, b) = FreeDblock(f[n], b)
  BY <1>1, <1>6 DEF RemoveDouble
<1>18. R(n) \cup {b} = DoubleBlocks(dev.words, b)
  <2> HIDE DEF R
  <2> QED
    BY <1>13 DEF DoubleBlocks
<1> QED
  BY <1>15, <1>16, <1>17, <1>18

-----------------------------------------------------------------------------
(* The tree of a file                                                      *)

(* The spots of an inode's tree: direct pointers, the single indirect      *)
(* block and its entries, the double indirect block, its entries and       *)
(* theirs.                                                                 *)
DirectSpot(m) == <<"direct", m, 0>>
SingleSpot == <<"single", 0, 0>>
InSingle(i) == <<"in single", i, 0>>
DoubleSpot == <<"double", 0, 0>>
InDouble(i) == <<"in double", i, 0>>
BelowDouble(i, j) == <<"below double", i, j>>

Spots ==
    {DirectSpot(m) : m \in 0 .. D - 1} \cup {SingleSpot} \cup {InSingle(i) : i \in Slots}
       \cup {DoubleSpot} \cup {InDouble(i) : i \in Slots}
       \cup {BelowDouble(y[1], y[2]) : y \in Slots \X Slots}

Entry(wds, b, i) == IF b = 0 THEN 0 ELSE wds[b][i]

\* The block at a spot, 0 when there is none.
At(wds, inode, k) ==
    CASE k[1] = "direct" -> inode.direct[k[2]]
      [] k[1] = "single" -> inode.single
      [] k[1] = "in single" -> Entry(wds, inode.single, k[2])
      [] k[1] = "double" -> inode.double
      [] k[1] = "in double" -> Entry(wds, inode.double, k[2])
      [] k[1] = "below double" -> Entry(wds, Entry(wds, inode.double, k[2]), k[3])

\* The spots that the inode itself holds; the others are slots of a block.
Roots == {k \in Spots : k[1] \in {"direct", "single", "double"}}

Above(k) ==
    CASE k[1] = "in single" -> SingleSpot
      [] k[1] = "in double" -> DoubleSpot
      [] k[1] = "below double" -> InDouble(k[2])

SlotOf(k) == IF k[1] = "below double" THEN k[3] ELSE k[2]

\* What is below a spot.
Below(k) == {q \in Spots \ Roots : Above(q) = k \/ (Above(q) \notin Roots /\ Above(Above(q)) = k)}

Closed(W) == W \subseteq Spots /\ \A k \in W \ Roots : Above(k) \in W

\* The six kinds of spots.
LEMMA SpotCases ==
    ASSUME NEW k \in Spots
    PROVE  \/ \E m \in 0 .. D - 1 : k = DirectSpot(m)
           \/ k = SingleSpot
           \/ \E i \in Slots : k = InSingle(i)
           \/ k = DoubleSpot
           \/ \E i \in Slots : k = InDouble(i)
           \/ \E i, j \in Slots : k = BelowDouble(i, j)
  BY DEF Spots

\* Each kind of spot is a spot, and a root or not.
LEMMA SpotsAre ==
    /\ \A m \in 0 .. D - 1 : DirectSpot(m) \in Roots
    /\ SingleSpot \in Roots /\ DoubleSpot \in Roots
    /\ \A i \in Slots : /\ InSingle(i) \in Spots \ Roots
                        /\ Above(InSingle(i)) = SingleSpot /\ SlotOf(InSingle(i)) = i
    /\ \A i \in Slots : /\ InDouble(i) \in Spots \ Roots
                        /\ Above(InDouble(i)) = DoubleSpot /\ SlotOf(InDouble(i)) = i
    /\ \A i, j \in Slots : /\ BelowDouble(i, j) \in Spots \ Roots
                           /\ Above(BelowDouble(i, j)) = InDouble(i)
                           /\ SlotOf(BelowDouble(i, j)) = j
<1>1. \A m \in 0 .. D - 1 : DirectSpot(m) \in Roots
  BY DEF Roots, Spots, DirectSpot
<1>2. SingleSpot \in Roots /\ DoubleSpot \in Roots
  BY DEF Roots, Spots, SingleSpot, DoubleSpot
<1>3. ASSUME NEW i \in Slots
      PROVE  /\ InSingle(i) \in Spots \ Roots
             /\ Above(InSingle(i)) = SingleSpot /\ SlotOf(InSingle(i)) = i
  <2>1. InSingle(i) \in Spots
    BY DEF Spots
  <2> QED
    BY <2>1 DEF Roots, InSingle, Above, SlotOf
<1>4. ASSUME NEW i \in Slots
      PROVE  /\ InDouble(i) \in Spots \ Roots
             /\ Above(InDouble(i)) = DoubleSpot /\ SlotOf(InDouble(i)) = i
  <2>1. InDouble(i) \in Spots
    BY DEF Spots
  <2> QED
    BY <2>1 DEF Roots, InDouble, Above, SlotOf
<1>5. ASSUME NEW i \in Slots, NEW j \in Slots
      PROVE  /\ BelowDouble(i, j) \in Spots \ Roots
             /\ Above(BelowDouble(i, j)) = InDouble(i)
             /\ SlotOf(BelowDouble(i, j)) = j
  <2>1. BelowDouble(i, j) \in Spots
    <3> DEFINE y == <<i, j>>
    <3>1. y \in Slots \X Slots /\ y[1] = i /\ y[2] = j
      OBVIOUS
    <3>2. BelowDouble(y[1], y[2]) \in {BelowDouble(x[1], x[2]) : x \in Slots \X Slots}
      <4> HIDE DEF y
      <4> QED
        BY <3>1
    <3> QED
      BY <3>1, <3>2 DEF Spots
  <2> QED
    BY <2>1 DEF Roots, BelowDouble, Above, SlotOf
<1> QED
  BY <1>1, <1>2, <1>3, <1>4, <1>5

\* Which spot is above which, and in what slot it hangs.
LEMMA AboveFacts ==
    /\ \A k \in Spots \ Roots : Above(k) \in Spots /\ SlotOf(k) \in Slots
    /\ \A k, q \in Spots \ Roots : Above(k) = Above(q) /\ SlotOf(k) = SlotOf(q) => k = q
    /\ \A k \in Spots \ Roots : Above(k) \notin Roots => Above(Above(k)) \in Roots
    /\ \A k \in Spots \ Roots : Above(k) # k /\ k \notin Below(k)
<1>1. ASSUME NEW k \in Spots \ Roots
      PROVE  \/ \E i \in Slots : k = InSingle(i) /\ Above(k) = SingleSpot /\ SlotOf(k) = i
             \/ \E i \in Slots : k = InDouble(i) /\ Above(k) = DoubleSpot /\ SlotOf(k) = i
             \/ \E i, j \in Slots : k = BelowDouble(i, j) /\ Above(k) = InDouble(i) /\ SlotOf(k) = j
  BY SpotCases, SpotsAre
<1>2. /\ SingleSpot # DoubleSpot
      /\ \A i : SingleSpot # InDouble(i) /\ DoubleSpot # InDouble(i)
      /\ \A i, j : InDouble(i) = InDouble(j) => i = j
      /\ \A i, j, l : InDouble(i) # BelowDouble(j, l)
  BY DEF SingleSpot, DoubleSpot, InDouble, BelowDouble
<1>3. \A k \in Spots \ Roots : Above(k) \in Spots /\ SlotOf(k) \in Slots
  BY <1>1, SpotsAre DEF Roots
<1>4. ASSUME NEW k \in Spots \ Roots, NEW q \in Spots \ Roots,
             Above(k) = Above(q), SlotOf(k) = SlotOf(q)
      PROVE  k = q
  BY <1>1, <1>2, <1>4
<1>5. \A k \in Spots \ Roots : Above(k) \notin Roots => Above(Above(k)) \in Roots
  BY <1>1, SpotsAre
<1>6. ASSUME NEW k \in Spots \ Roots
      PROVE  Above(k) # k /\ k \notin Below(k)
  <2>1. Above(k) # k
    BY <1>1, <1>2, SpotsAre
  <2>2. Above(k) \notin Roots => Above(Above(k)) # k
    BY <1>5
  <2> QED
    BY <2>1, <2>2 DEF Below
<1> QED
  BY <1>3, <1>4, <1>5, <1>6

\* What a spot holds: a root is in the inode, any other in the block above it.
LEMMA AtDirect ==
    ASSUME NEW wds, NEW inode, NEW m \in 0 .. D - 1
    PROVE  At(wds, inode, DirectSpot(m)) = inode.direct[m]
  BY DEF At, DirectSpot

\* The block at the spot of the single indirect block.
LEMMA AtSingle ==
    ASSUME NEW wds, NEW inode
    PROVE  At(wds, inode, SingleSpot) = inode.single
  BY DEF At, SingleSpot

\* The block at the spot of the double indirect block.
LEMMA AtDouble ==
    ASSUME NEW wds, NEW inode
    PROVE  At(wds, inode, DoubleSpot) = inode.double
  BY DEF At, DoubleSpot

\* The block at any other spot is a slot of the block above.
LEMMA AtBelow ==
    ASSUME NEW wds, NEW inode, NEW k \in Spots \ Roots
    PROVE  At(wds, inode, k) = Entry(wds, At(wds, inode, Above(k)), SlotOf(k))
<1>1. ASSUME NEW i \in Slots, k = InSingle(i)
      PROVE  At(wds, inode, k) = Entry(wds, At(wds, inode, Above(k)), SlotOf(k))
  <2>1. At(wds, inode, k) = Entry(wds, inode.single, i)
    BY <1>1 DEF At, InSingle
  <2> QED
    BY <1>1, <2>1, SpotsAre, AtSingle
<1>2. ASSUME NEW i \in Slots, k = InDouble(i)
      PROVE  At(wds, inode, k) = Entry(wds, At(wds, inode, Above(k)), SlotOf(k))
  <2>1. At(wds, inode, k) = Entry(wds, inode.double, i)
    BY <1>2 DEF At, InDouble
  <2> QED
    BY <1>2, <2>1, SpotsAre, AtDouble
<1>3. ASSUME NEW i \in Slots, NEW j \in Slots, k = BelowDouble(i, j)
      PROVE  At(wds, inode, k) = Entry(wds, At(wds, inode, Above(k)), SlotOf(k))
  <2>1. At(wds, inode, k) = Entry(wds, Entry(wds, inode.double, i), j)
    BY <1>3 DEF At, BelowDouble
  <2>2. At(wds, inode, InDouble(i)) = Entry(wds, inode.double, i)
    BY DEF At, InDouble
  <2> QED
    BY <1>3, <2>1, <2>2, SpotsAre
<1> QED
  BY <1>1, <1>2, <1>3, SpotCases, SpotsAre DEF Roots

\* The roots are pointers of the inode.
LEMMA RootCases ==
    ASSUME NEW k \in Roots
    PROVE  k = SingleSpot \/ k = DoubleSpot \/ \E m \in 0 .. D - 1 : k = DirectSpot(m)
  BY SpotCases, SpotsAre DEF Roots

\* What the inode holds does not depend on the blocks.
LEMMA AtRoot ==
    ASSUME NEW wds, NEW wds2, NEW inode, NEW k \in Roots
    PROVE  At(wds, inode, k) = At(wds2, inode, k)
  BY RootCases, AtDirect, AtSingle, AtDouble

WordsType == [Blocks -> [Slots -> Words]]

\* At a spot is a block or nothing.
LEMMA AtTyped ==
    ASSUME NEW wds \in WordsType, NEW inode \in Inodes, NEW k \in Spots
    PROVE  At(wds, inode, k) \in Words
<1>1. \A b \in Words, i \in Slots : Entry(wds, b, i) \in Words
  BY DEF WordsType, Words, Entry
<1>2. \A q \in Roots : At(wds, inode, q) \in Words
  <2> SUFFICES ASSUME NEW q \in Roots
               PROVE  At(wds, inode, q) \in Words
    OBVIOUS
  <2>1. ASSUME NEW m \in 0 .. D - 1, q = DirectSpot(m)
        PROVE  At(wds, inode, q) \in Words
    <3>1. At(wds, inode, q) = inode.direct[m]
      BY <2>1, AtDirect
    <3>2. inode.direct \in [0 .. D - 1 -> Words]
      BY DEF Inodes
    <3> QED
      BY <3>1, <3>2
  <2> QED
    BY <2>1, RootCases, AtSingle, AtDouble DEF Inodes
<1>3. \A q \in Spots \ Roots : Above(q) \in Roots => At(wds, inode, q) \in Words
  BY <1>1, <1>2, AtBelow, AboveFacts
<1>4. \A q \in Spots \ Roots : Above(q) \notin Roots => At(wds, inode, q) \in Words
  BY <1>1, <1>3, AtBelow, AboveFacts
<1> QED
  BY <1>2, <1>3, <1>4

(* A tree in which spot k now holds b: what was below k is gone, and all   *)
(* other spots are as they were.                                           *)
Near(wds, inode, wds2, inode2, V, k, b) ==
    \A q \in V : \/ At(wds2, inode2, q) = At(wds, inode, q)
                 \/ q = k /\ At(wds2, inode2, q) = b
                 \/ q \in Below(k) /\ At(wds2, inode2, q) = 0

\* A slot of the index block c becomes b, a block that is full of zeros.
LEMMA SlotNear ==
    ASSUME NEW wds \in WordsType, NEW inode \in Inodes, NEW V, Closed(V), NEW k \in Spots \ Roots,
           NEW b \in Blocks, NEW c \in Blocks, b # c, wds[b] = ZeroBlock,
           \A q \in V : At(wds, inode, q) = c => q = Above(k)
    PROVE  Near(wds, inode, [wds EXCEPT ![c][SlotOf(k)] = b], inode, V, k, b)
<1> DEFINE wds2 == [wds EXCEPT ![c][SlotOf(k)] = b]
           old(q) == At(wds, inode, q)
           new(q) == At(wds2, inode, q)
<1>1. /\ \A i \in Slots : wds2[c][i] = IF i = SlotOf(k) THEN b ELSE wds[c][i]
      /\ \A a \in Blocks : a # c => wds2[a] = wds[a]
  BY AboveFacts DEF WordsType
<1>2. \A q \in V : q \in Spots /\ old(q) \in Words /\ (q \notin Roots => Above(q) \in V /\ SlotOf(q) \in Slots)
  BY AtTyped, AboveFacts DEF Closed
<1>3. \A q \in V \cap Roots : new(q) = old(q)
  BY AtRoot
<1>4. \A q \in V \ Roots : /\ new(q) = Entry(wds2, new(Above(q)), SlotOf(q))
                           /\ old(q) = Entry(wds, old(Above(q)), SlotOf(q))
  BY <1>2, AtBelow
<1> HIDE DEF wds2, old, new
<1>5. ASSUME NEW q \in V \ Roots, new(Above(q)) = old(Above(q))
      PROVE  new(q) = old(q) \/ (q = k /\ new(q) = b)
  <2> DEFINE a == old(Above(q))
             s == SlotOf(q)
  <2>1. new(q) = Entry(wds2, a, s) /\ old(q) = Entry(wds, a, s) /\ a \in Words /\ s \in Slots
    BY <1>2, <1>4, <1>5
  <2>2. CASE a = 0
    BY <2>1, <2>2 DEF Entry
  <2>3. CASE a # 0 /\ a # c
    <3>1. wds2[a] = wds[a]
      BY <1>1, <2>1, <2>3 DEF Words
    <3> QED
      BY <2>1, <2>3, <3>1 DEF Entry
  <2>4. CASE a # 0 /\ a = c
    <3>1. Above(q) = Above(k)
      BY <1>2, <2>4 DEF old
    <3>2. s = SlotOf(k) => q = k
      BY <1>2, <3>1, AboveFacts
    <3>3. new(q) = IF s = SlotOf(k) THEN b ELSE wds[c][s]
      BY <1>1, <2>1, <2>4 DEF Entry
    <3>4. old(q) = wds[c][s]
      BY <2>1, <2>4 DEF Entry
    <3> QED
      BY <3>2, <3>3, <3>4
  <2> QED
    BY <2>2, <2>3, <2>4
<1>6. ASSUME NEW q \in V \ Roots, Above(q) = k, new(k) = b
      PROVE  q \in Below(k) /\ new(q) = 0
  <2>1. q \in Below(k)
    BY <1>2, <1>6 DEF Below
  <2>2. new(q) = Entry(wds2, b, SlotOf(q)) /\ SlotOf(q) \in Slots
    BY <1>2, <1>4, <1>6
  <2>3. wds2[b] = ZeroBlock /\ b # 0
    BY <1>1, ShapeFacts
  <2>4. ZeroBlock[SlotOf(q)] = 0
    BY <2>2 DEF ZeroBlock
  <2> QED
    BY <2>1, <2>2, <2>3, <2>4 DEF Entry
<1>7. ASSUME NEW q \in V \ Roots
      PROVE  new(q) = old(q) \/ (q = k /\ new(q) = b) \/ (q \in Below(k) /\ new(q) = 0)
  <2>1. Above(q) \in V
    BY <1>2
  <2>2. CASE Above(q) \in Roots
    BY <1>3, <1>5, <2>1, <2>2
  <2>3. CASE Above(q) \notin Roots
    <3>1. Above(q) \in V \ Roots /\ Above(Above(q)) \in V \cap Roots
      BY <1>2, <2>1, <2>3, AboveFacts
    <3>2. new(Above(q)) = old(Above(q)) \/ (Above(q) = k /\ new(Above(q)) = b)
      BY <1>3, <1>5, <3>1
    <3> QED
      BY <1>5, <1>6, <3>2
  <2> QED
    BY <2>2, <2>3
<1>8. \A q \in V : new(q) = old(q) \/ (q = k /\ new(q) = b) \/ (q \in Below(k) /\ new(q) = 0)
  BY <1>3, <1>7
<1> QED
  BY <1>8 DEF Near, wds2, old, new

\* The slot of the index block above it is where a spot is found.
LEMMA SlotAt ==
    ASSUME NEW wds \in WordsType, NEW inode \in Inodes, NEW V, Closed(V), NEW k \in Spots \ Roots,
           NEW b \in Blocks, NEW c \in Blocks,
           NEW wds2, wds2 = [wds EXCEPT ![c][SlotOf(k)] = b],
           Near(wds, inode, wds2, inode, V, k, b),
           Above(k) \in V, At(wds, inode, Above(k)) = c
    PROVE  At(wds2, inode, k) = b
<1>1. Above(k) # k /\ Above(k) \notin Below(k)
  BY AboveFacts DEF Below
<1>2. At(wds2, inode, Above(k)) = c
  BY <1>1 DEF Near
<1>3. At(wds2, inode, k) = Entry(wds2, c, SlotOf(k))
  BY <1>2, AtBelow
<1>4. wds2[c][SlotOf(k)] = b /\ c # 0
  BY AboveFacts, ShapeFacts DEF WordsType
<1> QED
  BY <1>3, <1>4 DEF Entry

\* A pointer of the inode becomes b, a block that is full of zeros.
LEMMA RootNear ==
    ASSUME NEW wds \in WordsType, NEW inode \in Inodes, NEW V, Closed(V), NEW k \in Roots,
           NEW b \in Blocks, wds[b] = ZeroBlock,
           NEW inode2 \in Inodes, At(wds, inode2, k) = b,
           \A q \in Roots \ {k} : At(wds, inode2, q) = At(wds, inode, q)
    PROVE  Near(wds, inode, wds, inode2, V, k, b)
<1> DEFINE old(q) == At(wds, inode, q)
           new(q) == At(wds, inode2, q)
           is(q) == new(q) = old(q) \/ (q = k /\ new(q) = b) \/ (q \in Below(k) /\ new(q) = 0)
<1>1. \A q \in V : q \in Spots /\ (q \notin Roots => Above(q) \in V /\ SlotOf(q) \in Slots)
  BY AboveFacts DEF Closed
<1>2. \A q \in V \ Roots : /\ new(q) = Entry(wds, new(Above(q)), SlotOf(q))
                           /\ old(q) = Entry(wds, old(Above(q)), SlotOf(q))
  BY <1>1, AtBelow
<1>3. \A q \in Roots : (new(q) = old(q) /\ q # k) \/ (q = k /\ new(q) = b)
  OBVIOUS
<1> HIDE DEF old, new
<1>4. \A q \in V \ Roots : Above(q) = k /\ new(Above(q)) = b => q \in Below(k) /\ new(q) = 0
  <2> SUFFICES ASSUME NEW q \in V \ Roots, Above(q) = k, new(k) = b
               PROVE  q \in Below(k) /\ new(q) = 0
    OBVIOUS
  <2>1. b # 0 /\ new(q) = Entry(wds, b, SlotOf(q)) /\ SlotOf(q) \in Slots
    BY <1>1, <1>2, ShapeFacts
  <2>2. wds[b][SlotOf(q)] = 0
    BY <2>1 DEF ZeroBlock
  <2> QED
    BY <1>1, <2>1, <2>2 DEF Below, Entry
<1>5. \A q \in V \ Roots : new(Above(q)) = old(Above(q)) => new(q) = old(q)
  BY <1>2
<1>6. \A q \in V \ Roots : Above(q) \in Roots => is(q)
  BY <1>3, <1>4, <1>5
<1>7. ASSUME NEW q \in V \ Roots, Above(q) \notin Roots
      PROVE  is(q)
  <2>1. Above(q) \in V \ Roots /\ Above(Above(q)) \in Roots /\ Above(q) # k
    BY <1>1, <1>7, AboveFacts
  <2>2. CASE new(Above(q)) = old(Above(q))
    BY <1>5, <2>2
  <2>3. CASE Above(q) \in Below(k) /\ new(Above(q)) = 0
    <3>1. q \in Below(k)
      BY <1>1, <1>7, <2>1, <2>3, AboveFacts DEF Below
    <3>2. new(q) = 0
      BY <1>2, <2>3 DEF Entry
    <3> QED
      BY <3>1, <3>2
  <2> QED
    BY <1>6, <2>1, <2>2, <2>3
<1>8. \A q \in V : is(q)
  BY <1>1, <1>3, <1>6, <1>7
<1> QED
  BY <1>8 DEF Near, old, new

-----------------------------------------------------------------------------
(* A tree that grows.  While a file grows it has two inodes: the one in    *)
(* memory, to which blocks are added, and the one on the device, which is  *)
(* what is left of the file should the blocks run out.                     *)

OwnedAt(dev, inode, W) ==
    \A k \in W : At(dev.words, inode, k) # 0 => dev.owner[At(dev.words, inode, k)] = dev.file

\* Two trees have a block in common only at the same spot.
Apart(wds, inode, W, inode2, V) ==
    \A k \in W, q \in V :
        At(wds, inode, k) # 0 /\ At(wds, inode, k) = At(wds, inode2, q) => k = q

FreeAreZero(dev) == \A b \in Blocks : dev.owner[b] = Nobody => dev.words[b] = ZeroBlock

\* A block the file has taken, full of zeros, which is in neither tree yet.
Loose(dev, inode, W, disk, V, b) ==
    /\ b \in Blocks /\ dev.owner[b] = dev.file /\ dev.words[b] = ZeroBlock
    /\ \A k \in W : At(dev.words, inode, k) # b
    /\ \A k \in V : At(dev.words, disk, k) # b

Growing(dev, inode, W, disk, V, L) ==
    /\ dev \in Devices /\ inode \in Inodes /\ disk \in Inodes
    /\ Closed(W) /\ Closed(V) /\ FreeAreZero(dev)
    /\ OwnedAt(dev, inode, W) /\ OwnedAt(dev, disk, V)
    /\ Apart(dev.words, inode, W, inode, W) /\ Apart(dev.words, disk, V, disk, V)
    /\ Apart(dev.words, inode, W, disk, V)
    /\ \A b \in L : Loose(dev, inode, W, disk, V, b)

\* What an operation on the file does to the blocks of others: nothing.
Spares(dev, new) ==
    /\ new.file = dev.file /\ new.misfreed = dev.misfreed /\ new.overrun = dev.overrun
    /\ \A b \in Blocks :
          \/ new.owner[b] = dev.owner[b] /\ new.words[b] = dev.words[b]
          \/ {new.owner[b], dev.owner[b]} \subseteq {Nobody, dev.file}

\* Two operations on one file spare what others have.
LEMMA SparesTwice ==
    ASSUME NEW dev, NEW mid, NEW new, Spares(dev, mid), Spares(mid, new)
    PROVE  Spares(dev, new)
<1>1. ASSUME NEW b \in Blocks
      PROVE  \/ new.owner[b] = dev.owner[b] /\ new.words[b] = dev.words[b]
             \/ {new.owner[b], dev.owner[b]} \subseteq {Nobody, dev.file}
  <2>1. /\ \/ mid.owner[b] = dev.owner[b] /\ mid.words[b] = dev.words[b]
           \/ {mid.owner[b], dev.owner[b]} \subseteq {Nobody, dev.file}
        /\ \/ new.owner[b] = mid.owner[b] /\ new.words[b] = mid.words[b]
           \/ {new.owner[b], mid.owner[b]} \subseteq {Nobody, mid.file}
        /\ mid.file = dev.file
    BY DEF Spares
  <2> QED
    BY <2>1
<1> QED
  BY <1>1 DEF Spares

\* A growing tree gains the spot at which a loose block was linked.
LEMMA NearGrows ==
    ASSUME NEW dev, NEW inode, NEW W, NEW disk, NEW V, NEW L, Growing(dev, inode, W, disk, V, L),
           NEW new \in Devices, new.file = dev.file, new.owner = dev.owner, FreeAreZero(new),
           NEW inode2 \in Inodes, NEW k \in Spots, k \notin Roots => Above(k) \in W,
           NEW b \in L, \A c \in L \ {b} : new.words[c] = ZeroBlock,
           Near(dev.words, inode, new.words, inode2, W, k, b),
           Near(dev.words, disk, new.words, disk, V, k, b),
           At(new.words, inode2, k) = b
    PROVE  Growing(new, inode2, W \cup {k}, disk, V, L \ {b})
<1> DEFINE X(q) == At(dev.words, inode, q)
           X2(q) == At(new.words, inode2, q)
           Y(q) == At(dev.words, disk, q)
           Y2(q) == At(new.words, disk, q)
<1>1. Closed(W \cup {k}) /\ Closed(V)
  BY DEF Growing, Closed
<1>2. /\ b \in Blocks /\ dev.owner[b] = dev.file /\ b # 0
      /\ \A q \in W : X(q) # b
      /\ \A q \in V : Y(q) # b
  BY ShapeFacts DEF Growing, Loose
<1>3. \A q \in W \cup {k} : IF q = k THEN X2(q) = b ELSE q \in W /\ (X2(q) = X(q) \/ X2(q) = 0)
  BY DEF Near
<1>4. \A q \in V : (q = k /\ Y2(q) = b) \/ Y2(q) = Y(q) \/ Y2(q) = 0
  BY DEF Near
<1>5. /\ \A q \in W : X(q) # 0 => dev.owner[X(q)] = dev.file
      /\ \A q \in V : Y(q) # 0 => dev.owner[Y(q)] = dev.file
  BY DEF Growing, OwnedAt
<1>6. /\ \A p, q \in W : X(p) # 0 /\ X(p) = X(q) => p = q
      /\ \A p, q \in V : Y(p) # 0 /\ Y(p) = Y(q) => p = q
      /\ \A p \in W, q \in V : X(p) # 0 /\ X(p) = Y(q) => p = q
  BY DEF Growing, Apart
<1> HIDE DEF X, X2, Y, Y2
<1>7. /\ \A q \in W \cup {k} : X2(q) # 0 => dev.owner[X2(q)] = dev.file
      /\ \A q \in V : Y2(q) # 0 => dev.owner[Y2(q)] = dev.file
  BY <1>2, <1>3, <1>4, <1>5
<1>8. \A p, q \in W \cup {k} : X2(p) # 0 /\ X2(p) = X2(q) => p = q
  BY <1>2, <1>3, <1>6
<1>9. \A p, q \in V : Y2(p) # 0 /\ Y2(p) = Y2(q) => p = q
  BY <1>2, <1>4, <1>6
<1>10. \A p \in W \cup {k}, q \in V : X2(p) # 0 /\ X2(p) = Y2(q) => p = q
  BY <1>2, <1>3, <1>4, <1>6
<1>11. ASSUME NEW c \in L \ {b}
       PROVE  Loose(new, inode2, W \cup {k}, disk, V, c)
  <2>1. /\ c \in Blocks /\ c # 0 /\ dev.owner[c] = dev.file
        /\ \A q \in W : X(q) # c
        /\ \A q \in V : Y(q) # c
    BY ShapeFacts DEF Growing, Loose, X, Y
  <2>2. \A q \in W \cup {k} : X2(q) # c
    BY <1>3, <2>1
  <2>3. \A q \in V : Y2(q) # c
    BY <1>4, <2>1
  <2> QED
    BY <2>1, <2>2, <2>3 DEF Loose, X2, Y2
<1>12. OwnedAt(new, inode2, W \cup {k}) /\ OwnedAt(new, disk, V)
  BY <1>7 DEF OwnedAt, X2, Y2
<1>13. /\ Apart(new.words, inode2, W \cup {k}, inode2, W \cup {k})
       /\ Apart(new.words, disk, V, disk, V)
       /\ Apart(new.words, inode2, W \cup {k}, disk, V)
  BY <1>8, <1>9, <1>10 DEF Apart, X2, Y2
<1>14. disk \in Inodes
  BY DEF Growing
<1> QED
  BY <1>1, <1>11, <1>12, <1>13, <1>14 DEF Growing

\* A block is taken from the free list.
LEMMA TakeGrows ==
    ASSUME NEW dev, NEW inode, NEW W, NEW disk, NEW V, NEW L, Growing(dev, inode, W, disk, V, L),
           FreeOf(dev) # {}
    PROVE  /\ NextFree(dev) \in Blocks \ L /\ dev.owner[NextFree(dev)] = Nobody
           /\ Take(dev).words = dev.words
           /\ Take(dev).owner = [dev.owner EXCEPT ![NextFree(dev)] = dev.file]
           /\ Growing(Take(dev), inode, W, disk, V, L \cup {NextFree(dev)})
           /\ Spares(dev, Take(dev))
<1> DEFINE b == NextFree(dev)
           new == Take(dev)
<1>1. b \in Blocks /\ dev.owner[b] = Nobody
  <2>1. b \in FreeOf(dev)
    BY DEF NextFree
  <2> QED
    BY <2>1 DEF FreeOf
<1>2. dev \in Devices /\ inode \in Inodes /\ disk \in Inodes /\ Closed(W) /\ Closed(V)
  BY DEF Growing
<1>3. dev.file \in Files /\ dev.file # Nobody /\ dev.owner \in [Blocks -> Owners] /\ dev.file \in Owners
  BY <1>2, ShapeFacts DEF Devices, Owners
<1>4. /\ new \in Devices /\ new.file = dev.file /\ new.words = dev.words
      /\ new.misfreed = dev.misfreed /\ new.overrun = dev.overrun
      /\ new.owner = [dev.owner EXCEPT ![b] = dev.file]
  <2> HIDE DEF b
  <2> QED
    BY <1>1, <1>2, <1>3 DEF Devices, Take, b
<1>5. \A c \in Blocks : new.owner[c] = IF c = b THEN dev.file ELSE dev.owner[c]
  <2> HIDE DEF b, new
  <2> QED
    BY <1>1, <1>3, <1>4
<1>6. dev.words[b] = ZeroBlock
  BY <1>1 DEF Growing, FreeAreZero
<1>7. /\ \A q \in W : At(dev.words, inode, q) \in Words
      /\ \A q \in V : At(dev.words, disk, q) \in Words
  <2>1. dev.words \in WordsType /\ W \subseteq Spots /\ V \subseteq Spots
    BY <1>2 DEF Devices, WordsType, Closed
  <2> QED
    BY <1>2, <2>1, AtTyped
<1>8. /\ \A q \in W : At(dev.words, inode, q) # 0 => dev.owner[At(dev.words, inode, q)] = dev.file
      /\ \A q \in V : At(dev.words, disk, q) # 0 => dev.owner[At(dev.words, disk, q)] = dev.file
  BY DEF Growing, OwnedAt
<1> HIDE DEF b, new
<1>9. /\ \A q \in W : At(dev.words, inode, q) # b
      /\ \A q \in V : At(dev.words, disk, q) # b
  BY <1>1, <1>3, <1>8, ShapeFacts
<1>10. b \notin L
  BY <1>1, <1>3 DEF Growing, Loose
<1>11. ASSUME NEW c \in L \cup {b}
       PROVE  Loose(new, inode, W, disk, V, c)
  <2>1. CASE c = b
    BY <1>1, <1>4, <1>5, <1>6, <1>9, <2>1 DEF Loose
  <2>2. CASE c # b
    <3>1. c \in L /\ Loose(dev, inode, W, disk, V, c)
      BY <2>2 DEF Growing
    <3> QED
      BY <1>4, <1>5, <2>2, <3>1 DEF Loose
  <2> QED
    BY <2>1, <2>2
<1>12. OwnedAt(new, inode, W) /\ OwnedAt(new, disk, V)
  <2>1. \A q \in W : At(dev.words, inode, q) # 0 => new.owner[At(dev.words, inode, q)] = dev.file
    BY <1>5, <1>7, <1>8 DEF Words
  <2>2. \A q \in V : At(dev.words, disk, q) # 0 => new.owner[At(dev.words, disk, q)] = dev.file
    BY <1>5, <1>7, <1>8 DEF Words
  <2> QED
    BY <1>4, <2>1, <2>2 DEF OwnedAt
<1>13. FreeAreZero(new)
  <2>1. \A c \in Blocks : new.owner[c] = Nobody => dev.owner[c] = Nobody
    BY <1>3, <1>5
  <2>2. FreeAreZero(dev)
    BY DEF Growing
  <2> QED
    BY <1>4, <2>1, <2>2 DEF FreeAreZero
<1>14. Growing(new, inode, W, disk, V, L \cup {b})
  <2>1. /\ Apart(dev.words, inode, W, inode, W) /\ Apart(dev.words, disk, V, disk, V)
        /\ Apart(dev.words, inode, W, disk, V)
    BY DEF Growing
  <2> QED
    BY <1>2, <1>4, <1>11, <1>12, <1>13, <2>1 DEF Growing
<1>15. Spares(dev, new)
  BY <1>1, <1>4, <1>5 DEF Spares
<1> QED
  BY <1>1, <1>4, <1>10, <1>14, <1>15 DEF b, new

\* A loose block becomes the entry of an index block of the file.
LEMMA LinkSlot ==
    ASSUME NEW dev, NEW inode, NEW W, NEW disk, NEW V, NEW L, Growing(dev, inode, W, disk, V, L),
           NEW k \in Spots \ Roots, Above(k) \in W, NEW b \in L,
           At(dev.words, inode, Above(k)) # 0,
           NEW new, new = Store(dev, At(dev.words, inode, Above(k)), SlotOf(k), b)
    PROVE  /\ Growing(new, inode, W \cup {k}, disk, V, L \ {b})
           /\ Near(dev.words, inode, new.words, inode, W, k, b)
           /\ Near(dev.words, disk, new.words, disk, V, k, b)
           /\ At(new.words, inode, k) = b
           /\ new.owner = dev.owner /\ Spares(dev, new)
<1> DEFINE c == At(dev.words, inode, Above(k))
<1>0. c = At(dev.words, inode, Above(k)) /\ c # 0 /\ new = Store(dev, c, SlotOf(k), b)
  OBVIOUS
<1> HIDE DEF c
<1>1. /\ dev \in Devices /\ inode \in Inodes /\ disk \in Inodes /\ Closed(W) /\ Closed(V)
      /\ FreeAreZero(dev)
  BY DEF Growing
<1>2. dev.words \in WordsType /\ dev.owner \in [Blocks -> Owners] /\ dev.file # Nobody
  BY <1>1, ShapeFacts DEF Devices, WordsType
<1>3. Loose(dev, inode, W, disk, V, b) /\ b \in Blocks /\ dev.words[b] = ZeroBlock
  BY DEF Growing, Loose
<1>4. c \in Blocks /\ dev.owner[c] = dev.file
  <2>1. Above(k) \in Spots
    BY AboveFacts
  <2>2. c \in Words
    BY <1>0, <1>1, <1>2, <2>1, AtTyped
  <2> QED
    BY <1>0, <2>2 DEF Words, Growing, OwnedAt
<1>5. b # c
  BY <1>0, <1>3 DEF Loose
<1>6. /\ new.words = [dev.words EXCEPT ![c][SlotOf(k)] = b] /\ new.owner = dev.owner
      /\ new.file = dev.file /\ new.misfreed = dev.misfreed /\ new.overrun = dev.overrun
  BY <1>0, <1>1 DEF Store, Devices
<1>7. new.words \in WordsType /\ \A a \in Blocks : a # c => new.words[a] = dev.words[a]
  <2>1. b \in Words /\ SlotOf(k) \in Slots
    BY <1>3, AboveFacts DEF Words
  <2>2. [dev.words[c] EXCEPT ![SlotOf(k)] = b] \in [Slots -> Words]
    BY <1>2, <1>4, <2>1 DEF WordsType
  <2>3. new.words = [dev.words EXCEPT ![c] = [dev.words[c] EXCEPT ![SlotOf(k)] = b]]
    BY <1>6
  <2> QED
    BY <1>2, <1>4, <2>2, <2>3 DEF WordsType
<1>8. new \in Devices
  <2>1. dev.words \in [Blocks -> [Slots -> Words]] /\ new.words \in [Blocks -> [Slots -> Words]]
    BY <1>2, <1>7 DEF WordsType
  <2> QED
    BY <1>0, <1>1, <1>6, <2>1 DEF Store, Devices
<1>9. /\ \A q \in W : At(dev.words, inode, q) = c => q = Above(k)
      /\ \A q \in V : At(dev.words, disk, q) = c => q = Above(k)
  BY <1>0 DEF Growing, Apart
<1>10. Near(dev.words, inode, new.words, inode, W, k, b)
  <2>1. Near(dev.words, inode, [dev.words EXCEPT ![c][SlotOf(k)] = b], inode, W, k, b)
    BY <1>1, <1>2, <1>3, <1>4, <1>5, <1>9, SlotNear
  <2> QED
    BY <1>6, <2>1
<1>11. Near(dev.words, disk, new.words, disk, V, k, b)
  <2>1. Near(dev.words, disk, [dev.words EXCEPT ![c][SlotOf(k)] = b], disk, V, k, b)
    BY <1>1, <1>2, <1>3, <1>4, <1>5, <1>9, SlotNear
  <2> QED
    BY <1>6, <2>1
<1>12. At(new.words, inode, k) = b
  BY <1>0, <1>1, <1>2, <1>3, <1>4, <1>6, <1>10, SlotAt
<1>13. FreeAreZero(new)
  BY <1>1, <1>2, <1>4, <1>6, <1>7 DEF FreeAreZero
<1>14. \A a \in L \ {b} : new.words[a] = ZeroBlock
  <2> SUFFICES ASSUME NEW a \in L
               PROVE  new.words[a] = ZeroBlock
    OBVIOUS
  <2>1. Loose(dev, inode, W, disk, V, a)
    BY DEF Growing
  <2>2. a \in Blocks /\ a # c /\ dev.words[a] = ZeroBlock
    BY <1>0, <2>1 DEF Loose
  <2> QED
    BY <1>7, <2>2
<1>15. Growing(new, inode, W \cup {k}, disk, V, L \ {b})
  <2>1. inode \in Inodes /\ new.file = dev.file /\ new.owner = dev.owner
    BY <1>1, <1>6
  <2>2. k \in Spots /\ Above(k) \in W
    OBVIOUS
  <2> QED
    BY <1>8, <1>10, <1>11, <1>12, <1>13, <1>14, <2>1, <2>2, NearGrows
<1>16. Spares(dev, new)
  BY <1>4, <1>6, <1>7 DEF Spares
<1> QED
  BY <1>6, <1>10, <1>11, <1>12, <1>15, <1>16

\* A loose block becomes a pointer of the inode.
LEMMA LinkRoot ==
    ASSUME NEW dev, NEW inode, NEW W, NEW disk, NEW V, NEW L, Growing(dev, inode, W, disk, V, L),
           NEW k \in Roots, NEW b \in L,
           NEW inode2 \in Inodes, At(dev.words, inode2, k) = b,
           \A q \in Roots \ {k} : At(dev.words, inode2, q) = At(dev.words, inode, q)
    PROVE  /\ Growing(dev, inode2, W \cup {k}, disk, V, L \ {b})
           /\ Near(dev.words, inode, dev.words, inode2, W, k, b)
<1>1. /\ dev \in Devices /\ inode \in Inodes /\ disk \in Inodes /\ Closed(W) /\ Closed(V)
      /\ FreeAreZero(dev)
  BY DEF Growing
<1>2. dev.words \in WordsType
  BY <1>1 DEF Devices, WordsType
<1>3. b \in Blocks /\ dev.words[b] = ZeroBlock
  BY DEF Growing, Loose
<1>4. Near(dev.words, inode, dev.words, inode2, W, k, b)
  BY <1>1, <1>2, <1>3, RootNear
<1>5. Near(dev.words, disk, dev.words, disk, V, k, b)
  BY DEF Near
<1>6. \A a \in L \ {b} : dev.words[a] = ZeroBlock
  BY DEF Growing, Loose
<1>7. k \in Spots
  BY DEF Roots
<1>8. Growing(dev, inode2, W \cup {k}, disk, V, L \ {b})
  BY <1>1, <1>4, <1>5, <1>6, <1>7, NearGrows
<1> QED
  BY <1>4, <1>8

-----------------------------------------------------------------------------
(* Which spots a file of n blocks uses                                     *)

\* The number of the block with which a spot comes into use.
Start(k) ==
    CASE k[1] = "direct" -> k[2]
      [] k[1] = "single" -> D
      [] k[1] = "in single" -> D + k[2]
      [] k[1] = "double" -> D + P
      [] k[1] = "in double" -> D + P + P * k[2]
      [] k[1] = "below double" -> D + P + P * k[2] + k[3]

Live(n) == {k \in Spots : Start(k) < n}

\* What the tree of direct, single and double indirect blocks can hold.
Capacity == D + P + P * P

\* The spot of the n-th data block.
Leaf(n) ==
    IF n < D THEN DirectSpot(n)
    ELSE IF n < D + P THEN InSingle(n - D)
    ELSE BelowDouble((n - D - P) \div P, (n - D - P) % P)

\* Start, kind by kind.
LEMMA StartOf ==
    /\ \A m : Start(DirectSpot(m)) = m
    /\ Start(SingleSpot) = D /\ Start(DoubleSpot) = D + P
    /\ \A i : Start(InSingle(i)) = D + i
    /\ \A i : Start(InDouble(i)) = D + P + P * i
    /\ \A i, j : Start(BelowDouble(i, j)) = D + P + P * i + j
<1>1. \A m : Start(DirectSpot(m)) = m
  BY DEF Start, DirectSpot
<1>2. Start(SingleSpot) = D /\ Start(DoubleSpot) = D + P
  BY DEF Start, SingleSpot, DoubleSpot
<1>3. \A i : Start(InSingle(i)) = D + i
  BY DEF Start, InSingle
<1>4. \A i : Start(InDouble(i)) = D + P + P * i
  BY DEF Start, InDouble
<1>5. \A i, j : Start(BelowDouble(i, j)) = D + P + P * i + j
  BY DEF Start, BelowDouble
<1> QED
  BY <1>1, <1>2, <1>3, <1>4, <1>5

\* Quotient and remainder, for numbers with two digits to the base p.
LEMMA TwoDigits ==
    ASSUME NEW p \in Nat \ {0}, NEW d \in Nat
    PROVE  /\ d \div p \in Nat /\ d % p \in 0 .. p - 1 /\ d = p * (d \div p) + (d % p)
           /\ d < p * p => d \div p \in 0 .. p - 1
           /\ \A i \in Nat, j \in 0 .. p - 1 : d = p * i + j => i = d \div p /\ j = d % p
<1>1. d \div p \in Nat /\ d % p \in 0 .. p - 1 /\ d = p * (d \div p) + (d % p)
  OBVIOUS
<1> DEFINE x == d \div p
           y == d % p
<1>2. x \in Nat /\ y \in 0 .. p - 1 /\ d = p * x + y
  BY <1>1
<1> HIDE DEF x, y
<1>3. ASSUME NEW i \in Nat, NEW j \in 0 .. p - 1, d = p * i + j
      PROVE  i = x /\ j = y
  <2>1. p * i \in Nat /\ p * x \in Nat
    BY <1>2
  <2>2. CASE i < x
    <3>1. p * (i + 1) <= p * x
      BY <1>2, <2>2
    <3>2. p * (i + 1) = p * i + p
      OBVIOUS
    <3> QED
      BY <1>2, <1>3, <2>1, <3>1, <3>2
  <2>3. CASE i > x
    <3>1. p * (x + 1) <= p * i
      BY <1>2, <2>3
    <3>2. p * (x + 1) = p * x + p
      BY <1>2
    <3> QED
      BY <1>2, <1>3, <2>1, <3>1, <3>2
  <2>4. CASE i = x
    BY <1>2, <1>3, <2>1, <2>4
  <2> QED
    BY <1>2, <2>2, <2>3, <2>4
<1>4. d < p * p => x < p
  <2> SUFFICES ASSUME d < p * p, x >= p
               PROVE  FALSE
    BY <1>2
  <2>1. p * p <= p * x
    BY <1>2
  <2>2. p * p \in Nat /\ p * x \in Nat
    BY <1>2
  <2> QED
    BY <1>2, <2>1, <2>2
<1>5. d < p * p => x \in 0 .. p - 1
  BY <1>2, <1>4
<1> QED
  BY <1>1, <1>3, <1>5 DEF x, y

\* Start is a number.
LEMMA StartTyped ==
    ASSUME NEW k \in Spots
    PROVE  Start(k) \in Nat
<1>1. \A m \in 0 .. D - 1 : m \in Nat
  BY ShapeFacts
<1>2. \A i \in Slots : P * i \in Nat /\ i \in Nat
  BY ShapeFacts
<1> QED
  BY <1>1, <1>2, ShapeFacts, StartOf, SpotCases

\* An index block comes into use with the first block below it.
LEMMA StartAbove ==
    ASSUME NEW k \in Spots \ Roots
    PROVE  Start(Above(k)) <= Start(k)
<1>1. \A i \in Slots : P * i \in Nat /\ i \in Nat
  BY ShapeFacts
<1>2. \A i \in Slots : k = InSingle(i) => Start(Above(k)) <= Start(k)
  BY <1>1, ShapeFacts, StartOf, SpotsAre
<1>3. \A i \in Slots : k = InDouble(i) => Start(Above(k)) <= Start(k)
  BY <1>1, ShapeFacts, StartOf, SpotsAre
<1>4. ASSUME NEW i \in Slots, NEW j \in Slots, k = BelowDouble(i, j)
      PROVE  Start(Above(k)) <= Start(k)
  <2>1. Start(Above(k)) = D + P + P * i /\ Start(k) = D + P + P * i + j
    BY <1>4, StartOf, SpotsAre
  <2>2. P * i \in Nat /\ j \in Nat
    BY <1>1
  <2> QED
    BY <2>1, <2>2, ShapeFacts
<1> QED
  BY <1>2, <1>3, <1>4, SpotCases, SpotsAre DEF Roots

\* Whatever a file uses, it uses the spots above it too.
LEMMA LiveClosed ==
    ASSUME NEW n \in Nat
    PROVE  Closed(Live(n))
<1>1. \A k \in Live(n) \ Roots : Above(k) \in Live(n)
  <2> SUFFICES ASSUME NEW k \in Live(n) \ Roots
               PROVE  Above(k) \in Live(n)
    OBVIOUS
  <2>1. k \in Spots \ Roots /\ Start(k) < n /\ Above(k) \in Spots
    BY AboveFacts DEF Live
  <2>2. Start(Above(k)) \in Nat /\ Start(k) \in Nat /\ Start(Above(k)) <= Start(k)
    BY <2>1, StartAbove, StartTyped
  <2> QED
    BY <2>1, <2>2 DEF Live
<1> QED
  BY <1>1 DEF Closed, Live

\* All spots are closed.
LEMMA SpotsClosed ==
    Closed(Spots)
  BY AboveFacts DEF Closed

\* Nothing below a spot is in use before the spot is.
LEMMA BelowLater ==
    ASSUME NEW k \in Spots, NEW q \in Below(k)
    PROVE  Start(k) <= Start(q)
<1>1. q \in Spots \ Roots /\ Above(q) \in Spots
  BY AboveFacts DEF Below
<1>2. Start(Above(q)) <= Start(q)
  BY <1>1, StartAbove
<1>3. CASE Above(q) = k
  BY <1>2, <1>3
<1>4. CASE Above(q) # k
  <2>1. Above(q) \in Spots \ Roots /\ Above(Above(q)) = k
    BY <1>1, <1>4 DEF Below
  <2>2. Start(k) <= Start(Above(q))
    BY <2>1, StartAbove
  <2>3. Start(k) \in Nat /\ Start(q) \in Nat /\ Start(Above(q)) \in Nat
    BY <1>1, StartTyped
  <2> QED
    BY <1>2, <2>2, <2>3
<1> QED
  BY <1>3, <1>4

\* The digits of a block's number under the double indirect block.
LEMMA DigitsOf ==
    ASSUME NEW n \in Nat, D + P <= n, n < Capacity
    PROVE  LET i == (n - D - P) \div P
               j == (n - D - P) % P
           IN  /\ i \in Slots /\ j \in Slots /\ n = D + P + P * i + j
               /\ \A x, y \in Slots : n = D + P + P * x + y => x = i /\ y = j
<1> DEFINE d == n - D - P
           i == d \div P
           j == d % P
<1>1. d \in Nat /\ d < P * P /\ P \in Nat \ {0} /\ n = D + P + d
  BY ShapeFacts DEF Capacity
<1> HIDE DEF d
<1>2. i \in 0 .. P - 1 /\ j \in 0 .. P - 1 /\ d = P * i + j
  BY <1>1, TwoDigits
<1>3. \A x \in Nat, y \in 0 .. P - 1 : d = P * x + y => x = i /\ y = j
  BY <1>1, TwoDigits
<1> HIDE DEF i, j
<1>4. P * i \in Nat
  BY <1>1, <1>2
<1>5. n = D + P + P * i + j
  BY <1>1, <1>2, <1>4, ShapeFacts
<1>6. ASSUME NEW x \in Slots, NEW y \in Slots, n = D + P + P * x + y
      PROVE  x = i /\ y = j
  <2>1. x \in Nat /\ y \in 0 .. P - 1 /\ P * x \in Nat
    BY <1>1 DEF Slots
  <2>2. d = P * x + y
    BY <1>1, <1>6, <2>1, ShapeFacts
  <2> QED
    BY <1>3, <2>1, <2>2
<1> QED
  BY <1>2, <1>5, <1>6 DEF Slots, i, j, d

\* The n-th leaf comes into use with the n-th block.
LEMMA LeafFacts ==
    ASSUME NEW n \in Nat, n < Capacity
    PROVE  Leaf(n) \in Spots /\ Start(Leaf(n)) = n
<1>1. CASE n < D
  <2>1. n \in 0 .. D - 1
    BY <1>1, ShapeFacts
  <2> QED
    BY <1>1, <2>1, SpotsAre, StartOf DEF Leaf, Roots
<1>2. CASE D <= n /\ n < D + P
  <2>1. n - D \in Slots /\ D + (n - D) = n /\ ~ n < D
    BY <1>2, ShapeFacts DEF Slots
  <2>2. Leaf(n) = InSingle(n - D)
    BY <1>2, <2>1 DEF Leaf
  <2> QED
    BY <2>1, <2>2, SpotsAre, StartOf
<1>3. CASE D + P <= n
  <2> DEFINE i == (n - D - P) \div P
             j == (n - D - P) % P
  <2>1. i \in Slots /\ j \in Slots /\ n = D + P + P * i + j
    BY <1>3, DigitsOf
  <2>2. ~ n < D /\ ~ n < D + P
    BY <1>3, ShapeFacts
  <2>3. Leaf(n) = BelowDouble(i, j)
    BY <2>2 DEF Leaf
  <2> HIDE DEF i, j
  <2> QED
    BY <2>1, <2>3, SpotsAre, StartOf
<1> QED
  BY <1>1, <1>2, <1>3, ShapeFacts

(* The spots that come into use with the n-th block: its own, and those of *)
(* the index blocks of which it uses the first slot.                       *)
LEMMA StartsAt ==
    ASSUME NEW n \in Nat, n < Capacity, NEW k \in Spots
    PROVE  Start(k) = n <=>
             \/ k = Leaf(n)
             \/ n = D /\ k = SingleSpot
             \/ n = D + P /\ k = DoubleSpot
             \/ D + P <= n /\ (n - D - P) % P = 0 /\ k = InDouble((n - D - P) \div P)
<1>1. Start(Leaf(n)) = n
  BY LeafFacts
<1>2. ASSUME NEW m \in 0 .. D - 1, k = DirectSpot(m), Start(k) = n
      PROVE  k = Leaf(n)
  <2>1. m = n /\ n < D
    BY <1>2, StartOf, ShapeFacts
  <2> QED
    BY <1>2, <2>1 DEF Leaf
<1>3. ASSUME NEW i \in Slots, k = InSingle(i), Start(k) = n
      PROVE  k = Leaf(n)
  <2>1. n = D + i /\ i \in Nat /\ i < P
    BY <1>3, StartOf, ShapeFacts
  <2>2. ~ n < D /\ n < D + P /\ n - D = i
    BY <2>1, ShapeFacts
  <2> QED
    BY <1>3, <2>2 DEF Leaf
<1>4. ASSUME NEW i \in Slots, k = InDouble(i), Start(k) = n
      PROVE  D + P <= n /\ (n - D - P) % P = 0 /\ i = (n - D - P) \div P
  <2>1. n = D + P + P * i /\ 0 \in Slots /\ P * i \in Nat
    BY <1>4, StartOf, ShapeFacts
  <2>2. D + P <= n /\ n = D + P + P * i + 0
    BY <2>1, ShapeFacts
  <2> QED
    BY <2>1, <2>2, DigitsOf
<1>5. ASSUME NEW i \in Slots, NEW j \in Slots, k = BelowDouble(i, j), Start(k) = n
      PROVE  k = Leaf(n)
  <2>1. n = D + P + P * i + j /\ P * i \in Nat /\ j \in Nat
    BY <1>5, StartOf, ShapeFacts
  <2>2. D + P <= n
    BY <2>1, ShapeFacts
  <2>3. i = (n - D - P) \div P /\ j = (n - D - P) % P
    BY <2>1, <2>2, DigitsOf
  <2>4. ~ n < D /\ ~ n < D + P
    BY <2>2, ShapeFacts
  <2> QED
    BY <1>5, <2>3, <2>4 DEF Leaf
<1>6. ASSUME D + P <= n, (n - D - P) % P = 0, k = InDouble((n - D - P) \div P)
      PROVE  Start(k) = n
  <2> DEFINE i == (n - D - P) \div P
  <2>1. i \in Slots /\ n = D + P + P * i + 0
    BY <1>6, DigitsOf
  <2> HIDE DEF i
  <2>2. P * i \in Nat
    BY <2>1, ShapeFacts
  <2>3. Start(k) = D + P + P * i
    BY <1>6, StartOf DEF i
  <2> QED
    BY <2>1, <2>2, <2>3, ShapeFacts
<1>7. n = D /\ k = SingleSpot => Start(k) = n
  BY StartOf
<1>8. n = D + P /\ k = DoubleSpot => Start(k) = n
  BY StartOf
<1>9. k = SingleSpot /\ Start(k) = n => n = D
  BY StartOf
<1>10. k = DoubleSpot /\ Start(k) = n => n = D + P
  BY StartOf
<1>11. Start(k) = n => \/ k = Leaf(n)
                       \/ n = D /\ k = SingleSpot
                       \/ n = D + P /\ k = DoubleSpot
                       \/ D + P <= n /\ (n - D - P) % P = 0 /\ k = InDouble((n - D - P) \div P)
  BY <1>2, <1>3, <1>4, <1>5, <1>9, <1>10, SpotCases
<1> QED
  BY <1>1, <1>6, <1>7, <1>8, <1>11

-----------------------------------------------------------------------------
(* How FileBlocks finds a spot                                             *)

\* Follow with no slot: the pointer of the inode.
LEMMA FollowNone ==
    ASSUME NEW wds, NEW inode, NEW root, root # "direct"
    PROVE  Follow(wds, inode, root, <<>>) = inode[root]
<1> DEFINE at == <<>>
           Is(f) == f = [k \in 0 .. Len(at) |->
                            IF k = 0 THEN inode[root]
                            ELSE IF f[k - 1] = 0 THEN 0 ELSE wds[f[k - 1]][at[k]]]
           done == CHOOSE f : Is(f)
<1>1. Follow(wds, inode, root, at) = done[Len(at)]
  BY DEF Follow, Each
<1>2. Len(at) = 0
  OBVIOUS
<1>3. Is([k \in 0 .. 0 |-> inode[root]])
  <2>1. \A k \in 0 .. 0 : k = 0
    OBVIOUS
  <2> QED
    BY <1>2, <2>1
<1>4. Is(done)
  <2> HIDE DEF Is
  <2> QED
    BY <1>3
<1>5. done[0] = inode[root]
  <2> HIDE DEF done
  <2> QED
    BY <1>2, <1>4
<1> QED
  BY <1>1, <1>2, <1>5

\* Follow with one slot.
LEMMA FollowOne ==
    ASSUME NEW wds, NEW inode, NEW root, root # "direct", NEW i
    PROVE  Follow(wds, inode, root, <<i>>) = Entry(wds, inode[root], i)
<1> DEFINE at == <<i>>
           Is(f) == f = [k \in 0 .. Len(at) |->
                            IF k = 0 THEN inode[root]
                            ELSE IF f[k - 1] = 0 THEN 0 ELSE wds[f[k - 1]][at[k]]]
           done == CHOOSE f : Is(f)
           one == Entry(wds, inode[root], i)
<1>1. Follow(wds, inode, root, at) = done[Len(at)]
  BY DEF Follow, Each
<1>2. Len(at) = 1 /\ at[1] = i
  OBVIOUS
<1>3. \E f : Is(f)
  <2> DEFINE g == [k \in 0 .. 1 |-> IF k = 0 THEN inode[root] ELSE one]
  <2>1. \A k \in 0 .. 1 : g[k] = IF k = 0 THEN inode[root]
                                 ELSE IF g[k - 1] = 0 THEN 0 ELSE wds[g[k - 1]][at[k]]
    <3>1. g[0] = inode[root] /\ g[1] = one
      OBVIOUS
    <3>2. \A k \in 0 .. 1 : k = 0 \/ (k = 1 /\ k - 1 = 0)
      OBVIOUS
    <3> HIDE DEF g, at
    <3> QED
      BY <1>2, <3>1, <3>2 DEF Entry
  <2>2. Is(g)
    BY <1>2, <2>1
  <2> QED
    BY <2>2
<1>4. Is(done)
  <2> HIDE DEF Is
  <2> QED
    BY <1>3
<1>5. \A k \in 0 .. 1 : done[k] = IF k = 0 THEN inode[root]
                                  ELSE IF done[k - 1] = 0 THEN 0 ELSE wds[done[k - 1]][at[k]]
  <2> HIDE DEF done, at
  <2> QED
    BY <1>2, <1>4
<1>6. done[1] = one
  <2>1. 0 \in 0 .. 1 /\ 1 \in 0 .. 1 /\ 1 - 1 = 0
    OBVIOUS
  <2> HIDE DEF done, at, Is
  <2>2. done[0] = inode[root]
    BY <1>5, <2>1
  <2>3. done[1] = IF done[0] = 0 THEN 0 ELSE wds[done[0]][at[1]]
    BY <1>5, <2>1
  <2> QED
    BY <1>2, <2>2, <2>3 DEF Entry
<1> QED
  BY <1>1, <1>2, <1>6

\* Follow with two slots.
LEMMA FollowTwo ==
    ASSUME NEW wds, NEW inode, NEW root, root # "direct", NEW i, NEW j
    PROVE  Follow(wds, inode, root, <<i, j>>) = Entry(wds, Entry(wds, inode[root], i), j)
<1> DEFINE at == <<i, j>>
           Is(f) == f = [k \in 0 .. Len(at) |->
                            IF k = 0 THEN inode[root]
                            ELSE IF f[k - 1] = 0 THEN 0 ELSE wds[f[k - 1]][at[k]]]
           done == CHOOSE f : Is(f)
           one == Entry(wds, inode[root], i)
           two == Entry(wds, one, j)
<1>1. Follow(wds, inode, root, at) = done[Len(at)]
  BY DEF Follow, Each
<1>2. Len(at) = 2 /\ at[1] = i /\ at[2] = j
  OBVIOUS
<1>3. \E f : Is(f)
  <2> DEFINE g == [k \in 0 .. 2 |-> IF k = 0 THEN inode[root] ELSE IF k = 1 THEN one ELSE two]
  <2>1. \A k \in 0 .. 2 : g[k] = IF k = 0 THEN inode[root]
                                 ELSE IF g[k - 1] = 0 THEN 0 ELSE wds[g[k - 1]][at[k]]
    <3>1. g[0] = inode[root] /\ g[1] = one /\ g[2] = two
      OBVIOUS
    <3>2. \A k \in 0 .. 2 : k = 0 \/ (k = 1 /\ k - 1 = 0) \/ (k = 2 /\ k - 1 = 1)
      OBVIOUS
    <3> HIDE DEF g, at
    <3> QED
      BY <1>2, <3>1, <3>2 DEF Entry
  <2>2. Is(g)
    BY <1>2, <2>1
  <2> QED
    BY <2>2
<1>4. Is(done)
  <2> HIDE DEF Is
  <2> QED
    BY <1>3
<1>5. \A k \in 0 .. 2 : done[k] = IF k = 0 THEN inode[root]
                                  ELSE IF done[k - 1] = 0 THEN 0 ELSE wds[done[k - 1]][at[k]]
  <2> HIDE DEF done, at
  <2> QED
    BY <1>2, <1>4
<1>6. done[2] = two
  <2>1. 0 \in 0 .. 2 /\ 1 \in 0 .. 2 /\ 2 \in 0 .. 2 /\ 1 - 1 = 0 /\ 2 - 1 = 1
    OBVIOUS
  <2> HIDE DEF done, at, Is
  <2>2. done[0] = inode[root]
    BY <1>5, <2>1
  <2>3. done[1] = IF done[0] = 0 THEN 0 ELSE wds[done[0]][at[1]]
    BY <1>5, <2>1
  <2>4. done[1] = one
    BY <1>2, <2>2, <2>3 DEF Entry
  <2>5. done[2] = IF done[1] = 0 THEN 0 ELSE wds[done[1]][at[2]]
    BY <1>5, <2>1
  <2> QED
    BY <1>2, <2>4, <2>5 DEF Entry
<1> QED
  BY <1>1, <1>2, <1>6

\* The path to the n-th block, region by region.
LEMMA PathOf ==
    ASSUME NEW n \in Nat, n < Capacity
    PROVE  /\ n < D => Path(n) = [root |-> "direct", at |-> <<n>>]
           /\ D <= n /\ n < D + P => Path(n) = [root |-> "single", at |-> <<n - D>>]
           /\ D + P <= n => Path(n) = [root |-> "double",
                                       at |-> <<(n - D - P) \div P, (n - D - P) % P>>]
<1> DEFINE d == n - D - P
<1>1. /\ n < D <=> n - D < 0
      /\ d < 0 <=> n < D + P
      /\ d - P * P < 0
  BY ShapeFacts DEF Capacity
<1>2. n < D => Path(n) = [root |-> "direct", at |-> <<n>>]
  <2> SUFFICES ASSUME n < D
               PROVE  Path(n) = [root |-> "direct", at |-> <<n>>]
    OBVIOUS
  <2>1. n - D < 0 /\ ~ n - D >= 0 /\ ~ d >= 0 /\ ~ d - P * P >= 0
    BY ShapeFacts DEF Capacity
  <2> QED
    BY <2>1 DEF Path
<1>3. D <= n /\ n < D + P => Path(n) = [root |-> "single", at |-> <<n - D>>]
  <2> SUFFICES ASSUME D <= n, n < D + P
               PROVE  Path(n) = [root |-> "single", at |-> <<n - D>>]
    OBVIOUS
  <2>1. ~ n - D < 0 /\ n - D >= 0 /\ d < 0 /\ ~ d >= 0 /\ ~ d - P * P >= 0
    BY ShapeFacts DEF Capacity
  <2> QED
    BY <2>1 DEF Path
<1>4. D + P <= n => Path(n) = [root |-> "double", at |-> <<d \div P, d % P>>]
  <2> SUFFICES ASSUME D + P <= n
               PROVE  Path(n) = [root |-> "double", at |-> <<d \div P, d % P>>]
    OBVIOUS
  <2>1. ~ n - D < 0 /\ ~ d < 0 /\ d >= 0 /\ d - P * P < 0 /\ ~ d - P * P >= 0
    BY ShapeFacts DEF Capacity
  <2> QED
    BY <2>1 DEF Path
<1> QED
  BY <1>2, <1>3, <1>4

\* fblock_num_to_dblock_num finds the leaf of the block.
LEMMA FollowLeaf ==
    ASSUME NEW n \in Nat, n < Capacity, NEW wds, NEW inode
    PROVE  Follow(wds, inode, Path(n).root, Path(n).at) = At(wds, inode, Leaf(n))
<1>1. CASE n < D
  <2>1. Path(n).root = "direct" /\ Path(n).at[1] = n /\ Leaf(n) = DirectSpot(n)
    BY <1>1, PathOf DEF Leaf
  <2>2. n \in 0 .. D - 1
    BY <1>1, ShapeFacts
  <2> QED
    BY <2>1, <2>2, AtDirect DEF Follow
<1>2. CASE D <= n /\ n < D + P
  <2>1. Path(n).root = "single" /\ Path(n).at = <<n - D>>
    BY <1>2, PathOf
  <2>2. Leaf(n) = InSingle(n - D)
    BY <1>2, ShapeFacts DEF Leaf
  <2>3. Follow(wds, inode, "single", <<n - D>>) = Entry(wds, inode["single"], n - D)
    BY FollowOne
  <2>4. At(wds, inode, InSingle(n - D)) = Entry(wds, inode.single, n - D)
    BY DEF At, InSingle
  <2> QED
    BY <2>1, <2>2, <2>3, <2>4
<1>3. CASE D + P <= n
  <2> DEFINE i == (n - D - P) \div P
             j == (n - D - P) % P
  <2>1. Path(n).root = "double" /\ Path(n).at = <<i, j>>
    BY <1>3, PathOf
  <2>2. Leaf(n) = BelowDouble(i, j)
    BY <1>3, ShapeFacts DEF Leaf
  <2> HIDE DEF i, j
  <2>3. Follow(wds, inode, "double", <<i, j>>) = Entry(wds, Entry(wds, inode["double"], i), j)
    BY FollowTwo
  <2>4. At(wds, inode, BelowDouble(i, j)) = Entry(wds, Entry(wds, inode.double, i), j)
    BY DEF At, BelowDouble
  <2> QED
    BY <2>1, <2>2, <2>3, <2>4
<1> QED
  BY <1>1, <1>2, <1>3, ShapeFacts

-----------------------------------------------------------------------------
(* Adding a block                                                          *)

\* Every block of the file is at one of the spots S or loose, and no other
\* spot holds one.
Accounted(dev, inode, S, L) ==
    /\ \A b \in Blocks : dev.owner[b] = dev.file =>
          b \in L \/ \E k \in S : At(dev.words, inode, k) = b
    /\ \A k \in Spots : At(dev.words, inode, k) # 0 => k \in S

(* A stage of the growth: the tree in memory has blocks at the spots S, the*)
(* one on the device at the spots T, and when exact no block is wasted.    *)
Stage(dev, inode, W, S, disk, V, T, L, exact) ==
    /\ Growing(dev, inode, W, disk, V, L)
    /\ S \subseteq W /\ \A k \in S : At(dev.words, inode, k) # 0
    /\ T \subseteq V /\ \A k \in T : At(dev.words, disk, k) # 0
    /\ exact => W = Spots /\ Accounted(dev, inode, S, L)

\* What stays as it was: the blocks of others, and the spots S and T.
Keeps(dev, inode, S, disk, T, new, inode2) ==
    /\ Spares(dev, new)
    /\ \A k \in S : At(new.words, inode2, k) = At(dev.words, inode, k)
    /\ \A k \in T : At(new.words, disk, k) = At(dev.words, disk, k)

\* A stage of the growth when another block is taken.
LEMMA StageTake ==
    ASSUME NEW dev, NEW inode, NEW W, NEW S, NEW disk, NEW V, NEW T, NEW L, NEW exact,
           Stage(dev, inode, W, S, disk, V, T, L, exact), FreeOf(dev) # {}
    PROVE  /\ Stage(Take(dev), inode, W, S, disk, V, T, L \cup {NextFree(dev)}, exact)
           /\ Keeps(dev, inode, S, disk, T, Take(dev), inode)
           /\ NextFree(dev) \in Blocks \ L
<1> DEFINE b == NextFree(dev)
           new == Take(dev)
<1>1. Growing(dev, inode, W, disk, V, L)
  BY DEF Stage
<1>2. /\ b \in Blocks \ L /\ new.words = dev.words
      /\ new.owner = [dev.owner EXCEPT ![b] = dev.file]
      /\ Growing(new, inode, W, disk, V, L \cup {b}) /\ Spares(dev, new)
  BY <1>1, TakeGrows
<1> HIDE DEF b, new
<1>3. exact => Accounted(new, inode, S, L \cup {b})
  <2> SUFFICES ASSUME exact
               PROVE  Accounted(new, inode, S, L \cup {b})
    OBVIOUS
  <2>1. Accounted(dev, inode, S, L)
    BY DEF Stage
  <2>2. dev.owner \in [Blocks -> Owners] /\ new.file = dev.file
    BY <1>1, <1>2 DEF Growing, Devices, Spares
  <2>3. \A c \in Blocks : c = b \/ new.owner[c] = dev.owner[c]
    BY <1>2, <2>2
  <2> QED
    BY <1>2, <2>1, <2>2, <2>3 DEF Accounted
<1>4. Stage(new, inode, W, S, disk, V, T, L \cup {b}, exact)
  BY <1>2, <1>3 DEF Stage
<1>5. Keeps(dev, inode, S, disk, T, new, inode)
  BY <1>2 DEF Keeps
<1> QED
  BY <1>2, <1>4, <1>5 DEF b, new

\* What a new block at spot k means for the spots in use.
LEMMA NearStage ==
    ASSUME NEW dev, NEW inode, NEW W, NEW S, NEW disk, NEW V, NEW T, NEW L, NEW exact,
           Stage(dev, inode, W, S, disk, V, T, L, exact),
           NEW k \in Spots, k \notin S \cup T, Below(k) \cap (S \cup T) = {}, NEW b \in L,
           NEW new, NEW inode2, Growing(new, inode2, W \cup {k}, disk, V, L \ {b}),
           new.owner = dev.owner, Spares(dev, new),
           Near(dev.words, inode, new.words, inode2, W, k, b),
           Near(dev.words, disk, new.words, disk, V, k, b),
           At(new.words, inode2, k) = b
    PROVE  /\ Stage(new, inode2, W \cup {k}, S \cup {k}, disk, V, T, L \ {b}, exact)
           /\ Keeps(dev, inode, S, disk, T, new, inode2)
<1>1. /\ S \subseteq W /\ \A q \in S : At(dev.words, inode, q) # 0
      /\ T \subseteq V /\ \A q \in T : At(dev.words, disk, q) # 0
  BY DEF Stage
<1>2. \A q \in S : At(new.words, inode2, q) = At(dev.words, inode, q)
  BY <1>1 DEF Near
<1>3. \A q \in T : At(new.words, disk, q) = At(dev.words, disk, q)
  BY <1>1 DEF Near
<1>4. b # 0
  BY ShapeFacts DEF Stage, Growing, Loose
<1>5. \A q \in S \cup {k} : At(new.words, inode2, q) # 0
  BY <1>1, <1>2, <1>4
<1>6. exact => W \cup {k} = Spots /\ Accounted(new, inode2, S \cup {k}, L \ {b})
  <2> SUFFICES ASSUME exact
               PROVE  W \cup {k} = Spots /\ Accounted(new, inode2, S \cup {k}, L \ {b})
    OBVIOUS
  <2>1. W = Spots /\ Accounted(dev, inode, S, L)
    BY DEF Stage
  <2>2. new.file = dev.file
    BY DEF Spares
  <2>3. ASSUME NEW c \in Blocks, new.owner[c] = new.file
        PROVE  c \in L \ {b} \/ \E q \in S \cup {k} : At(new.words, inode2, q) = c
    <3>1. c \in L \/ \E q \in S : At(dev.words, inode, q) = c
      BY <2>1, <2>2, <2>3 DEF Accounted
    <3> QED
      BY <1>2, <3>1
  <2>4. ASSUME NEW q \in Spots, At(new.words, inode2, q) # 0
        PROVE  q \in S \cup {k}
    BY <2>1, <2>4 DEF Accounted, Near
  <2> QED
    BY <2>1, <2>3, <2>4 DEF Accounted
<1>7. Stage(new, inode2, W \cup {k}, S \cup {k}, disk, V, T, L \ {b}, exact)
  <2>1. S \cup {k} \subseteq W \cup {k}
    BY <1>1
  <2>2. \A q \in T : At(new.words, disk, q) # 0
    BY <1>1, <1>3
  <2> QED
    BY <1>1, <1>5, <1>6, <2>1, <2>2 DEF Stage
<1> QED
  BY <1>2, <1>3, <1>7 DEF Keeps

\* A stage of the growth when a loose block is linked in a slot.
LEMMA StageSlot ==
    ASSUME NEW dev, NEW inode, NEW W, NEW S, NEW disk, NEW V, NEW T, NEW L, NEW exact,
           Stage(dev, inode, W, S, disk, V, T, L, exact),
           NEW k \in Spots \ Roots, k \notin S \cup T, Below(k) \cap (S \cup T) = {},
           Above(k) \in S, NEW b \in L,
           NEW new, new = Store(dev, At(dev.words, inode, Above(k)), SlotOf(k), b)
    PROVE  /\ Stage(new, inode, W \cup {k}, S \cup {k}, disk, V, T, L \ {b}, exact)
           /\ Keeps(dev, inode, S, disk, T, new, inode)
<1>1. Growing(dev, inode, W, disk, V, L) /\ Above(k) \in W /\ At(dev.words, inode, Above(k)) # 0
  BY DEF Stage
<1>2. /\ Growing(new, inode, W \cup {k}, disk, V, L \ {b})
      /\ Near(dev.words, inode, new.words, inode, W, k, b)
      /\ Near(dev.words, disk, new.words, disk, V, k, b)
      /\ At(new.words, inode, k) = b
      /\ new.owner = dev.owner /\ Spares(dev, new)
  BY <1>1, LinkSlot
<1> QED
  BY <1>2, NearStage

\* A stage of the growth when a loose block is linked in the inode.
LEMMA StageRoot ==
    ASSUME NEW dev, NEW inode, NEW W, NEW S, NEW disk, NEW V, NEW T, NEW L, NEW exact,
           Stage(dev, inode, W, S, disk, V, T, L, exact),
           NEW k \in Roots, k \notin S \cup T, Below(k) \cap (S \cup T) = {}, NEW b \in L,
           NEW inode2 \in Inodes, At(dev.words, inode2, k) = b,
           \A q \in Roots \ {k} : At(dev.words, inode2, q) = At(dev.words, inode, q)
    PROVE  /\ Stage(dev, inode2, W \cup {k}, S \cup {k}, disk, V, T, L \ {b}, exact)
           /\ Keeps(dev, inode, S, disk, T, dev, inode2)
<1>1. Growing(dev, inode, W, disk, V, L)
  BY DEF Stage
<1>2. /\ Growing(dev, inode2, W \cup {k}, disk, V, L \ {b})
      /\ Near(dev.words, inode, dev.words, inode2, W, k, b)
  BY <1>1, LinkRoot
<1>3. Near(dev.words, disk, dev.words, disk, V, k, b) /\ Spares(dev, dev) /\ k \in Spots
  BY DEF Near, Spares, Roots
<1> QED
  BY <1>2, <1>3, NearStage

\* What two operations keep, both together keep.
LEMMA KeepsTwice ==
    ASSUME NEW dev, NEW inode, NEW S, NEW disk, NEW T, NEW mid, NEW inode2, NEW S2, NEW new, NEW inode3,
           Keeps(dev, inode, S, disk, T, mid, inode2), S \subseteq S2,
           Keeps(mid, inode2, S2, disk, T, new, inode3)
    PROVE  Keeps(dev, inode, S, disk, T, new, inode3)
<1>1. Spares(dev, new)
  BY SparesTwice DEF Keeps
<1>2. \A k \in S : At(new.words, inode3, k) = At(dev.words, inode, k)
  BY DEF Keeps
<1>3. \A k \in T : At(new.words, disk, k) = At(dev.words, disk, k)
  BY DEF Keeps
<1> QED
  BY <1>1, <1>2, <1>3 DEF Keeps

\* The way down with one slot.
LEMMA DescendOnce ==
    ASSUME NEW r
    PROVE  Each(Descend, r, [k \in 1 .. 1 |-> k]) = Descend(r, 1)
<1> DEFINE s == [k \in 1 .. 1 |-> k]
           Is(f) == f = [k \in 0 .. Len(s) |-> IF k = 0 THEN r ELSE Descend(f[k - 1], s[k])]
           done == CHOOSE f : Is(f)
<1>1. Each(Descend, r, s) = done[Len(s)]
  BY DEF Each
<1>2. Len(s) = 1 /\ s[1] = 1
  <2>1. s \in [1 .. 1 -> Nat]
    OBVIOUS
  <2> HIDE DEF s
  <2>2. Len(s) = 1
    BY <2>1, FcnIsSeq
  <2> QED
    BY <2>2 DEF s
<1>3. \E f : Is(f)
  <2> DEFINE g == [k \in 0 .. 1 |-> IF k = 0 THEN r ELSE Descend(r, 1)]
  <2>1. \A k \in 0 .. 1 : g[k] = IF k = 0 THEN r ELSE Descend(g[k - 1], s[k])
    <3>1. g[0] = r /\ g[1] = Descend(r, 1)
      OBVIOUS
    <3>2. \A k \in 0 .. 1 : k = 0 \/ (k = 1 /\ k - 1 = 0)
      OBVIOUS
    <3> HIDE DEF g, s
    <3> QED
      BY <1>2, <3>1, <3>2
  <2>2. Is(g)
    <3> HIDE DEF s
    <3> QED
      BY <1>2, <2>1
  <2> QED
    BY <2>2
<1>4. Is(done)
  <2> HIDE DEF Is
  <2> QED
    BY <1>3
<1>5. \A k \in 0 .. 1 : done[k] = IF k = 0 THEN r ELSE Descend(done[k - 1], s[k])
  <2> HIDE DEF done, s
  <2> QED
    BY <1>2, <1>4
<1>6. done[1] = Descend(r, 1)
  <2>1. 0 \in 0 .. 1 /\ 1 \in 0 .. 1 /\ 1 - 1 = 0
    OBVIOUS
  <2> HIDE DEF done, s, Is
  <2>2. done[0] = r
    BY <1>5, <2>1
  <2>3. done[1] = Descend(done[0], s[1])
    BY <1>5, <2>1
  <2> QED
    BY <1>2, <2>2, <2>3
<1> QED
  BY <1>1, <1>2, <1>6

\* The way down with two slots.
LEMMA DescendTwice ==
    ASSUME NEW r
    PROVE  Each(Descend, r, [k \in 1 .. 2 |-> k]) = Descend(Descend(r, 1), 2)
<1> DEFINE s == [k \in 1 .. 2 |-> k]
           Is(f) == f = [k \in 0 .. Len(s) |-> IF k = 0 THEN r ELSE Descend(f[k - 1], s[k])]
           done == CHOOSE f : Is(f)
<1>1. Each(Descend, r, s) = done[Len(s)]
  BY DEF Each
<1>2. Len(s) = 2 /\ s[1] = 1 /\ s[2] = 2
  <2>1. s \in [1 .. 2 -> Nat]
    OBVIOUS
  <2> HIDE DEF s
  <2>2. Len(s) = 2
    BY <2>1, FcnIsSeq
  <2> QED
    BY <2>2 DEF s
<1>3. \E f : Is(f)
  <2> DEFINE g == [k \in 0 .. 2 |-> IF k = 0 THEN r ELSE IF k = 1 THEN Descend(r, 1)
                                    ELSE Descend(Descend(r, 1), 2)]
  <2>1. \A k \in 0 .. 2 : g[k] = IF k = 0 THEN r ELSE Descend(g[k - 1], s[k])
    <3>1. g[0] = r /\ g[1] = Descend(r, 1) /\ g[2] = Descend(Descend(r, 1), 2)
      OBVIOUS
    <3>2. \A k \in 0 .. 2 : k = 0 \/ (k = 1 /\ k - 1 = 0) \/ (k = 2 /\ k - 1 = 1)
      OBVIOUS
    <3> HIDE DEF g, s
    <3> QED
      BY <1>2, <3>1, <3>2
  <2>2. Is(g)
    <3> HIDE DEF s
    <3> QED
      BY <1>2, <2>1
  <2> QED
    BY <2>2
<1>4. Is(done)
  <2> HIDE DEF Is
  <2> QED
    BY <1>3
<1>5. \A k \in 0 .. 2 : done[k] = IF k = 0 THEN r ELSE Descend(done[k - 1], s[k])
  <2> HIDE DEF done, s
  <2> QED
    BY <1>2, <1>4
<1>6. done[2] = Descend(Descend(r, 1), 2)
  <2>1. 0 \in 0 .. 2 /\ 1 \in 0 .. 2 /\ 2 \in 0 .. 2 /\ 1 - 1 = 0 /\ 2 - 1 = 1
    OBVIOUS
  <2> HIDE DEF done, s, Is
  <2>2. done[0] = r
    BY <1>5, <2>1
  <2>3. done[1] = Descend(done[0], s[1])
    BY <1>5, <2>1
  <2>4. done[2] = Descend(done[1], s[2])
    BY <1>5, <2>1
  <2> QED
    BY <1>2, <2>2, <2>3, <2>4
<1> QED
  BY <1>1, <1>2, <1>6

\* The block to be added is the first below the index block of this level.
AllFirst(at, level) == \A j \in level .. Len(at) : at[j] = 0

(* What Descend does at one level: nothing unless the block to be added is *)
(* the first below its index block; else the index block is there, or no   *)
(* block was left.                                                         *)
LEMMA DescendCases ==
    ASSUME NEW r \in Opens, r.ok, NEW level \in {1, 2},
           NEW root, NEW at, Path(r.inode.num_blocks) = [root |-> root, at |-> at],
           NEW new, new = Descend(r, level)
    PROVE  /\ ~ AllFirst(at, level) => new = r
           /\ AllFirst(at, level) /\ FreeOf(r.dev) = {} => new.dev = r.dev /\ new.inode = r.inode /\ ~ new.ok
           /\ AllFirst(at, level) /\ FreeOf(r.dev) # {} /\ level = 1 =>
                 /\ new.dev = Take(r.dev) /\ new.ok
                 /\ new.inode = [r.inode EXCEPT ![root] = NextFree(r.dev)]
           /\ AllFirst(at, level) /\ FreeOf(r.dev) # {} /\ level = 2 =>
                 /\ new.dev = Store(Take(r.dev),
                                    Follow(r.dev.words, r.inode, root, SubSeq(SubSeq(at, 1, 1), 1, 0)),
                                    SubSeq(at, 1, 1)[1], NextFree(r.dev))
                 /\ new.ok /\ new.inode = r.inode
           /\ new.dev \in Devices /\ new.inode \in Inodes => new \in Opens
<1> DEFINE first == AllFirst(at, level)
           p == Path(r.inode.num_blocks)
           above == SubSeq(at, 1, level - 1)
           b == NextFree(r.dev)
           c == Follow(r.dev.words, r.inode, root, SubSeq(above, 1, level - 2))
           none == FreeOf(r.dev) = {}
           x == Take(r.dev)
           y == Store(Take(r.dev), c, above[level - 1], b)
<1>1. p.root = root /\ p.at = at
  OBVIOUS
<1>2. /\ ~ first => new = r
      /\ first /\ none => new = [r EXCEPT !.ok = FALSE]
      /\ first /\ ~ none /\ level = 1 => new = [r EXCEPT !.dev = x, !.inode[root] = b]
      /\ first /\ ~ none /\ level > 1 => new = [r EXCEPT !.dev = y]
  <2> HIDE DEF p, above, b, c
  <2>1. Descend(r, level) =
          CASE ~ r.ok \/ ~ first -> r
            [] r.ok /\ first /\ FreeOf(r.dev) = {} -> [r EXCEPT !.ok = FALSE]
            [] r.ok /\ first /\ FreeOf(r.dev) # {} /\ level = 1 -> [r EXCEPT !.dev = x, !.inode[root] = b]
            [] r.ok /\ first /\ FreeOf(r.dev) # {} /\ level > 1 -> [r EXCEPT !.dev = y]
    BY <1>1 DEF Descend, p, above, b, c, AllFirst
  <2> HIDE DEF x, y
  <2> QED
    BY <2>1
<1> HIDE DEF x, y, none, first
<1>3. first /\ none => new.dev = r.dev /\ new.inode = r.inode /\ ~ new.ok
  BY <1>2 DEF Opens
<1>4. first /\ ~ none /\ level = 1 =>
         new.dev = x /\ new.ok /\ new.inode = [r.inode EXCEPT ![root] = b]
  <2> HIDE DEF b
  <2> SUFFICES ASSUME first, ~ none, level = 1
               PROVE  new.dev = x /\ new.ok /\ new.inode = [r.inode EXCEPT ![root] = b]
    OBVIOUS
  <2>1. new = [r EXCEPT !.dev = x, !.inode[root] = b]
    BY <1>2
  <2>2. new.dev = x /\ new.ok = r.ok /\ new.inode = [r.inode EXCEPT ![root] = b]
    BY <2>1 DEF Opens
  <2> QED
    BY <2>2
<1>5. first /\ ~ none /\ level = 2 => new.dev = y /\ new.ok /\ new.inode = r.inode
  <2> SUFFICES ASSUME first, ~ none, level = 2
               PROVE  new.dev = y /\ new.ok /\ new.inode = r.inode
    OBVIOUS
  <2>0. level > 1
    OBVIOUS
  <2>1. new = [r EXCEPT !.dev = y]
    BY <1>2, <2>0
  <2>2. new.dev = y /\ new.ok = r.ok /\ new.inode = r.inode
    BY <2>1 DEF Opens
  <2> QED
    BY <2>2
<1>6. new.dev \in Devices /\ new.inode \in Inodes => new \in Opens
  <2> HIDE DEF b
  <2> SUFFICES ASSUME new.dev \in Devices, new.inode \in Inodes
               PROVE  new \in Opens
    OBVIOUS
  <2>1. CASE ~ first
    BY <1>2, <2>1
  <2>2. CASE first /\ none
    BY <1>2, <2>2 DEF Opens
  <2>3. CASE first /\ ~ none /\ level = 1
    BY <1>2, <2>3 DEF Opens
  <2>4. CASE first /\ ~ none /\ level = 2
    BY <1>2, <2>4 DEF Opens
  <2> QED
    BY <2>1, <2>2, <2>3, <2>4
<1>7. level = 2 => level - 1 = 1 /\ level - 2 = 0
  OBVIOUS
<1> QED
  BY <1>2, <1>3, <1>4, <1>5, <1>6, <1>7 DEF x, y, none, first

\* The slots above an entry of an index block below the double indirect block.
LEMMA AboveSlots ==
    ASSUME NEW i \in Nat, NEW j \in Nat
    PROVE  SubSeq(<<i, j>>, 1, 1) = <<i>> /\ SubSeq(<<i>>, 1, 0) = <<>>
<1>1. <<i, j>> \in Seq(Nat) /\ <<i>> \in Seq(Nat) /\ Len(<<i>>) = 1 /\ <<i, j>>[1] = i
  OBVIOUS
<1>2. /\ SubSeq(<<i, j>>, 1, 1) \in Seq(Nat) /\ Len(SubSeq(<<i, j>>, 1, 1)) = 1
      /\ SubSeq(<<i, j>>, 1, 1)[1] = i
  BY <1>1
<1>3. \A x \in 1 .. 1 : x = 1
  OBVIOUS
<1>4. SubSeq(<<i, j>>, 1, 1) = <<i>>
  <2> DEFINE s == SubSeq(<<i, j>>, 1, 1)
             u == <<i>>
  <2>1. s \in Seq(Nat) /\ u \in Seq(Nat) /\ Len(s) = 1 /\ Len(u) = 1 /\ s[1] = u[1]
    BY <1>1, <1>2
  <2>2. \A x \in 1 .. Len(s) : s[x] = u[x]
    BY <1>3, <2>1
  <2> HIDE DEF s, u
  <2>3. s = u
    BY <2>1, <2>2, SeqEqual
  <2> QED
    BY <2>3 DEF s, u
<1> QED
  BY <1>1, <1>4

\* At the first level, the index block is a pointer of the inode.
LEMMA DescendFirst ==
    ASSUME NEW r \in Opens, r.ok, NEW root, NEW at,
           Path(r.inode.num_blocks) = [root |-> root, at |-> at],
           NEW new, new = Descend(r, 1)
    PROVE  /\ ~ AllFirst(at, 1) => new = r
           /\ AllFirst(at, 1) /\ FreeOf(r.dev) = {} =>
                 new.dev = r.dev /\ new.inode = r.inode /\ ~ new.ok
           /\ AllFirst(at, 1) /\ FreeOf(r.dev) # {} =>
                 /\ new.dev = Take(r.dev) /\ new.ok
                 /\ new.inode = [r.inode EXCEPT ![root] = NextFree(r.dev)]
           /\ new.dev \in Devices /\ new.inode \in Inodes => new \in Opens
<1>1. 1 \in {1, 2}
  OBVIOUS
<1> QED
  BY <1>1, DescendCases

\* At the second, it is an entry of the double indirect block.
LEMMA DescendSecond ==
    ASSUME NEW r \in Opens, r.ok, NEW i \in Nat, NEW j \in Nat,
           Path(r.inode.num_blocks) = [root |-> "double", at |-> <<i, j>>],
           NEW new, new = Descend(r, 2)
    PROVE  /\ j # 0 => new = r
           /\ j = 0 /\ FreeOf(r.dev) = {} => new.dev = r.dev /\ new.inode = r.inode /\ ~ new.ok
           /\ j = 0 /\ FreeOf(r.dev) # {} =>
                 /\ new.dev = Store(Take(r.dev), r.inode.double, i, NextFree(r.dev)) /\ new.ok
                 /\ new.inode = r.inode
           /\ new.dev \in Devices /\ new.inode \in Inodes => new \in Opens
<1> DEFINE at == <<i, j>>
           above == SubSeq(at, 1, 1)
           c == Follow(r.dev.words, r.inode, "double", SubSeq(above, 1, 0))
<1>1. AllFirst(at, 2) <=> j = 0
  <2>1. Len(at) = 2 /\ at[2] = j
    OBVIOUS
  <2>2. 2 .. 2 = {2}
    OBVIOUS
  <2> HIDE DEF at
  <2> QED
    BY <2>1, <2>2 DEF AllFirst
<1>2. above = <<i>> /\ SubSeq(above, 1, 0) = <<>> /\ above[1] = i
  BY AboveSlots
<1>3. c = r.inode.double
  <2>1. Follow(r.dev.words, r.inode, "double", <<>>) = r.inode["double"]
    BY FollowNone
  <2> QED
    BY <1>2, <2>1
<1>4. 2 \in {1, 2} /\ Path(r.inode.num_blocks) = [root |-> "double", at |-> at]
  OBVIOUS
<1> HIDE DEF at
<1>5. /\ ~ AllFirst(at, 2) => new = r
      /\ AllFirst(at, 2) /\ FreeOf(r.dev) = {} =>
            new.dev = r.dev /\ new.inode = r.inode /\ ~ new.ok
      /\ AllFirst(at, 2) /\ FreeOf(r.dev) # {} =>
            /\ new.dev = Store(Take(r.dev), c, above[1], NextFree(r.dev)) /\ new.ok
            /\ new.inode = r.inode
      /\ new.dev \in Devices /\ new.inode \in Inodes => new \in Opens
  BY <1>4, DescendCases
<1> QED
  BY <1>1, <1>2, <1>3, <1>5

(* What AddNewBlock has reached, from r0 on, with the spots S in use and   *)
(* the blocks L taken but not yet in the tree.                             *)
Reached(r0, r, W0, S, disk, V, m, L, exact) ==
    LET n == r0.inode.num_blocks
    IN  /\ r \in Opens
        /\ r.inode.num_blocks = n /\ r.inode.file_size = r0.inode.file_size
        /\ r.inode.triple = r0.inode.triple
        /\ Live(n) \subseteq S
        /\ Keeps(r0.dev, r0.inode, Live(n), disk, Live(m), r.dev, r.inode)
        /\ \E W : W0 \subseteq W /\ Stage(r.dev, r.inode, W, S, disk, V, Live(m), L, exact)

\* Reached, when another block is taken.
LEMMA ReachedTake ==
    ASSUME NEW r0, NEW r, NEW W0, NEW S, NEW disk, NEW V, NEW m, NEW L, NEW exact,
           Reached(r0, r, W0, S, disk, V, m, L, exact), FreeOf(r.dev) # {},
           NEW new \in Opens, new.dev = Take(r.dev), new.inode = r.inode
    PROVE  /\ Reached(r0, new, W0, S, disk, V, m, L \cup {NextFree(r.dev)}, exact)
           /\ NextFree(r.dev) \in Blocks \ L
<1>1. PICK W : W0 \subseteq W /\ Stage(r.dev, r.inode, W, S, disk, V, Live(m), L, exact)
  BY DEF Reached
<1>2. /\ Stage(new.dev, new.inode, W, S, disk, V, Live(m), L \cup {NextFree(r.dev)}, exact)
      /\ Keeps(r.dev, r.inode, S, disk, Live(m), new.dev, new.inode)
      /\ NextFree(r.dev) \in Blocks \ L
  BY <1>1, StageTake
<1>3. Keeps(r0.dev, r0.inode, Live(r0.inode.num_blocks), disk, Live(m), new.dev, new.inode)
  BY <1>2, KeepsTwice DEF Reached
<1> QED
  BY <1>1, <1>2, <1>3 DEF Reached

\* A single or double indirect block is made for the inode.
LEMMA ReachedRoot ==
    ASSUME NEW r0, NEW r, NEW W0, NEW S, NEW disk, NEW V, NEW m, NEW L, NEW exact,
           Reached(r0, r, W0, S, disk, V, m, L, exact),
           NEW k \in Roots, k \notin S \cup Live(m), Below(k) \cap (S \cup Live(m)) = {}, NEW b \in L,
           NEW new \in Opens, new.dev = r.dev, At(r.dev.words, new.inode, k) = b,
           \A q \in Roots \ {k} : At(r.dev.words, new.inode, q) = At(r.dev.words, r.inode, q),
           new.inode.num_blocks = r.inode.num_blocks, new.inode.file_size = r.inode.file_size,
           new.inode.triple = r.inode.triple
    PROVE  Reached(r0, new, W0, S \cup {k}, disk, V, m, L \ {b}, exact)
<1>1. PICK W : W0 \subseteq W /\ Stage(r.dev, r.inode, W, S, disk, V, Live(m), L, exact)
  BY DEF Reached
<1>2. new.inode \in Inodes
  BY DEF Opens
<1>3. /\ Stage(new.dev, new.inode, W \cup {k}, S \cup {k}, disk, V, Live(m), L \ {b}, exact)
      /\ Keeps(r.dev, r.inode, S, disk, Live(m), new.dev, new.inode)
  BY <1>1, <1>2, StageRoot
<1>4. Keeps(r0.dev, r0.inode, Live(r0.inode.num_blocks), disk, Live(m), new.dev, new.inode)
  BY <1>3, KeepsTwice DEF Reached
<1>5. W0 \subseteq W \cup {k} /\ Live(r0.inode.num_blocks) \subseteq S \cup {k}
  BY <1>1 DEF Reached
<1> QED
  BY <1>3, <1>4, <1>5 DEF Reached

\* A slot of an index block of the tree is filled.
LEMMA ReachedSlot ==
    ASSUME NEW r0, NEW r, NEW W0, NEW S, NEW disk, NEW V, NEW m, NEW L, NEW exact,
           Reached(r0, r, W0, S, disk, V, m, L, exact),
           NEW k \in Spots \ Roots, k \notin S \cup Live(m), Below(k) \cap (S \cup Live(m)) = {},
           Above(k) \in S, NEW b \in L,
           NEW new \in Opens, new.inode = r.inode,
           new.dev = Store(r.dev, At(r.dev.words, r.inode, Above(k)), SlotOf(k), b)
    PROVE  Reached(r0, new, W0, S \cup {k}, disk, V, m, L \ {b}, exact)
<1>1. PICK W : W0 \subseteq W /\ Stage(r.dev, r.inode, W, S, disk, V, Live(m), L, exact)
  BY DEF Reached
<1>2. /\ Stage(new.dev, new.inode, W \cup {k}, S \cup {k}, disk, V, Live(m), L \ {b}, exact)
      /\ Keeps(r.dev, r.inode, S, disk, Live(m), new.dev, new.inode)
  BY <1>1, StageSlot
<1>3. Keeps(r0.dev, r0.inode, Live(r0.inode.num_blocks), disk, Live(m), new.dev, new.inode)
  BY <1>2, KeepsTwice DEF Reached
<1>4. W0 \subseteq W \cup {k} /\ Live(r0.inode.num_blocks) \subseteq S \cup {k}
  BY <1>1 DEF Reached
<1> QED
  BY <1>2, <1>3, <1>4 DEF Reached

\* Taking a block leaves a device.
LEMMA TakeTyped ==
    ASSUME NEW dev \in Devices, FreeOf(dev) # {}
    PROVE  Take(dev) \in Devices /\ NextFree(dev) \in Blocks
<1>1. NextFree(dev) \in Blocks
  BY DEF NextFree, FreeOf
<1>2. dev.file \in Owners
  BY DEF Devices, Owners
<1> HIDE DEF Owners, Words
<1> QED
  BY <1>1, <1>2 DEF Take, Devices

\* Writing a block number leaves a device.
LEMMA StoreTyped ==
    ASSUME NEW dev \in Devices, NEW b \in Blocks, NEW i \in Slots, NEW w \in Words
    PROVE  Store(dev, b, i, w) \in Devices
<1>1. dev.words[b] \in [Slots -> Words]
  BY DEF Devices
<1>2. [dev.words[b] EXCEPT ![i] = w] \in [Slots -> Words]
  BY <1>1
<1>3. [dev.words EXCEPT ![b] = [dev.words[b] EXCEPT ![i] = w]] \in [Blocks -> [Slots -> Words]]
  BY <1>2 DEF Devices
<1>4. Store(dev, b, i, w) = [dev EXCEPT !.words = [dev.words EXCEPT ![b] = [dev.words[b] EXCEPT ![i] = w]]]
  BY DEF Store
<1> QED
  BY <1>3, <1>4 DEF Devices

\* A pointer of an inode is replaced.
LEMMA RootTyped ==
    ASSUME NEW inode \in Inodes, NEW b \in Words
    PROVE  /\ [inode EXCEPT !["single"] = b] \in Inodes
           /\ [inode EXCEPT !["double"] = b] \in Inodes
           /\ \A root \in {"single", "double"} :
                 LET new == [inode EXCEPT ![root] = b]
                     k == IF root = "single" THEN SingleSpot ELSE DoubleSpot
                 IN  /\ new.num_blocks = inode.num_blocks /\ new.file_size = inode.file_size
                     /\ new.triple = inode.triple
                     /\ \A wds : At(wds, new, k) = b
                     /\ \A wds : \A q \in Roots \ {k} : At(wds, new, q) = At(wds, inode, q)
<1>1. [inode EXCEPT !["single"] = b] \in Inodes /\ [inode EXCEPT !["double"] = b] \in Inodes
  BY DEF Inodes
<1>2. ASSUME NEW new, new = [inode EXCEPT !["single"] = b]
      PROVE  /\ new.num_blocks = inode.num_blocks /\ new.file_size = inode.file_size
             /\ new.triple = inode.triple
             /\ \A wds : At(wds, new, SingleSpot) = b
             /\ \A wds : \A q \in Roots \ {SingleSpot} : At(wds, new, q) = At(wds, inode, q)
  <2>1. /\ new.direct = inode.direct /\ new.single = b /\ new.double = inode.double
        /\ new.num_blocks = inode.num_blocks /\ new.file_size = inode.file_size
        /\ new.triple = inode.triple
    BY <1>2 DEF Inodes
  <2>2. ASSUME NEW wds, NEW q \in Roots \ {SingleSpot}
        PROVE  At(wds, new, q) = At(wds, inode, q)
    BY <2>1, RootCases, AtDirect, AtDouble
  <2> QED
    BY <2>1, <2>2, AtSingle
<1>3. ASSUME NEW new, new = [inode EXCEPT !["double"] = b]
      PROVE  /\ new.num_blocks = inode.num_blocks /\ new.file_size = inode.file_size
             /\ new.triple = inode.triple
             /\ \A wds : At(wds, new, DoubleSpot) = b
             /\ \A wds : \A q \in Roots \ {DoubleSpot} : At(wds, new, q) = At(wds, inode, q)
  <2>1. /\ new.direct = inode.direct /\ new.double = b /\ new.single = inode.single
        /\ new.num_blocks = inode.num_blocks /\ new.file_size = inode.file_size
        /\ new.triple = inode.triple
    BY <1>3 DEF Inodes
  <2>2. ASSUME NEW wds, NEW q \in Roots \ {DoubleSpot}
        PROVE  At(wds, new, q) = At(wds, inode, q)
    BY <2>1, RootCases, AtDirect, AtSingle
  <2> QED
    BY <2>1, <2>2, AtDouble
<1>4. ASSUME NEW root \in {"single", "double"}
      PROVE  LET new == [inode EXCEPT ![root] = b]
                 k == IF root = "single" THEN SingleSpot ELSE DoubleSpot
             IN  /\ new.num_blocks = inode.num_blocks /\ new.file_size = inode.file_size
                 /\ new.triple = inode.triple
                 /\ \A wds : At(wds, new, k) = b
                 /\ \A wds : \A q \in Roots \ {k} : At(wds, new, q) = At(wds, inode, q)
  <2>1. CASE root = "single"
    BY <1>2, <2>1
  <2>2. CASE root = "double"
    BY <1>3, <2>2
  <2> QED
    BY <2>1, <2>2
<1> QED
  BY <1>1, <1>4

\* The first level of the descent.
LEMMA LevelOne ==
    ASSUME NEW r0, NEW r, NEW W0, NEW S, NEW disk, NEW V, NEW m, NEW L, NEW exact,
           Reached(r0, r, W0, S, disk, V, m, L, exact), r.ok,
           NEW root \in {"single", "double"}, NEW at,
           Path(r.inode.num_blocks) = [root |-> root, at |-> at],
           NEW k, k = IF root = "single" THEN SingleSpot ELSE DoubleSpot,
           AllFirst(at, 1) => k \notin S \cup Live(m) /\ Below(k) \cap (S \cup Live(m)) = {},
           NEW new, new = Descend(r, 1)
    PROVE  /\ ~ AllFirst(at, 1) => new = r
           /\ AllFirst(at, 1) /\ new.ok => Reached(r0, new, W0, S \cup {k}, disk, V, m, L, exact)
           /\ AllFirst(at, 1) /\ ~ new.ok => Reached(r0, new, W0, S, disk, V, m, L, exact)
<1> DEFINE b == NextFree(r.dev)
<1>1. r \in Opens /\ r.dev \in Devices /\ r.inode \in Inodes
  BY DEF Reached, Opens
<1>2. /\ ~ AllFirst(at, 1) => new = r
      /\ AllFirst(at, 1) /\ FreeOf(r.dev) = {} => new.dev = r.dev /\ new.inode = r.inode /\ ~ new.ok
      /\ AllFirst(at, 1) /\ FreeOf(r.dev) # {} =>
            new.dev = Take(r.dev) /\ new.ok /\ new.inode = [r.inode EXCEPT ![root] = b]
      /\ new.dev \in Devices /\ new.inode \in Inodes => new \in Opens
  BY <1>1, DescendFirst
<1>3. CASE AllFirst(at, 1) /\ FreeOf(r.dev) = {}
  <2>1. new.dev = r.dev /\ new.inode = r.inode /\ ~ new.ok /\ new \in Opens
    BY <1>1, <1>2, <1>3
  <2>2. Reached(r0, new, W0, S, disk, V, m, L, exact)
    BY <2>1 DEF Reached
  <2> QED
    BY <1>3, <2>1, <2>2
<1>4. CASE AllFirst(at, 1) /\ FreeOf(r.dev) # {}
  <2>1. Take(r.dev) \in Devices /\ b \in Blocks /\ b \in Words
    BY <1>1, <1>4, TakeTyped DEF Words
  <2> DEFINE mid == [dev |-> Take(r.dev), inode |-> r.inode, ok |-> TRUE]
  <2>2. mid \in Opens /\ mid.dev = Take(r.dev) /\ mid.inode = r.inode
    BY <1>1, <2>1 DEF Opens
  <2> HIDE DEF mid, b
  <2>3. Reached(r0, mid, W0, S, disk, V, m, L \cup {b}, exact) /\ b \notin L
    BY <1>4, <2>2, ReachedTake DEF b
  <2>4. /\ new.dev = mid.dev /\ new.ok /\ new.inode = [mid.inode EXCEPT ![root] = b]
        /\ mid.inode \in Inodes
    BY <1>1, <1>2, <1>4, <2>2 DEF b
  <2>5. /\ new.inode \in Inodes /\ new.inode.num_blocks = mid.inode.num_blocks
        /\ new.inode.file_size = mid.inode.file_size /\ new.inode.triple = mid.inode.triple
        /\ At(mid.dev.words, new.inode, k) = b
        /\ \A q \in Roots \ {k} : At(mid.dev.words, new.inode, q) = At(mid.dev.words, mid.inode, q)
    <3>1. new.inode \in Inodes
      <4>1. [mid.inode EXCEPT !["single"] = b] \in Inodes /\ [mid.inode EXCEPT !["double"] = b] \in Inodes
        BY <2>1, <2>4, RootTyped
      <4> QED
        BY <2>4, <4>1
    <3>2. LET X == [mid.inode EXCEPT ![root] = b]
              q0 == IF root = "single" THEN SingleSpot ELSE DoubleSpot
          IN  /\ X.num_blocks = mid.inode.num_blocks /\ X.file_size = mid.inode.file_size
              /\ X.triple = mid.inode.triple
              /\ \A wds : At(wds, X, q0) = b
              /\ \A wds : \A q \in Roots \ {q0} : At(wds, X, q) = At(wds, mid.inode, q)
      BY <2>1, <2>4, RootTyped
    <3> QED
      BY <2>4, <3>1, <3>2
  <2>6. new \in Opens
    BY <1>2, <2>1, <2>2, <2>4, <2>5
  <2>7. k \in Roots /\ k \notin S \cup Live(m) /\ Below(k) \cap (S \cup Live(m)) = {}
    BY <1>4, SpotsAre
  <2>8. Reached(r0, new, W0, S \cup {k}, disk, V, m, (L \cup {b}) \ {b}, exact)
    BY <2>3, <2>4, <2>5, <2>6, <2>7, ReachedRoot
  <2>9. (L \cup {b}) \ {b} = L
    BY <2>3
  <2> QED
    BY <1>4, <2>4, <2>8, <2>9
<1> QED
  BY <1>2, <1>3, <1>4

\* Block n is found in slot j of the index block in slot i of the double one.
UnderDouble(n, i, j) == Path(n) = [root |-> "double", at |-> <<i, j>>]

\* The second level: an index block below the double indirect block.
LEMMA LevelTwo ==
    ASSUME NEW r0, NEW r, NEW W0, NEW S, NEW disk, NEW V, NEW m, NEW L, NEW exact,
           Reached(r0, r, W0, S, disk, V, m, L, exact), r.ok,
           NEW i \in Slots, NEW j \in Slots,
           UnderDouble(r.inode.num_blocks, i, j), DoubleSpot \in S,
           j = 0 => /\ InDouble(i) \notin S \cup Live(m)
                    /\ Below(InDouble(i)) \cap (S \cup Live(m)) = {},
           NEW new, new = Descend(r, 2)
    PROVE  /\ j # 0 => new = r
           /\ j = 0 /\ new.ok => Reached(r0, new, W0, S \cup {InDouble(i)}, disk, V, m, L, exact)
           /\ j = 0 /\ ~ new.ok => Reached(r0, new, W0, S, disk, V, m, L, exact)
<1> DEFINE b == NextFree(r.dev)
           k == InDouble(i)
<1>1. r \in Opens /\ r.dev \in Devices /\ r.inode \in Inodes
  BY DEF Reached, Opens
<1>2. /\ j # 0 => new = r
      /\ j = 0 /\ FreeOf(r.dev) = {} => new.dev = r.dev /\ new.inode = r.inode /\ ~ new.ok
      /\ j = 0 /\ FreeOf(r.dev) # {} =>
            /\ new.dev = Store(Take(r.dev), r.inode.double, i, b) /\ new.ok
            /\ new.inode = r.inode
      /\ new.dev \in Devices /\ new.inode \in Inodes => new \in Opens
  <2>1. i \in Nat /\ j \in Nat
    BY ShapeFacts
  <2> QED
    BY <1>1, <2>1, DescendSecond DEF UnderDouble
<1>3. CASE j = 0 /\ FreeOf(r.dev) = {}
  <2>1. new.dev = r.dev /\ new.inode = r.inode /\ ~ new.ok /\ new \in Opens
    BY <1>1, <1>2, <1>3
  <2>2. Reached(r0, new, W0, S, disk, V, m, L, exact)
    BY <2>1 DEF Reached
  <2> QED
    BY <1>3, <2>1, <2>2
<1>4. CASE j = 0 /\ FreeOf(r.dev) # {}
  <2>1. Take(r.dev) \in Devices /\ b \in Blocks /\ b \in Words
    BY <1>1, <1>4, TakeTyped DEF Words
  <2> DEFINE mid == [dev |-> Take(r.dev), inode |-> r.inode, ok |-> TRUE]
  <2>2. mid \in Opens /\ mid.dev = Take(r.dev) /\ mid.inode = r.inode
    BY <1>1, <2>1 DEF Opens
  <2> HIDE DEF mid, b
  <2>3. Reached(r0, mid, W0, S, disk, V, m, L \cup {b}, exact) /\ b \notin L
    BY <1>4, <2>2, ReachedTake DEF b
  <2>4. Above(k) = DoubleSpot /\ SlotOf(k) = i /\ k \in Spots \ Roots
    BY SpotsAre
  <2>5. At(mid.dev.words, mid.inode, Above(k)) = mid.inode.double
    BY <2>4, AtDouble
  <2>6. mid.inode.double \in Blocks
    <3>1. At(mid.dev.words, mid.inode, DoubleSpot) # 0
      BY <2>3 DEF Reached, Stage
    <3> QED
      BY <1>1, <2>2, <2>4, <2>5, <3>1 DEF Inodes, Words
  <2>7. /\ new.dev = Store(mid.dev, At(mid.dev.words, mid.inode, Above(k)), SlotOf(k), b)
        /\ new.ok /\ new.inode = mid.inode
    BY <1>2, <1>4, <2>2, <2>4, <2>5 DEF b
  <2>8. new.dev \in Devices
    BY <2>1, <2>2, <2>4, <2>5, <2>6, <2>7, StoreTyped
  <2>9. new \in Opens
    BY <1>1, <1>2, <2>2, <2>7, <2>8
  <2>10. Above(k) \in S /\ k \notin S \cup Live(m) /\ Below(k) \cap (S \cup Live(m)) = {}
    BY <1>4, <2>4
  <2> HIDE DEF k
  <2>11. Reached(r0, new, W0, S \cup {k}, disk, V, m, (L \cup {b}) \ {b}, exact)
    BY <2>3, <2>4, <2>7, <2>9, <2>10, ReachedSlot
  <2>12. (L \cup {b}) \ {b} = L
    BY <2>3
  <2> QED
    BY <1>4, <2>7, <2>11, <2>12 DEF k
<1> QED
  BY <1>2, <1>3, <1>4

\* The kind of a spot is its first component.
LEMMA Heads ==
    /\ \A m : DirectSpot(m)[1] = "direct"
    /\ SingleSpot[1] = "single" /\ DoubleSpot[1] = "double"
    /\ \A i : InSingle(i)[1] = "in single"
    /\ \A i : InDouble(i)[1] = "in double"
    /\ \A i, j : BelowDouble(i, j)[1] = "below double"
<1>1. \A m : DirectSpot(m)[1] = "direct"
  BY DEF DirectSpot
<1>2. SingleSpot[1] = "single" /\ DoubleSpot[1] = "double"
  BY DEF SingleSpot, DoubleSpot
<1>3. \A i : InSingle(i)[1] = "in single"
  BY DEF InSingle
<1>4. \A i : InDouble(i)[1] = "in double"
  BY DEF InDouble
<1>5. \A i, j : BelowDouble(i, j)[1] = "below double"
  BY DEF BelowDouble
<1> QED
  BY <1>1, <1>2, <1>3, <1>4, <1>5

\* A path of one slot is new when the slot is 0.
LEMMA FirstOfOne ==
    ASSUME NEW x \in Nat
    PROVE  AllFirst(<<x>>, 1) <=> x = 0
<1>1. Len(<<x>>) = 1 /\ <<x>>[1] = x
  OBVIOUS
<1>2. 1 .. 1 = {1}
  OBVIOUS
<1> QED
  BY <1>1, <1>2 DEF AllFirst

\* A path of two slots, level by level.
LEMMA FirstOfTwo ==
    ASSUME NEW x \in Nat, NEW y \in Nat
    PROVE  AllFirst(<<x, y>>, 1) <=> x = 0 /\ y = 0
<1>1. Len(<<x, y>>) = 2 /\ <<x, y>>[1] = x /\ <<x, y>>[2] = y
  OBVIOUS
<1>2. 1 .. 2 = {1, 2}
  OBVIOUS
<1> QED
  BY <1>1, <1>2 DEF AllFirst

\* The spots in use when all index blocks above the n-th block are there.
Ready(n) == Live(n + 1) \ {Leaf(n)}

\* The spots that must be there before the n-th leaf is written.
LEMMA ReadyIs ==
    ASSUME NEW n \in Nat, n < Capacity
    PROVE  /\ n < D \/ (D < n /\ n < D + P) => Ready(n) = Live(n)
           /\ n = D => Ready(n) = Live(n) \cup {SingleSpot}
           /\ D + P <= n =>
                LET i == (n - D - P) \div P
                    j == (n - D - P) % P
                IN  /\ i \in Slots /\ j \in Slots
                    /\ j # 0 => Ready(n) = Live(n)
                    /\ j = 0 /\ i # 0 => Ready(n) = Live(n) \cup {InDouble(i)}
                    /\ j = 0 /\ i = 0 => Ready(n) = Live(n) \cup {DoubleSpot} \cup {InDouble(i)}
<1> DEFINE i == (n - D - P) \div P
           j == (n - D - P) % P
<1>1. \A k \in Spots : k \in Live(n + 1) <=> k \in Live(n) \/ Start(k) = n
  BY StartTyped DEF Live
<1>2. \A k \in Live(n) : Start(k) # n
  BY StartTyped DEF Live
<1>3. Leaf(n) \in Spots /\ Start(Leaf(n)) = n
  BY LeafFacts
<1>4. Live(n) \subseteq Spots /\ Live(n + 1) \subseteq Spots
  BY DEF Live
<1>5. Ready(n) = Live(n) \cup {k \in Spots : Start(k) = n /\ k # Leaf(n)}
  BY <1>1, <1>2, <1>3, <1>4 DEF Ready
<1>6. SingleSpot \in Spots /\ DoubleSpot \in Spots /\ Start(SingleSpot) = D /\ Start(DoubleSpot) = D + P
  BY SpotsAre, StartOf DEF Roots
<1>7. CASE n < D \/ (D < n /\ n < D + P)
  <2>1. n # D /\ n # D + P /\ ~ (D + P <= n)
    BY <1>7, ShapeFacts
  <2>2. \A k \in Spots : Start(k) = n => k = Leaf(n)
    BY <2>1, StartsAt
  <2> QED
    BY <1>5, <1>7, <2>1, <2>2
<1>8. CASE n = D
  <2>1. n # D + P /\ ~ (D + P <= n) /\ ~ (n < D)
    BY <1>8, ShapeFacts
  <2>2. \A k \in Spots : Start(k) = n => k = Leaf(n) \/ k = SingleSpot
    BY <2>1, StartsAt
  <2>3. SingleSpot # Leaf(n)
    BY <2>1 DEF Leaf, SingleSpot, InSingle, BelowDouble
  <2> QED
    BY <1>5, <1>6, <1>8, <2>1, <2>2, <2>3
<1>9. CASE D + P <= n
  <2>1. i \in Slots /\ j \in Slots /\ n = D + P + P * i + j
    BY <1>9, DigitsOf
  <2>2. i \in Nat /\ j \in Nat
    BY <2>1, ShapeFacts
  <2>3. n # D /\ ~ (n < D) /\ ~ (n < D + P)
    BY <1>9, ShapeFacts
  <2>4. j = 0 => (n = D + P <=> i = 0)
    <3> SUFFICES ASSUME j = 0
                 PROVE  n = D + P <=> i = 0
      OBVIOUS
    <3> HIDE DEF i, j
    <3>1. P * i = 0 <=> i = 0
      BY <2>2, ShapeFacts
    <3>2. P * i \in Nat
      BY <2>2, ShapeFacts
    <3> QED
      BY <2>1, <3>1, <3>2, ShapeFacts
  <2>5. j # 0 => n # D + P
    <3> HIDE DEF i, j
    <3>1. P * i \in Nat
      BY <2>2, ShapeFacts
    <3> QED
      BY <2>1, <2>2, <3>1, ShapeFacts
  <2>6. \A k \in Spots : Start(k) = n <=> k = Leaf(n) \/ (n = D + P /\ k = DoubleSpot)
                                          \/ (j = 0 /\ k = InDouble(i))
    BY <1>9, <2>3, StartsAt
  <2>7. Leaf(n) = BelowDouble(i, j)
    BY <2>3 DEF Leaf
  <2>8. Leaf(n) # DoubleSpot /\ Leaf(n) # InDouble(i)
    <3> HIDE DEF i, j
    <3>1. Leaf(n)[1] = "below double" /\ DoubleSpot[1] = "double" /\ InDouble(i)[1] = "in double"
      BY <2>7, Heads
    <3> QED
      BY <3>1
  <2>9. InDouble(i) \in Spots
    BY <2>1, SpotsAre
  <2> HIDE DEF i, j
  <2>10. j # 0 => Ready(n) = Live(n)
    BY <1>5, <2>5, <2>6
  <2>11. j = 0 /\ i # 0 => Ready(n) = Live(n) \cup {InDouble(i)}
    BY <1>5, <2>4, <2>6, <2>8, <2>9
  <2>12. j = 0 /\ i = 0 => Ready(n) = Live(n) \cup {DoubleSpot} \cup {InDouble(i)}
    BY <1>5, <1>6, <2>4, <2>6, <2>8, <2>9
  <2> QED
    BY <2>1, <2>3, <2>10, <2>11, <2>12 DEF i, j
<1> QED
  BY <1>7, <1>8, <1>9, ShapeFacts

\* A spot that comes into use with the n-th block is not in use before, nor is
\* what is below it.
LEMMA NotYet ==
    ASSUME NEW n \in Nat, NEW m \in Nat, m <= n, NEW k \in Spots, Start(k) = n, NEW X, X \subseteq Roots
    PROVE  /\ k \notin Live(n) \cup Live(m)
           /\ Below(k) \cap (Live(n) \cup X \cup Live(m)) = {}
<1>1. \A q \in Live(n) \cup Live(m) : Start(q) < n /\ Start(q) \in Nat
  BY StartTyped DEF Live
<1>2. \A q \in Below(k) : Start(q) >= n /\ Start(q) \in Nat /\ q \notin Roots
  BY BelowLater, StartTyped DEF Below
<1> QED
  BY <1>1, <1>2

\* The leaf of a block has nothing below it, and its index block is ready.
LEMMA LeafAbove ==
    ASSUME NEW n \in Nat, n < Capacity
    PROVE  /\ Below(Leaf(n)) = {} /\ Leaf(n) \in Spots
           /\ Leaf(n) \notin Roots => Above(Leaf(n)) \in Ready(n)
           /\ n < D => Leaf(n) = DirectSpot(n) /\ Leaf(n) \in Roots
           /\ ~ (n < D) => Leaf(n) \notin Roots
<1> DEFINE i == (n - D - P) \div P
           j == (n - D - P) % P
<1>1. Leaf(n) \in Spots /\ Start(Leaf(n)) = n
  BY LeafFacts
<1>2. n < D => Leaf(n) = DirectSpot(n) /\ Leaf(n) \in Roots
  <2>1. n < D => n \in 0 .. D - 1 /\ Leaf(n) = DirectSpot(n)
    BY ShapeFacts DEF Leaf
  <2> QED
    BY <2>1, SpotsAre
<1>3. D <= n /\ n < D + P => n - D \in Slots /\ Leaf(n) = InSingle(n - D)
  BY ShapeFacts DEF Leaf, Slots
<1>4. D + P <= n => i \in Slots /\ j \in Slots /\ Leaf(n) = BelowDouble(i, j)
  <2>1. D + P <= n => ~ (n < D) /\ ~ (n < D + P)
    BY ShapeFacts
  <2> QED
    BY <2>1, DigitsOf DEF Leaf
<1> HIDE DEF i, j
<1>5. n < D \/ (D <= n /\ n < D + P) \/ D + P <= n
  BY ShapeFacts
<1>6. ~ (n < D) => Leaf(n) \notin Roots
  BY <1>3, <1>4, <1>5, SpotsAre
<1>7. Below(Leaf(n)) = {}
  <2>1. \A q \in Spots \ Roots : Above(q) # Leaf(n)
    <3> TAKE q \in Spots \ Roots
    <3>1. Leaf(n)[1] \in {"direct", "in single", "below double"}
      BY <1>2, <1>3, <1>4, <1>5, Heads
    <3>2. Above(q) = SingleSpot \/ Above(q) = DoubleSpot \/ \E x \in Slots : Above(q) = InDouble(x)
      <4>1. q # SingleSpot /\ q # DoubleSpot /\ \A x \in 0 .. D - 1 : q # DirectSpot(x)
        BY SpotsAre
      <4> QED
        BY <4>1, SpotCases, SpotsAre
    <3>3. Above(q)[1] \in {"single", "double", "in double"}
      BY <3>2, Heads
    <3> QED
      BY <3>1, <3>3
  <2>2. \A q \in Spots \ Roots : Above(q) \notin Roots => Above(Above(q)) # Leaf(n)
    BY <2>1, AboveFacts
  <2> QED
    BY <2>1, <2>2 DEF Below
<1>8. Leaf(n) \notin Roots => Above(Leaf(n)) \in Ready(n)
  <2> SUFFICES ASSUME Leaf(n) \notin Roots
               PROVE  Above(Leaf(n)) \in Ready(n)
    OBVIOUS
  <2>1. Above(Leaf(n)) \in Spots /\ Start(Above(Leaf(n))) <= n /\ Start(Above(Leaf(n))) \in Nat
    BY <1>1, AboveFacts, StartAbove, StartTyped
  <2>2. Above(Leaf(n)) # Leaf(n)
    BY <1>1, AboveFacts
  <2> QED
    BY <2>1, <2>2 DEF Ready, Live
<1> QED
  BY <1>1, <1>2, <1>6, <1>7, <1>8

\* The way down to the block with which index blocks come into use.
DownTo(r) ==
    IF r.inode.num_blocks < D THEN r
    ELSE Each(Descend, r, [k \in 1 .. Len(Path(r.inode.num_blocks).at) |-> k])

\* The descent makes the index blocks that are missing, or runs out of blocks.
LEMMA DownReached ==
    ASSUME NEW r0, NEW r, NEW W0, NEW disk, NEW V, NEW m \in Nat, NEW L, NEW exact,
           r0.inode.num_blocks \in Nat, r0.inode.num_blocks < Capacity, m <= r0.inode.num_blocks,
           Reached(r0, r, W0, Live(r0.inode.num_blocks), disk, V, m, L, exact), r.ok,
           NEW down, down = DownTo(r)
    PROVE  /\ down.ok => Reached(r0, down, W0, Ready(r0.inode.num_blocks), disk, V, m, L, exact)
           /\ ~ down.ok => \E S : Reached(r0, down, W0, S, disk, V, m, L, exact)
<1> DEFINE n == r0.inode.num_blocks
           i == (n - D - P) \div P
           j == (n - D - P) % P
<1>1. n \in Nat /\ n < Capacity /\ m <= n /\ r.inode.num_blocks = n
  BY DEF Reached
<1>2. Reached(r0, r, W0, Live(n), disk, V, m, L, exact)
  OBVIOUS
<1> HIDE DEF n
<1>3. CASE n < D
  <2>1. down = r
    BY <1>1, <1>3 DEF DownTo
  <2>2. Ready(n) = Live(n)
    BY <1>1, <1>3, ReadyIs
  <2> QED
    BY <1>2, <2>1, <2>2 DEF n
<1>4. CASE D <= n /\ n < D + P
  <2> DEFINE at == <<n - D>>
  <2>1. Path(n) = [root |-> "single", at |-> at] /\ ~ (n < D) /\ n - D \in Nat
    BY <1>1, <1>4, PathOf, ShapeFacts
  <2>2. Len(at) = 1 /\ (AllFirst(at, 1) <=> n - D = 0)
    BY <2>1, FirstOfOne
  <2>3. n - D = 0 <=> n = D
    BY <1>1, ShapeFacts
  <2> HIDE DEF at
  <2>4. down = Descend(r, 1)
    <3>1. Path(n).at = at
      BY <2>1
    <3>2. DownTo(r) = Each(Descend, r, [k \in 1 .. 1 |-> k])
      BY <1>1, <2>1, <2>2, <3>1 DEF DownTo
    <3> QED
      BY <3>2, DescendOnce
  <2>5. Path(r.inode.num_blocks) = [root |-> "single", at |-> at]
    BY <1>1, <2>1
  <2>6. AllFirst(at, 1) => SingleSpot \notin Live(n) \cup Live(m)
                           /\ Below(SingleSpot) \cap (Live(n) \cup Live(m)) = {}
    <3> SUFFICES ASSUME n = D
                 PROVE  SingleSpot \notin Live(n) \cup Live(m)
                        /\ Below(SingleSpot) \cap (Live(n) \cup Live(m)) = {}
      BY <2>2, <2>3
    <3>1. SingleSpot \in Spots /\ Start(SingleSpot) = n
      BY SpotsAre, StartOf DEF Roots
    <3> QED
      BY <1>1, <3>1, NotYet
  <2> DEFINE k == SingleSpot
             root == "single"
  <2>7. k = IF root = "single" THEN SingleSpot ELSE DoubleSpot
    OBVIOUS
  <2>8. root \in {"single", "double"}
    OBVIOUS
  <2>9. /\ ~ AllFirst(at, 1) => down = r
        /\ AllFirst(at, 1) /\ down.ok => Reached(r0, down, W0, Live(n) \cup {k}, disk, V, m, L, exact)
        /\ AllFirst(at, 1) /\ ~ down.ok => Reached(r0, down, W0, Live(n), disk, V, m, L, exact)
    <3>1. Path(r.inode.num_blocks) = [root |-> root, at |-> at]
      BY <2>5
    <3>2. AllFirst(at, 1) => k \notin Live(n) \cup Live(m) /\ Below(k) \cap (Live(n) \cup Live(m)) = {}
      BY <2>6
    <3> HIDE DEF k, root
    <3> QED
      BY <1>2, <2>4, <2>7, <2>8, <3>1, <3>2, LevelOne
  <2>10. CASE AllFirst(at, 1)
    <3>1. Ready(n) = Live(n) \cup {k}
      BY <1>1, <2>2, <2>3, <2>10, ReadyIs
    <3> QED
      BY <2>9, <2>10, <3>1 DEF n
  <2>11. CASE ~ AllFirst(at, 1)
    <3>1. D < n
      BY <1>1, <1>4, <2>2, <2>3, <2>11, ShapeFacts
    <3>2. Ready(n) = Live(n)
      BY <1>1, <1>4, <3>1, ReadyIs
    <3> QED
      BY <1>2, <2>9, <2>11, <3>2 DEF n
  <2> QED
    BY <2>10, <2>11
<1>5. CASE D + P <= n
  <2> DEFINE at == <<i, j>>
             one == Descend(r, 1)
  <2>1. Path(n) = [root |-> "double", at |-> at] /\ ~ (n < D)
    BY <1>1, <1>5, PathOf, ShapeFacts
  <2>2. i \in Slots /\ j \in Slots /\ n = D + P + P * i + j
    BY <1>1, <1>5, DigitsOf
  <2>3. i \in Nat /\ j \in Nat
    BY <2>2, ShapeFacts
  <2> HIDE DEF i, j
  <2>4. Len(at) = 2 /\ (AllFirst(at, 1) <=> i = 0 /\ j = 0)
    BY <2>3, FirstOfTwo
  <2>5. Path(r.inode.num_blocks) = [root |-> "double", at |-> at]
    BY <1>1, <2>1
  <2> HIDE DEF at
  <2>6. down = Descend(one, 2)
    <3>1. Path(n).at = at
      BY <2>1
    <3>2. DownTo(r) = Each(Descend, r, [k \in 1 .. 2 |-> k])
      BY <1>1, <2>1, <2>4, <3>1 DEF DownTo
    <3> QED
      BY <3>2, DescendTwice
  <2>7. /\ j # 0 => Ready(n) = Live(n)
        /\ j = 0 /\ i # 0 => Ready(n) = Live(n) \cup {InDouble(i)}
        /\ j = 0 /\ i = 0 => Ready(n) = Live(n) \cup {DoubleSpot} \cup {InDouble(i)}
    BY <1>1, <1>5, ReadyIs DEF i, j
  <2>8. DoubleSpot \in Roots /\ DoubleSpot \in Spots /\ Start(DoubleSpot) = D + P
    BY SpotsAre, StartOf DEF Roots
  <2>9. InDouble(i) \in Spots /\ Start(InDouble(i)) = D + P + P * i /\ P * i \in Nat
        /\ InDouble(i) # DoubleSpot
    <3>1. InDouble(i) \in Spots /\ InDouble(i) # DoubleSpot
      BY <2>2, <2>8, SpotsAre
    <3>2. P * i \in Nat
      BY <2>3, ShapeFacts
    <3> QED
      BY <3>1, <3>2, StartOf
  <2>10. i = 0 /\ j = 0 => DoubleSpot \notin Live(n) \cup Live(m)
                           /\ Below(DoubleSpot) \cap (Live(n) \cup Live(m)) = {}
    <3> SUFFICES ASSUME i = 0, j = 0
                 PROVE  DoubleSpot \notin Live(n) \cup Live(m)
                        /\ Below(DoubleSpot) \cap (Live(n) \cup Live(m)) = {}
      OBVIOUS
    <3>1. P * 0 = 0
      BY ShapeFacts
    <3>2. Start(DoubleSpot) = n
      BY <2>2, <2>8, <3>1, ShapeFacts
    <3> QED
      BY <1>1, <2>8, <3>2, NotYet
  <2>11. ~ (i = 0 /\ j = 0) => DoubleSpot \in Live(n)
    <3> SUFFICES ASSUME i # 0 \/ j # 0
                 PROVE  DoubleSpot \in Live(n)
      OBVIOUS
    <3>1. i # 0 => P * i >= P
      BY <2>3, ShapeFacts
    <3>2. P * i + j > 0
      BY <2>3, <2>9, <3>1, ShapeFacts
    <3>3. D + P < n
      BY <2>2, <2>3, <2>9, <3>2, ShapeFacts
    <3> QED
      BY <2>8, <3>3 DEF Live
  <2>12. j = 0 => \A X : X \subseteq Roots =>
                    /\ InDouble(i) \notin Live(n) \cup X \cup Live(m)
                    /\ Below(InDouble(i)) \cap (Live(n) \cup X \cup Live(m)) = {}
    <3> SUFFICES ASSUME j = 0, NEW X, X \subseteq Roots
                 PROVE  /\ InDouble(i) \notin Live(n) \cup X \cup Live(m)
                        /\ Below(InDouble(i)) \cap (Live(n) \cup X \cup Live(m)) = {}
      OBVIOUS
    <3>1. Start(InDouble(i)) = n
      BY <2>2, <2>9, ShapeFacts
    <3>2. InDouble(i) \notin Roots
      BY <2>2, SpotsAre
    <3> QED
      BY <1>1, <2>9, <3>1, <3>2, NotYet
  <2>13. CASE i = 0 /\ j = 0
    <3> DEFINE k == DoubleSpot
               root == "double"
    <3>1. k = IF root = "single" THEN SingleSpot ELSE DoubleSpot
      OBVIOUS
    <3>2. /\ one.ok => Reached(r0, one, W0, Live(n) \cup {DoubleSpot}, disk, V, m, L, exact)
          /\ ~ one.ok => Reached(r0, one, W0, Live(n), disk, V, m, L, exact)
      <4>1. Path(r.inode.num_blocks) = [root |-> root, at |-> at] /\ root \in {"single", "double"}
        BY <2>5
      <4>2. AllFirst(at, 1)
        BY <2>4, <2>13
      <4>3. AllFirst(at, 1) => k \notin Live(n) \cup Live(m) /\ Below(k) \cap (Live(n) \cup Live(m)) = {}
        BY <2>10, <2>13
      <4>4. /\ AllFirst(at, 1) /\ one.ok => Reached(r0, one, W0, Live(n) \cup {k}, disk, V, m, L, exact)
            /\ AllFirst(at, 1) /\ ~ one.ok => Reached(r0, one, W0, Live(n), disk, V, m, L, exact)
        <5> HIDE DEF k, root
        <5> QED
          BY <1>2, <3>1, <4>1, <4>3, LevelOne
      <4> QED
        BY <4>2, <4>4
    <3>3. CASE ~ one.ok
      <4>1. down = one
        BY <2>6, <3>3 DEF Descend
      <4> QED
        BY <3>2, <3>3, <4>1
    <3>4. CASE one.ok
      <4> DEFINE S == Live(n) \cup {DoubleSpot}
      <4>1. UnderDouble(one.inode.num_blocks, i, j)
        BY <2>1, <3>2, <3>4 DEF Reached, n, at, UnderDouble
      <4>2. j = 0 => /\ InDouble(i) \notin S \cup Live(m)
                     /\ Below(InDouble(i)) \cap (S \cup Live(m)) = {}
        BY <2>8, <2>12
      <4>3. DoubleSpot \in S /\ Reached(r0, one, W0, S, disk, V, m, L, exact)
        BY <3>2, <3>4
      <4> HIDE DEF S
      <4>4. /\ j = 0 /\ down.ok => Reached(r0, down, W0, S \cup {InDouble(i)}, disk, V, m, L, exact)
            /\ j = 0 /\ ~ down.ok => Reached(r0, down, W0, S, disk, V, m, L, exact)
        BY <2>2, <2>6, <3>4, <4>1, <4>2, <4>3, LevelTwo
      <4>5. Ready(n) = S \cup {InDouble(i)}
        BY <2>7, <2>13 DEF S
      <4> QED
        BY <2>13, <4>4, <4>5 DEF n
    <3> QED
      BY <3>3, <3>4
  <2>14. CASE ~ (i = 0 /\ j = 0)
    <3> DEFINE k == DoubleSpot
               root == "double"
               S == Live(n)
    <3>1. one = r
      <4>1. ~ AllFirst(at, 1) /\ r \in Opens
        BY <1>2, <2>4, <2>14 DEF Reached
      <4> QED
        BY <2>5, <4>1, DescendFirst
    <3>2. UnderDouble(r.inode.num_blocks, i, j)
      BY <2>5 DEF at, UnderDouble
    <3>3. j = 0 => /\ InDouble(i) \notin S \cup Live(m)
                   /\ Below(InDouble(i)) \cap (S \cup Live(m)) = {}
      <4>1. {} \subseteq Roots /\ S \cup {} = S
        OBVIOUS
      <4> QED
        BY <2>12, <4>1
    <3>4. DoubleSpot \in S /\ Reached(r0, r, W0, S, disk, V, m, L, exact) /\ down = Descend(r, 2)
      BY <1>2, <2>6, <2>11, <2>14, <3>1
    <3> HIDE DEF S
    <3>5. /\ j # 0 => down = r
          /\ j = 0 /\ down.ok => Reached(r0, down, W0, S \cup {InDouble(i)}, disk, V, m, L, exact)
          /\ j = 0 /\ ~ down.ok => Reached(r0, down, W0, S, disk, V, m, L, exact)
      BY <2>2, <3>2, <3>3, <3>4, LevelTwo
    <3>6. IF j = 0 THEN Ready(n) = S \cup {InDouble(i)} ELSE Ready(n) = S
      BY <2>7, <2>14 DEF S
    <3> QED
      BY <3>4, <3>5, <3>6 DEF n
  <2> QED
    BY <2>13, <2>14
<1> QED
  BY <1>1, <1>3, <1>4, <1>5, ShapeFacts

\* write_dblock_to_inode writes at the leaf of the block.
LEMMA SetDirect ==
    ASSUME NEW r, NEW n \in Nat, n < Capacity, n < D, NEW b
    PROVE  SetBlock(r, n, b) = [r EXCEPT !.inode.direct[n] = b]
<1>1. Path(n) = [root |-> "direct", at |-> <<n>>]
  BY PathOf
<1>2. Path(n).root = "direct"
  BY <1>1
<1> QED
  BY <1>2 DEF SetBlock

\* The n-th block is written in a slot of the index block above it.
LEMMA SetSlot ==
    ASSUME NEW r \in Opens, NEW n \in Nat, n < Capacity, ~ (n < D), NEW b,
           NEW new, new = SetBlock(r, n, b)
    PROVE  /\ new.dev = Store(r.dev, At(r.dev.words, r.inode, Above(Leaf(n))), SlotOf(Leaf(n)), b)
           /\ new.inode = r.inode /\ new.ok = r.ok
           /\ new.dev \in Devices => new \in Opens
<1>0. ASSUME NEW dev, new = [r EXCEPT !.dev = dev]
      PROVE  /\ new.dev = dev /\ new.inode = r.inode /\ new.ok = r.ok
             /\ new.dev \in Devices => new \in Opens
  BY <1>0 DEF Opens
<1>2. CASE D <= n /\ n < D + P
  <2>1. Path(n) = [root |-> "single", at |-> <<n - D>>] /\ ~ (n < D) /\ n - D \in Nat
    BY <1>2, PathOf, ShapeFacts
  <2>2. Path(n).root = "single" /\ Path(n).at = <<n - D>> /\ Len(<<n - D>>) = 1 /\ <<n - D>>[1] = n - D
    BY <2>1
  <2>3. SubSeq(<<n - D>>, 1, 0) = <<>>
    BY <2>1, AboveSlots
  <2>4. Follow(r.dev.words, r.inode, "single", <<>>) = r.inode["single"]
    BY FollowNone
  <2>5. n - D \in Slots /\ Leaf(n) = InSingle(n - D)
    BY <1>2, <2>1, ShapeFacts DEF Leaf, Slots
  <2>6. Above(Leaf(n)) = SingleSpot /\ SlotOf(Leaf(n)) = n - D
    BY <2>5, SpotsAre
  <2>7. At(r.dev.words, r.inode, Above(Leaf(n))) = r.inode.single
    BY <2>6, AtSingle
  <2>8. SetBlock(r, n, b) = [r EXCEPT !.dev = Store(@, r.inode.single, n - D, b)]
    <3>1. 1 - 1 = 0
      OBVIOUS
    <3> QED
      BY <2>2, <2>3, <2>4, <3>1 DEF SetBlock
  <2> QED
    BY <1>0, <2>1, <2>6, <2>7, <2>8
<1>3. CASE D + P <= n
  <2> DEFINE i == (n - D - P) \div P
             j == (n - D - P) % P
  <2>1. Path(n) = [root |-> "double", at |-> <<i, j>>] /\ ~ (n < D) /\ ~ (n < D + P)
    BY <1>3, PathOf, ShapeFacts
  <2>2. i \in Slots /\ j \in Slots
    BY <1>3, DigitsOf
  <2>3. Leaf(n) = BelowDouble(i, j)
    BY <2>1 DEF Leaf
  <2> HIDE DEF i, j
  <2>4. i \in Nat /\ j \in Nat
    BY <2>2, ShapeFacts
  <2>5. Path(n).root = "double" /\ Path(n).at = <<i, j>> /\ Len(<<i, j>>) = 2 /\ <<i, j>>[2] = j
    BY <2>1
  <2>6. SubSeq(<<i, j>>, 1, 1) = <<i>>
    BY <2>4, AboveSlots
  <2>7. Follow(r.dev.words, r.inode, "double", <<i>>) = Entry(r.dev.words, r.inode["double"], i)
    BY FollowOne
  <2>8. Above(Leaf(n)) = InDouble(i) /\ SlotOf(Leaf(n)) = j
    BY <2>2, <2>3, SpotsAre
  <2>9. At(r.dev.words, r.inode, Above(Leaf(n))) = Entry(r.dev.words, r.inode.double, i)
    <3>1. InDouble(i) \in Spots \ Roots /\ Above(InDouble(i)) = DoubleSpot /\ SlotOf(InDouble(i)) = i
      BY <2>2, SpotsAre
    <3> QED
      BY <2>8, <3>1, AtBelow, AtDouble
  <2>10. SetBlock(r, n, b) = [r EXCEPT !.dev = Store(@, Entry(r.dev.words, r.inode["double"], i), j, b)]
    <3>1. 2 - 1 = 1
      OBVIOUS
    <3> QED
      BY <2>5, <2>6, <2>7, <3>1 DEF SetBlock
  <2> QED
    BY <1>0, <2>1, <2>8, <2>9, <2>10
<1> QED
  BY <1>2, <1>3, ShapeFacts

\* The new block becomes the leaf.
LEMMA SetReached ==
    ASSUME NEW r0, NEW r, NEW W0, NEW disk, NEW V, NEW m \in Nat, NEW exact, NEW b,
           r0.inode.num_blocks \in Nat, r0.inode.num_blocks < Capacity, m <= r0.inode.num_blocks,
           Reached(r0, r, W0, Ready(r0.inode.num_blocks), disk, V, m, {b}, exact), r.ok,
           NEW new, new = SetBlock(r, r0.inode.num_blocks, b)
    PROVE  /\ Reached(r0, new, W0, Live(r0.inode.num_blocks + 1), disk, V, m, {}, exact)
           /\ new.ok
<1> DEFINE n == r0.inode.num_blocks
           k == Leaf(n)
           S == Ready(n)
<1>1. n \in Nat /\ n < Capacity /\ m <= n
  OBVIOUS
<1>0. new = SetBlock(r, n, b)
  OBVIOUS
<1>2. Reached(r0, r, W0, S, disk, V, m, {b}, exact)
  OBVIOUS
<1> HIDE DEF n
<1>3. r \in Opens /\ r.dev \in Devices /\ r.inode \in Inodes
  BY <1>2 DEF Reached, Opens
<1>4. k \in Spots /\ Start(k) = n /\ Below(k) = {}
  BY <1>1, LeafFacts, LeafAbove
<1>5. k \notin S \cup Live(m) /\ Below(k) \cap (S \cup Live(m)) = {}
  <2>1. {} \subseteq Roots
    OBVIOUS
  <2>2. k \notin Live(m)
    BY <1>1, <1>4, <2>1, NotYet
  <2>3. k \notin S
    BY DEF Ready
  <2> QED
    BY <1>4, <2>2, <2>3
<1>6. S \cup {k} = Live(n + 1)
  <2>1. k \in Live(n + 1)
    BY <1>1, <1>4 DEF Live
  <2> QED
    BY <2>1 DEF Ready
<1>7. b \in Blocks /\ b \in Words
  BY <1>2 DEF Reached, Stage, Growing, Loose, Words
<1>8. {b} \ {b} = {}
  OBVIOUS
<1>9. CASE n < D
  <2>1. k = DirectSpot(n) /\ k \in Roots /\ n \in 0 .. D - 1
    BY <1>1, <1>9, LeafAbove, ShapeFacts
  <2>2. new = [r EXCEPT !.inode.direct[n] = b]
    BY <1>0, <1>1, <1>9, SetDirect
  <2>3. /\ new.dev = r.dev /\ new.ok = r.ok
        /\ new.inode = [r.inode EXCEPT !.direct = [r.inode.direct EXCEPT ![n] = b]]
    BY <1>3, <2>2 DEF Opens, Inodes
  <2>4. /\ new.inode.direct = [r.inode.direct EXCEPT ![n] = b]
        /\ new.inode.single = r.inode.single /\ new.inode.double = r.inode.double
        /\ new.inode.triple = r.inode.triple
        /\ new.inode.num_blocks = r.inode.num_blocks /\ new.inode.file_size = r.inode.file_size
        /\ r.inode.direct \in [0 .. D - 1 -> Words]
    BY <1>3, <2>3 DEF Inodes
  <2>5. new.inode.direct \in [0 .. D - 1 -> Words]
    BY <1>7, <2>4
  <2>6. new.inode \in Inodes
    BY <1>3, <2>3, <2>5, <2>4 DEF Inodes
  <2>7. new \in Opens
    <3>1. new = [r EXCEPT !.inode = new.inode]
      BY <1>3, <2>2, <2>3 DEF Opens
    <3> QED
      BY <1>3, <2>6, <3>1 DEF Opens
  <2> DEFINE d == new.inode.direct
  <2>0. d[n] = b /\ \A x \in 0 .. D - 1 : x # n => d[x] = r.inode.direct[x]
    BY <2>1, <2>4
  <2>8. At(r.dev.words, new.inode, k) = b
    <3>1. At(r.dev.words, new.inode, DirectSpot(n)) = d[n]
      BY <2>1, AtDirect
    <3> QED
      BY <2>0, <2>1, <3>1
  <2>9. \A q \in Roots \ {k} : At(r.dev.words, new.inode, q) = At(r.dev.words, r.inode, q)
    <3> TAKE q \in Roots \ {k}
    <3>1. CASE q = SingleSpot
      BY <2>4, <3>1, AtSingle
    <3>2. CASE q = DoubleSpot
      BY <2>4, <3>2, AtDouble
    <3>3. CASE \E x \in 0 .. D - 1 : q = DirectSpot(x)
      <4>1. PICK x \in 0 .. D - 1 : q = DirectSpot(x)
        BY <3>3
      <4>2. x # n
        BY <2>1, <4>1
      <4>3. /\ At(r.dev.words, new.inode, DirectSpot(x)) = d[x]
            /\ At(r.dev.words, r.inode, DirectSpot(x)) = r.inode.direct[x]
        BY AtDirect
      <4> QED
        BY <2>0, <4>1, <4>2, <4>3
    <3> QED
      BY <3>1, <3>2, <3>3, RootCases
  <2> HIDE DEF k, S
  <2>10. Reached(r0, new, W0, S \cup {k}, disk, V, m, {b} \ {b}, exact)
    <3>1. /\ new.inode.num_blocks = r.inode.num_blocks /\ new.inode.file_size = r.inode.file_size
          /\ new.inode.triple = r.inode.triple /\ new.dev = r.dev /\ b \in {b} /\ k \in Roots
      BY <2>1, <2>3, <2>4
    <3> QED
      BY <1>2, <1>5, <2>7, <2>8, <2>9, <3>1, ReachedRoot
  <2> QED
    BY <1>6, <1>8, <2>3, <2>10 DEF n
<1>10. CASE ~ (n < D)
  <2>1. k \in Spots \ Roots /\ Above(k) \in S
    BY <1>1, <1>4, <1>10, LeafAbove
  <2> DEFINE c == At(r.dev.words, r.inode, Above(k))
  <2>2. /\ new.dev = Store(r.dev, c, SlotOf(k), b) /\ new.inode = r.inode /\ new.ok = r.ok
        /\ new.dev \in Devices => new \in Opens
    <3>1. n \in Nat /\ n < Capacity /\ ~ (n < D) /\ r \in Opens /\ new = SetBlock(r, n, b)
      BY <1>0, <1>1, <1>3, <1>10
    <3>2. new.inode = r.inode
      BY <3>1, SetSlot
    <3>3. new.dev = Store(r.dev, At(r.dev.words, r.inode, Above(Leaf(n))), SlotOf(Leaf(n)), b)
      BY <3>1, SetSlot
    <3>4. new.ok = r.ok
      BY <3>1, SetSlot
    <3>5. new.dev \in Devices => new \in Opens
      BY <3>1, SetSlot
    <3> QED
      BY <3>2, <3>3, <3>4, <3>5
  <2>3. c \in Blocks
    <3>1. c # 0
      BY <1>2, <2>1 DEF Reached, Stage
    <3>2. Above(k) \in Spots /\ r.dev.words \in WordsType
      BY <1>3, <2>1, AboveFacts DEF Devices, WordsType
    <3>3. c \in Words
      BY <1>3, <3>2, AtTyped
    <3> QED
      BY <3>1, <3>3 DEF Words
  <2>4. SlotOf(k) \in Slots
    BY <2>1, AboveFacts
  <2> HIDE DEF k, S, c
  <2>5. Store(r.dev, c, SlotOf(k), b) \in Devices
    BY <1>3, <1>7, <2>3, <2>4, StoreTyped
  <2>6. new \in Opens /\ new.inode = r.inode /\ new.ok /\ new.dev = Store(r.dev, c, SlotOf(k), b)
    BY <2>2, <2>5
  <2>7. b \in {b}
    OBVIOUS
  <2>8. Reached(r0, new, W0, S \cup {k}, disk, V, m, {b} \ {b}, exact)
    BY <1>2, <1>5, <2>1, <2>6, <2>7, ReachedSlot DEF c
  <2> QED
    BY <1>6, <1>8, <2>6, <2>8 DEF n
<1> QED
  BY <1>9, <1>10

\* The number of blocks and the size of a file say nothing about its tree.
SameTree(inode, inode2) ==
    inode2.direct = inode.direct /\ inode2.single = inode.single /\ inode2.double = inode.double

\* Inodes with the same pointers have the same tree.
LEMMA AtSame ==
    ASSUME NEW inode, NEW inode2, SameTree(inode, inode2), NEW wds, NEW k \in Spots
    PROVE  At(wds, inode2, k) = At(wds, inode, k)
  BY DEF At, SameTree

\* A stage of the growth does not depend on sizes.
LEMMA StageSame ==
    ASSUME NEW dev, NEW inode, NEW W, NEW S, NEW disk, NEW V, NEW T, NEW L, NEW exact,
           Stage(dev, inode, W, S, disk, V, T, L, exact),
           NEW inode2 \in Inodes, SameTree(inode, inode2)
    PROVE  Stage(dev, inode2, W, S, disk, V, T, L, exact)
<1>1. \A k \in Spots : At(dev.words, inode2, k) = At(dev.words, inode, k)
  BY AtSame
<1>2. W \subseteq Spots /\ V \subseteq Spots /\ S \subseteq Spots
  BY DEF Stage, Growing, Closed
<1>3. /\ OwnedAt(dev, inode2, W)
      /\ Apart(dev.words, inode2, W, inode2, W) /\ Apart(dev.words, inode2, W, disk, V)
  BY <1>1, <1>2 DEF Stage, Growing, OwnedAt, Apart
<1>4. \A b \in L : Loose(dev, inode2, W, disk, V, b)
  BY <1>1, <1>2 DEF Stage, Growing, Loose
<1>5. exact => Accounted(dev, inode2, S, L)
  BY <1>1, <1>2 DEF Stage, Accounted
<1>6. \A k \in S : At(dev.words, inode2, k) # 0
  BY <1>1, <1>2 DEF Stage
<1> QED
  BY <1>3, <1>4, <1>5, <1>6 DEF Stage, Growing

(* What adding blocks has made of r0, an inode with blocks in place: the   *)
(* tree has all blocks up to the last, or the blocks have run out.         *)
Grows(r0, r, W0, disk, V, m, exact) ==
    LET n0 == r0.inode.num_blocks
        n == r.inode.num_blocks
    IN  /\ r \in Opens /\ n0 <= n /\ n <= Capacity
        /\ r.inode.file_size = r0.inode.file_size /\ r.inode.triple = r0.inode.triple
        /\ Keeps(r0.dev, r0.inode, Live(n0), disk, Live(m), r.dev, r.inode)
        /\ r.ok => \E W : W0 \subseteq W /\ Stage(r.dev, r.inode, W, Live(n), disk, V, Live(m), {}, exact)
        /\ ~ r.ok => \E W, S, L : W0 \subseteq W /\ Stage(r.dev, r.inode, W, S, disk, V, Live(m), L, exact)

\* One block more, unless they have run out.
OneMore(r, new) == new.ok => r.ok /\ new.inode.num_blocks = r.inode.num_blocks + 1

\* Nothing done keeps everything.
LEMMA KeepsSame ==
    ASSUME NEW dev, NEW inode, NEW S, NEW disk, NEW T
    PROVE  Keeps(dev, inode, S, disk, T, dev, inode)
  BY DEF Keeps, Spares

\* add_dblock_to_inode adds the block b, which the file has just taken.
LEMMA AddDblockReached ==
    ASSUME NEW r0, NEW r, NEW W0, NEW disk, NEW V, NEW m \in Nat, NEW exact, NEW b,
           r0.inode.num_blocks \in Nat, r0.inode.num_blocks < Capacity, m <= r0.inode.num_blocks,
           Reached(r0, r, W0, Live(r0.inode.num_blocks), disk, V, m, {b}, exact), r.ok,
           NEW new, new = AddDblock(r, b)
    PROVE  Grows(r0, new, W0, disk, V, m, exact) /\ OneMore(r, new)
<1> DEFINE n == r0.inode.num_blocks
           down == DownTo(r)
           set == SetBlock(down, n, b)
<1>1. n \in Nat /\ n < Capacity /\ m <= n /\ r.inode.num_blocks = n
  BY DEF Reached
<1>2. Capacity \in Nat
  BY ShapeFacts DEF Capacity
<1>3. /\ down.ok => Reached(r0, down, W0, Ready(n), disk, V, m, {b}, exact)
      /\ ~ down.ok => \E S : Reached(r0, down, W0, S, disk, V, m, {b}, exact)
  <2> HIDE DEF down
  <2>1. down = DownTo(r)
    BY DEF down
  <2> QED
    BY <2>1, DownReached
<1>4. new = IF ~ down.ok THEN down ELSE [set EXCEPT !.inode.num_blocks = @ + 1]
  BY <1>1 DEF AddDblock, DownTo
<1> HIDE DEF n, down
<1>5. CASE ~ down.ok
  <2>1. PICK S : Reached(r0, down, W0, S, disk, V, m, {b}, exact)
    BY <1>3, <1>5
  <2>2. new = down
    BY <1>4, <1>5
  <2>3. Grows(r0, new, W0, disk, V, m, exact)
    <3>1. \E W, S1, L : W0 \subseteq W /\ Stage(new.dev, new.inode, W, S1, disk, V, Live(m), L, exact)
      BY <2>1, <2>2 DEF Reached
    <3>2. /\ new \in Opens /\ new.inode.num_blocks = n /\ new.inode.file_size = r0.inode.file_size
          /\ new.inode.triple = r0.inode.triple
          /\ Keeps(r0.dev, r0.inode, Live(n), disk, Live(m), new.dev, new.inode)
      BY <2>1, <2>2 DEF Reached, n
    <3> QED
      BY <1>1, <1>2, <1>5, <2>2, <3>1, <3>2 DEF Grows, n
  <2> QED
    BY <1>5, <2>2, <2>3 DEF OneMore
<1>6. CASE down.ok
  <2>1. Reached(r0, set, W0, Live(n + 1), disk, V, m, {}, exact) /\ set.ok
    <3>1. Reached(r0, down, W0, Ready(n), disk, V, m, {b}, exact)
      BY <1>3, <1>6
    <3> HIDE DEF set
    <3>2. set = SetBlock(down, n, b)
      BY DEF set
    <3> QED
      BY <1>1, <1>6, <3>1, <3>2, SetReached DEF n
  <2> HIDE DEF set
  <2>2. set \in Opens /\ set.inode \in Inodes /\ set.dev \in Devices /\ set.inode.num_blocks = n
    BY <2>1 DEF Reached, Opens, n
  <2>3. new = [set EXCEPT !.inode.num_blocks = @ + 1]
    BY <1>4, <1>6
  <2>4. /\ new.dev = set.dev /\ new.ok = set.ok
        /\ new.inode = [set.inode EXCEPT !.num_blocks = set.inode.num_blocks + 1]
    BY <2>2, <2>3 DEF Opens, Inodes
  <2>5. /\ new.inode \in Inodes /\ new.inode.num_blocks = n + 1
        /\ new.inode.file_size = set.inode.file_size /\ new.inode.triple = set.inode.triple
        /\ SameTree(set.inode, new.inode)
    BY <1>1, <2>2, <2>4 DEF Inodes, SameTree
  <2>6. new \in Opens
    <3>1. new = [set EXCEPT !.inode = new.inode]
      BY <2>2, <2>3, <2>4 DEF Opens
    <3> QED
      BY <2>2, <2>5, <3>1 DEF Opens
  <2>7. PICK W : W0 \subseteq W /\ Stage(set.dev, set.inode, W, Live(n + 1), disk, V, Live(m), {}, exact)
    BY <2>1 DEF Reached
  <2>8. Stage(new.dev, new.inode, W, Live(n + 1), disk, V, Live(m), {}, exact)
    BY <2>4, <2>5, <2>7, StageSame
  <2>9. Keeps(r0.dev, r0.inode, Live(n), disk, Live(m), new.dev, new.inode)
    <3>1. Keeps(r0.dev, r0.inode, Live(n), disk, Live(m), set.dev, set.inode)
      BY <2>1 DEF Reached, n
    <3>2. \A k \in Live(n) : At(set.dev.words, new.inode, k) = At(set.dev.words, set.inode, k)
      BY <2>5, AtSame DEF Live
    <3> QED
      BY <2>4, <3>1, <3>2 DEF Keeps
  <2>10. new.inode.file_size = r0.inode.file_size /\ new.inode.triple = r0.inode.triple
    BY <2>1, <2>5 DEF Reached
  <2>11. n <= n + 1 /\ n + 1 <= Capacity
    BY <1>1, <1>2
  <2>12. new.ok
    BY <2>1, <2>4
  <2>13. \E W1 : W0 \subseteq W1 /\ Stage(new.dev, new.inode, W1, Live(new.inode.num_blocks),
                                          disk, V, Live(m), {}, exact)
    BY <2>5, <2>7, <2>8
  <2> QED
    BY <1>1, <2>5, <2>6, <2>9, <2>10, <2>11, <2>12, <2>13 DEF Grows, OneMore, n
<1> QED
  BY <1>5, <1>6

\* create_new_dblock and add_dblock_to_inode, from an inode with its blocks.
LEMMA AddNewBlockOnce ==
    ASSUME NEW r \in Opens, r.ok, NEW W0, NEW disk, NEW V, NEW m \in Nat, NEW exact,
           r.inode.num_blocks < Capacity, m <= r.inode.num_blocks,
           Stage(r.dev, r.inode, W0, Live(r.inode.num_blocks), disk, V, Live(m), {}, exact),
           NEW new, new = AddNewBlock(r)
    PROVE  Grows(r, new, W0, disk, V, m, exact) /\ OneMore(r, new)
<1> DEFINE n == r.inode.num_blocks
<1>1. r.inode \in Inodes /\ r.dev \in Devices /\ n \in Nat
  BY DEF Opens, Inodes
<1>2. Reached(r, r, W0, Live(n), disk, V, m, {}, exact)
  BY KeepsSame DEF Reached
<1>3. Capacity \in Nat /\ n <= Capacity
  BY <1>1, ShapeFacts DEF Capacity
<1>4. CASE FreeOf(r.dev) = {}
  <2>1. new = [r EXCEPT !.ok = FALSE]
    BY <1>4 DEF AddNewBlock
  <2>2. new.dev = r.dev /\ new.inode = r.inode /\ ~ new.ok
    BY <2>1 DEF Opens
  <2>3. new \in Opens
    BY <2>1 DEF Opens
  <2>4. Keeps(r.dev, r.inode, Live(n), disk, Live(m), new.dev, new.inode)
    BY <2>2, KeepsSame
  <2>5. Stage(new.dev, new.inode, W0, Live(n), disk, V, Live(m), {}, exact)
    BY <2>2
  <2> QED
    BY <1>1, <1>3, <2>2, <2>3, <2>4, <2>5 DEF Grows, OneMore
<1>5. CASE FreeOf(r.dev) # {}
  <2> DEFINE b == NextFree(r.dev)
             mid == [r EXCEPT !.dev = Take(r.dev)]
  <2>1. new = AddDblock(mid, b)
    BY <1>5 DEF AddNewBlock
  <2>2. Take(r.dev) \in Devices
    BY <1>1, <1>5, TakeTyped
  <2>3. mid.dev = Take(r.dev) /\ mid.inode = r.inode /\ mid.ok /\ mid \in Opens
    BY <2>2 DEF Opens
  <2> HIDE DEF b, mid
  <2>4. Reached(r, mid, W0, Live(n), disk, V, m, {b}, exact)
    <3>1. Reached(r, mid, W0, Live(n), disk, V, m, {} \cup {b}, exact)
      BY <1>2, <1>5, <2>3, ReachedTake DEF b
    <3>2. {} \cup {b} = {b}
      OBVIOUS
    <3> QED
      BY <3>1, <3>2
  <2> QED
    <3>1. r.inode.num_blocks \in Nat /\ r.inode.num_blocks < Capacity /\ m <= r.inode.num_blocks
      BY <1>1
    <3>2. Reached(r, mid, W0, Live(r.inode.num_blocks), disk, V, m, {b}, exact) /\ mid.ok
      BY <2>3, <2>4
    <3> HIDE DEF n
    <3>3. Grows(r, new, W0, disk, V, m, exact) /\ OneMore(mid, new)
      BY <2>1, <3>1, <3>2, AddDblockReached
    <3> QED
      BY <2>3, <3>3 DEF OneMore
<1> QED
  BY <1>4, <1>5

\* Growth upon growth.
LEMMA GrowsOn ==
    ASSUME NEW r0, NEW r, NEW W0, NEW disk, NEW V, NEW m \in Nat, NEW exact,
           r0.inode.num_blocks \in Nat, m <= r0.inode.num_blocks,
           Grows(r0, r, W0, disk, V, m, exact), r.ok => r.inode.num_blocks < Capacity,
           NEW new, new = AddNewBlock(r)
    PROVE  Grows(r0, new, W0, disk, V, m, exact) /\ OneMore(r, new)
<1>1. CASE ~ r.ok
  <2>1. new = r
    BY <1>1 DEF AddNewBlock
  <2> QED
    BY <1>1, <2>1 DEF OneMore
<1>2. CASE r.ok
  <2> DEFINE n == r.inode.num_blocks
             n0 == r0.inode.num_blocks
  <2>1. r \in Opens /\ n \in Nat /\ n0 <= n
    BY DEF Grows, Opens, Inodes
  <2>2. PICK W : W0 \subseteq W /\ Stage(r.dev, r.inode, W, Live(n), disk, V, Live(m), {}, exact)
    BY <1>2 DEF Grows
  <2>3. m <= n /\ n < Capacity
    BY <1>2, <2>1
  <2>4. Grows(r, new, W, disk, V, m, exact) /\ OneMore(r, new)
    BY <1>2, <2>1, <2>2, <2>3, AddNewBlockOnce
  <2>5. Live(n0) \subseteq Live(n)
    BY <2>1, StartTyped DEF Live
  <2>6. Keeps(r0.dev, r0.inode, Live(n0), disk, Live(m), new.dev, new.inode)
    <3>1. Keeps(r0.dev, r0.inode, Live(n0), disk, Live(m), r.dev, r.inode)
      BY DEF Grows
    <3>2. Keeps(r.dev, r.inode, Live(n), disk, Live(m), new.dev, new.inode)
      BY <2>4 DEF Grows
    <3> HIDE DEF n, n0
    <3> QED
      BY <2>5, <3>1, <3>2, KeepsTwice
  <2>7. /\ new \in Opens /\ n <= new.inode.num_blocks /\ new.inode.num_blocks <= Capacity
        /\ new.inode.file_size = r.inode.file_size /\ new.inode.triple = r.inode.triple
    BY <2>4 DEF Grows
  <2>8. n0 <= new.inode.num_blocks
    <3>1. new.inode.num_blocks \in Nat
      BY <2>7 DEF Opens, Inodes
    <3> QED
      BY <2>1, <2>7, <3>1
  <2>9. new.ok => \E W1 : W0 \subseteq W1 /\ Stage(new.dev, new.inode, W1, Live(new.inode.num_blocks),
                                                    disk, V, Live(m), {}, exact)
    BY <2>2, <2>4 DEF Grows
  <2>10. ~ new.ok => \E W1, S, L : W0 \subseteq W1 /\ Stage(new.dev, new.inode, W1, S,
                                                    disk, V, Live(m), L, exact)
    BY <2>2, <2>4 DEF Grows
  <2>11. new.inode.file_size = r0.inode.file_size /\ new.inode.triple = r0.inode.triple
    BY <2>7 DEF Grows
  <2> QED
    BY <1>2, <2>4, <2>6, <2>7, <2>8, <2>9, <2>10, <2>11 DEF Grows
<1> QED
  BY <1>1, <1>2

\* What a write makes of r0 when it lacks k blocks.
WriteGrown(r0, k) == Each(LAMBDA r, i : AddNewBlock(r), r0, [i \in 1 .. k |-> i])

\* f lists the results of the loop, from none to k blocks.
WriteLoop(r0, k, f) ==
    f = [j \in 0 .. k |-> IF j = 0 THEN r0 ELSE AddNewBlock(f[j - 1])]

Looped(r0, k) == \E f : WriteLoop(r0, k, f)

\* The loop ends with the last of them.
LEMMA LoopEnds ==
    ASSUME NEW r0, NEW k \in Nat, NEW f, WriteLoop(r0, k, f)
    PROVE  WriteGrown(r0, k) = f[k]
<1> DEFINE s == [i \in 1 .. k |-> i]
           Is(h) == h = [j \in 0 .. Len(s) |-> IF j = 0 THEN r0 ELSE AddNewBlock(h[j - 1])]
           done == CHOOSE h : Is(h)
<1>1. Len(s) = k
  <2>1. s \in [1 .. k -> Nat]
    OBVIOUS
  <2> HIDE DEF s
  <2> QED
    BY <2>1, FcnIsSeq
<1>2. WriteGrown(r0, k) = done[Len(s)]
  BY DEF WriteGrown, Each
<1> HIDE DEF s
<1>3. Is(f)
  BY <1>1 DEF WriteLoop
<1>4. Is(done)
  <2> HIDE DEF Is
  <2> QED
    BY <1>3
<1>5. /\ done[0] = r0
      /\ \A i \in 1 .. k : done[i] = AddNewBlock(done[i - 1])
  <2> HIDE DEF done
  <2>1. \A j \in 1 .. k : j \in 0 .. k /\ j # 0
    OBVIOUS
  <2> QED
    BY <1>1, <1>4, <2>1
<1>6. /\ f[0] = r0
      /\ \A i \in 1 .. k : f[i] = AddNewBlock(f[i - 1])
  <2>1. \A j \in 1 .. k : j \in 0 .. k /\ j # 0
    OBVIOUS
  <2> QED
    BY <1>1, <1>3, <2>1
<1> DEFINE H == {i \in 0 .. k : f[i] = done[i]}
<1> HIDE DEF done, Is
<1>7. 0 \in H
  BY <1>5, <1>6
<1>8. ASSUME NEW i \in 1 .. k, i - 1 \in H
      PROVE  i \in H
  <2>1. f[i] = AddNewBlock(f[i - 1]) /\ f[i - 1] = done[i - 1]
    BY <1>6, <1>8
  <2>2. done[i] = AddNewBlock(done[i - 1])
    BY <1>5
  <2> QED
    BY <2>1, <2>2
<1>9. \A i \in 0 .. k : i \in H
  <2> HIDE DEF H
  <2> QED
    BY <1>7, <1>8, RangeInduction
<1> QED
  BY <1>1, <1>2, <1>9

\* The loop of custom_write: one block after the other is added.
LEMMA WriteGrows ==
    ASSUME NEW r0 \in Opens, r0.ok, NEW W0, NEW disk, NEW V, NEW m \in Nat, NEW exact,
           m <= r0.inode.num_blocks, NEW k \in Nat, r0.inode.num_blocks + k <= Capacity,
           Stage(r0.dev, r0.inode, W0, Live(r0.inode.num_blocks), disk, V, Live(m), {}, exact),
           NEW new, new = WriteGrown(r0, k)
    PROVE  /\ Grows(r0, new, W0, disk, V, m, exact)
           /\ new.ok => new.inode.num_blocks = r0.inode.num_blocks + k
           /\ Looped(r0, k)
<1> DEFINE n0 == r0.inode.num_blocks
           G == [y \in Opens \X (1 .. k) |-> IF AddNewBlock(y[1]) \in Opens THEN AddNewBlock(y[1])
                                            ELSE y[1]]
<1>1. Capacity \in Nat /\ n0 \in Nat /\ n0 <= Capacity
  BY ShapeFacts DEF Capacity, Opens, Inodes
<1>2. PICK f : StepsOf(f, Opens, k, G, r0)
  <2>1. G \in [Opens \X (1 .. k) -> Opens]
    OBVIOUS
  <2> HIDE DEF G
  <2> QED
    BY <2>1, Stepwise
<1>3. f \in [0 .. k -> Opens] /\ f[0] = r0
  BY <1>2 DEF StepsOf
<1> DEFINE E == {i \in 0 .. k : /\ Grows(r0, f[i], W0, disk, V, m, exact)
                                /\ f[i].ok => f[i].inode.num_blocks = n0 + i
                                /\ i # 0 => f[i] = AddNewBlock(f[i - 1])}
<1>4. 0 \in E
  <2>1. Grows(r0, r0, W0, disk, V, m, exact)
    BY <1>1, KeepsSame DEF Grows
  <2> QED
    BY <1>1, <1>3, <2>1
<1>5. ASSUME NEW i \in 1 .. k, i - 1 \in E
      PROVE  i \in E
  <2> DEFINE r == f[i - 1]
             next == AddNewBlock(r)
  <2>1. i - 1 \in 0 .. k /\ r \in Opens
    BY <1>3, <1>5
  <2>2. Grows(r0, r, W0, disk, V, m, exact) /\ (r.ok => r.inode.num_blocks = n0 + (i - 1))
    BY <1>5
  <2>3. n0 + (i - 1) < Capacity
    BY <1>1
  <2> HIDE DEF r, next
  <2>4. r.ok => r.inode.num_blocks < Capacity
    BY <2>2, <2>3
  <2>5. Grows(r0, next, W0, disk, V, m, exact) /\ OneMore(r, next)
    <3>1. n0 = r0.inode.num_blocks /\ next = AddNewBlock(r)
      BY DEF next
    <3> HIDE DEF n0
    <3> QED
      BY <1>1, <2>2, <2>4, <3>1, GrowsOn
  <2>6. next \in Opens
    BY <2>5 DEF Grows
  <2>7. f[i] = next
    <3>1. f[i] = G[<<r, i>>]
      BY <1>2 DEF StepsOf, r
    <3>2. <<r, i>> \in Opens \X (1 .. k)
      BY <2>1
    <3>3. G[<<r, i>>] = IF AddNewBlock(r) \in Opens THEN AddNewBlock(r) ELSE r
      BY <3>2
    <3> QED
      BY <2>6, <3>1, <3>3 DEF next
  <2>8. next.ok => next.inode.num_blocks = n0 + i
    <3>1. next.ok => r.ok /\ next.inode.num_blocks = r.inode.num_blocks + 1
      BY <2>5 DEF OneMore
    <3>2. n0 + (i - 1) + 1 = n0 + i
      BY <1>1
    <3> HIDE DEF n0
    <3> QED
      BY <2>2, <3>1, <3>2
  <2> QED
    BY <2>5, <2>7, <2>8 DEF next, r
<1>6. \A i \in 0 .. k : i \in E
  <2> HIDE DEF E
  <2> QED
    BY <1>4, <1>5, RangeInduction
<1>7. WriteLoop(r0, k, f)
  <2>1. \A j \in 0 .. k : f[j] = IF j = 0 THEN r0 ELSE AddNewBlock(f[j - 1])
    BY <1>3, <1>6
  <2>2. f = [j \in 0 .. k |-> f[j]]
    BY <1>3
  <2> QED
    BY <2>1, <2>2 DEF WriteLoop
<1>8. new = f[k]
  BY <1>7, LoopEnds
<1>9. k \in 0 .. k
  OBVIOUS
<1> QED
  BY <1>6, <1>7, <1>8, <1>9 DEF Looped

-----------------------------------------------------------------------------
(* What is given back                                                      *)

\* The blocks at the spots K.
Held(wds, inode, K) == {b \in Blocks : \E k \in K : At(wds, inode, k) = b}

\* A tree all of whose blocks are the file's, each at one spot.
Sound(dev, inode) ==
    /\ dev \in Devices /\ inode \in Inodes
    /\ OwnedAt(dev, inode, Spots) /\ Apart(dev.words, inode, Spots, inode, Spots)

DirectSpots == {DirectSpot(x) : x \in 0 .. D - 1}
SingleSpots == {SingleSpot} \cup {InSingle(i) : i \in Slots}
DoubleSpots == {DoubleSpot} \cup {InDouble(i) : i \in Slots}
                  \cup {BelowDouble(y[1], y[2]) : y \in Slots \X Slots}

\* The spots fall into three disjoint sets, by the root they hang from.
LEMMA SpotSets ==
    /\ Spots = DirectSpots \cup SingleSpots \cup DoubleSpots
    /\ DirectSpots \cap SingleSpots = {} /\ DirectSpots \cap DoubleSpots = {}
    /\ SingleSpots \cap DoubleSpots = {}
    /\ \A i, j \in Slots : BelowDouble(i, j) \in DoubleSpots
    /\ \A k \in DoubleSpots : k = DoubleSpot \/ (\E i \in Slots : k = InDouble(i))
                                 \/ \E i, j \in Slots : k = BelowDouble(i, j)
<1>1. \A k \in DirectSpots : k[1] = "direct"
  BY Heads DEF DirectSpots
<1>2. \A k \in SingleSpots : k[1] \in {"single", "in single"}
  BY Heads DEF SingleSpots
<1>3. \A k \in DoubleSpots : k = DoubleSpot \/ (\E i \in Slots : k = InDouble(i))
                                \/ \E i, j \in Slots : k = BelowDouble(i, j)
  BY DEF DoubleSpots
<1>4. \A k \in DoubleSpots : k[1] \in {"double", "in double", "below double"}
  BY <1>3, Heads
<1>5. \A i, j \in Slots : BelowDouble(i, j) \in DoubleSpots
  <2> TAKE i, j \in Slots
  <2> DEFINE y == <<i, j>>
  <2>1. y \in Slots \X Slots /\ y[1] = i /\ y[2] = j
    OBVIOUS
  <2> HIDE DEF y
  <2> QED
    BY <2>1 DEF DoubleSpots
<1>6. Spots = DirectSpots \cup SingleSpots \cup DoubleSpots
  BY DEF Spots, DirectSpots, SingleSpots, DoubleSpots
<1> QED
  BY <1>1, <1>2, <1>3, <1>4, <1>5, <1>6

\* What a sound tree holds is the file's, and differs from spot to spot.
LEMMA HeldFacts ==
    ASSUME NEW dev, NEW inode, Sound(dev, inode)
    PROVE  /\ \A K \in SUBSET Spots : \A k \in K :
                 At(dev.words, inode, k) # 0 => At(dev.words, inode, k) \in Held(dev.words, inode, K)
           /\ \A K \in SUBSET Spots : \A b \in Held(dev.words, inode, K) : dev.owner[b] = dev.file
           /\ \A K, M \in SUBSET Spots :
                 K \cap M = {} => Held(dev.words, inode, K) \cap Held(dev.words, inode, M) = {}
<1>1. dev.words \in WordsType /\ inode \in Inodes
  BY DEF Sound, Devices, WordsType
<1>2. \A k \in Spots : At(dev.words, inode, k) \in Words
  BY <1>1, AtTyped
<1>3. 0 \notin Blocks
  BY ShapeFacts
<1>4. \A K \in SUBSET Spots : \A b \in Held(dev.words, inode, K) : dev.owner[b] = dev.file
  BY <1>3 DEF Held, Sound, OwnedAt
<1>5. ASSUME NEW K \in SUBSET Spots, NEW M \in SUBSET Spots, K \cap M = {}
      PROVE  Held(dev.words, inode, K) \cap Held(dev.words, inode, M) = {}
  BY <1>3, <1>5 DEF Held, Sound, Apart
<1>6. \A K \in SUBSET Spots : \A k \in K :
         At(dev.words, inode, k) # 0 => At(dev.words, inode, k) \in Held(dev.words, inode, K)
  BY <1>2 DEF Held, Words
<1> QED
  BY <1>4, <1>5, <1>6

\* Of the spots K the blocks S are given back, among them all that n blocks use.
Gives(wds, inode, K, S) ==
    /\ S \subseteq Held(wds, inode, K)
    /\ \A n \in Nat : (\A k \in Live(n) : At(wds, inode, k) # 0) =>
                         Held(wds, inode, K \cap Live(n)) \subseteq S

\* remove_single_indirect of the file's single indirect block.
LEMMA SingleFreed ==
    ASSUME NEW dev, NEW inode, Sound(dev, inode), inode.single # 0,
           NEW R, R \cap Held(dev.words, inode, SingleSpots) = {}
    PROVE  \E S : /\ RemoveSingle(Freed(dev, R), inode.single) = Freed(dev, R \cup S)
                  /\ Gives(dev.words, inode, SingleSpots, S)
<1> DEFINE b == inode.single
           mid == Freed(dev, R)
           S == SingleBlocks(dev.words, b)
           A(k) == At(dev.words, inode, k)
<1>1. dev \in Devices /\ inode \in Inodes /\ mid \in Devices /\ mid.file = dev.file
  BY FreedTyped DEF Sound, Freed
<1>2. b \in Blocks
  BY <1>1 DEF Inodes, Words
<1>3. A(SingleSpot) = b /\ SingleSpot \in Spots /\ SingleSpot \in SingleSpots
  BY SpotsAre, AtSingle DEF Roots, SingleSpots
<1>4. \A i \in Slots : /\ A(InSingle(i)) = dev.words[b][i]
                       /\ InSingle(i) \in Spots /\ InSingle(i) \in SingleSpots
                       /\ InSingle(i) # SingleSpot
  <2> TAKE i \in Slots
  <2>1. A(InSingle(i)) = Entry(dev.words, b, i)
    BY <1>3, SpotsAre, AtBelow
  <2>2. b # 0
    OBVIOUS
  <2> HIDE DEF b
  <2> QED
    BY <2>1, <2>2, SpotsAre DEF Entry, SingleSpots
<1>5. SingleSpots \in SUBSET Spots
  BY SpotSets
<1> HIDE DEF b
<1>6. /\ b \notin R /\ dev.owner[b] = dev.file
      /\ \A i \in Slots : dev.words[b][i] # 0 =>
            /\ dev.words[b][i] \in Blocks /\ dev.words[b][i] \notin R
            /\ dev.owner[dev.words[b][i]] = dev.file
  <2>1. \A k \in SingleSpots : A(k) # 0 => A(k) \in Blocks /\ A(k) \notin R /\ dev.owner[A(k)] = dev.file
    BY <1>5, HeldFacts DEF Held
  <2> HIDE DEF A
  <2> QED
    BY <1>2, <1>3, <1>4, <2>1, ShapeFacts
<1>7. mid.words[b] = dev.words[b] /\ mid.owner[b] = mid.file
  BY <1>1, <1>2, <1>6, FreedTyped
<1>8. OwnSingle(mid, b)
  <2>1. DOMAIN dev.words[b] = Slots
    BY <1>1, <1>2 DEF Devices
  <2>2. \A i \in Slots : dev.words[b][i] # 0 => mid.owner[dev.words[b][i]] = mid.file
    BY <1>1, <1>6, FreedTyped
  <2>3. ASSUME NEW i \in Slots, NEW j \in Slots, dev.words[b][i] = dev.words[b][j], dev.words[b][i] # 0
        PROVE  i = j
    <3>1. InSingle(i) = InSingle(j)
      BY <1>4, <2>3 DEF Sound, Apart
    <3> QED
      BY <3>1, SpotsAre
  <2>4. ASSUME NEW i \in Slots
        PROVE  dev.words[b][i] # b
    <3>1. b # 0
      BY <1>2, ShapeFacts
    <3> QED
      BY <1>3, <1>4, <3>1 DEF Sound, Apart
  <2> QED
    BY <1>2, <1>7, <2>1, <2>2, <2>3, <2>4 DEF OwnSingle, OwnEntries
<1>9. RemoveSingle(mid, b) = Freed(dev, R \cup S)
  <2>1. RemoveSingle(mid, b) = Freed(mid, SingleBlocks(mid.words, b))
    BY <1>1, <1>8, RemoveSingleFrees
  <2>2. SingleBlocks(mid.words, b) = S
    BY <1>7 DEF SingleBlocks
  <2>3. Freed(mid, S) = Freed(dev, R \cup S)
    BY <1>1, FreedTwice
  <2> QED
    BY <2>1, <2>2, <2>3
<1>10. DOMAIN dev.words[b] = Slots /\ Slots = 0 .. P - 1
  BY <1>1, <1>2 DEF Devices, Slots
<1>11. S \subseteq Held(dev.words, inode, SingleSpots)
  <2>1. ASSUME NEW c \in Entries(dev.words[b])
        PROVE  c \in Held(dev.words, inode, SingleSpots)
    <3>1. PICK i \in Slots : c = dev.words[b][i] /\ \A j \in 0 .. i : dev.words[b][j] # 0
      BY <1>10 DEF Entries
    <3>2. i \in 0 .. i
      BY ShapeFacts
    <3> HIDE DEF A
    <3>3. c = A(InSingle(i)) /\ InSingle(i) \in SingleSpots /\ c \in Blocks
      BY <1>4, <1>6, <3>1, <3>2
    <3> QED
      BY <3>3 DEF Held, A
  <2>2. b \in Held(dev.words, inode, SingleSpots)
    BY <1>2, <1>3 DEF Held
  <2> QED
    BY <2>1, <2>2 DEF SingleBlocks
<1>12. ASSUME NEW n \in Nat, \A k \in Live(n) : At(dev.words, inode, k) # 0
       PROVE  Held(dev.words, inode, SingleSpots \cap Live(n)) \subseteq S
  <2> SUFFICES ASSUME NEW k \in SingleSpots, k \in Live(n), A(k) \in Blocks
               PROVE  A(k) \in S
    BY DEF Held
  <2>1. CASE k = SingleSpot
    BY <1>3, <2>1 DEF SingleBlocks
  <2>2. CASE \E i \in Slots : k = InSingle(i)
    <3>1. PICK i \in Slots : k = InSingle(i)
      BY <2>2
    <3>2. \A j \in 0 .. i : dev.words[b][j] # 0
      <4> TAKE j \in 0 .. i
      <4>1. j \in Slots /\ Start(InSingle(j)) = D + j /\ Start(InSingle(i)) = D + i /\ j <= i
        BY ShapeFacts, StartOf DEF Slots
      <4>2. D + i < n
        BY <3>1, <4>1 DEF Live
      <4>3. D + j < n
        BY <4>1, <4>2, ShapeFacts
      <4>4. InSingle(j) \in Live(n)
        BY <1>4, <4>1, <4>3 DEF Live
      <4> QED
        BY <1>4, <1>12, <4>1, <4>4
    <3>3. dev.words[b][i] \in Entries(dev.words[b])
      BY <1>10, <3>2 DEF Entries
    <3> QED
      BY <1>4, <3>1, <3>3 DEF SingleBlocks
  <2> QED
    BY <2>1, <2>2 DEF SingleSpots
<1> QED
  BY <1>9, <1>11, <1>12 DEF Gives, b

\* remove_double_indirect of the file's double indirect block.
LEMMA DoubleFreed ==
    ASSUME NEW dev, NEW inode, Sound(dev, inode), inode.double # 0,
           NEW R, R \cap Held(dev.words, inode, DoubleSpots) = {}
    PROVE  \E S : /\ RemoveDouble(Freed(dev, R), inode.double) = Freed(dev, R \cup S)
                  /\ Gives(dev.words, inode, DoubleSpots, S)
<1> DEFINE b == inode.double
           index == dev.words[b]
           mid == Freed(dev, R)
           S == DoubleBlocks(dev.words, b)
           A(k) == At(dev.words, inode, k)
<1>1. dev \in Devices /\ inode \in Inodes /\ mid \in Devices /\ mid.file = dev.file
  BY FreedTyped DEF Sound, Freed
<1>2. b \in Blocks /\ b # 0
  BY <1>1 DEF Inodes, Words
<1>3. A(DoubleSpot) = b /\ DoubleSpot \in Spots /\ DoubleSpot \in DoubleSpots
  BY SpotsAre, AtDouble DEF Roots, DoubleSpots
<1> HIDE DEF b
<1>4. \A i \in Slots : /\ A(InDouble(i)) = index[i]
                       /\ InDouble(i) \in Spots /\ InDouble(i) \in DoubleSpots
                       /\ InDouble(i) # DoubleSpot
  <2> TAKE i \in Slots
  <2>1. A(InDouble(i)) = Entry(dev.words, b, i)
    BY <1>3, SpotsAre, AtBelow
  <2> QED
    BY <1>2, <2>1, SpotsAre DEF Entry, DoubleSpots
<1>5. \A i, j \in Slots : /\ index[i] # 0 => A(BelowDouble(i, j)) = dev.words[index[i]][j]
                          /\ BelowDouble(i, j) \in Spots /\ BelowDouble(i, j) \in DoubleSpots
                          /\ BelowDouble(i, j) # DoubleSpot
                          /\ \A l \in Slots : BelowDouble(i, j) # InDouble(l)
  <2> TAKE i, j \in Slots
  <2>1. A(BelowDouble(i, j)) = Entry(dev.words, A(InDouble(i)), j)
    BY SpotsAre, AtBelow
  <2>2. index[i] # 0 => A(BelowDouble(i, j)) = dev.words[index[i]][j]
    BY <1>4, <2>1 DEF Entry
  <2>3. BelowDouble(i, j) \in Spots /\ BelowDouble(i, j) \in DoubleSpots
    BY SpotsAre, SpotSets
  <2>4. BelowDouble(i, j) # DoubleSpot /\ \A l \in Slots : BelowDouble(i, j) # InDouble(l)
    BY Heads
  <2> QED
    BY <2>2, <2>3, <2>4
<1>6. DoubleSpots \in SUBSET Spots
  BY SpotSets
<1>7. \A k \in DoubleSpots : A(k) # 0 => A(k) \in Blocks /\ A(k) \notin R /\ dev.owner[A(k)] = dev.file
                                         /\ mid.owner[A(k)] = mid.file /\ mid.words[A(k)] = dev.words[A(k)]
  <2>1. \A k \in DoubleSpots : A(k) # 0 => A(k) \in Blocks /\ A(k) \notin R /\ dev.owner[A(k)] = dev.file
    BY <1>6, HeldFacts DEF Held
  <2> HIDE DEF A
  <2> QED
    BY <1>1, <2>1, FreedTyped
<1>8. \A k, q \in DoubleSpots : A(k) # 0 /\ A(k) = A(q) => k = q
  BY <1>6 DEF Sound, Apart
<1>9. DOMAIN index = Slots /\ Slots = 0 .. P - 1
  BY <1>1, <1>2 DEF Devices, Slots
<1>10. \A i \in Slots : index[i] # 0 => DOMAIN dev.words[index[i]] = Slots
  <2> TAKE i \in Slots
  <2>1. index[i] # 0 => index[i] \in Blocks
    BY <1>4, <1>7
  <2> QED
    BY <1>1, <2>1 DEF Devices
<1> HIDE DEF A
<1>11. mid.owner[b] = mid.file /\ mid.words[b] = index
  BY <1>2, <1>3, <1>7
<1>12. OwnDouble(mid, b)
  <2>1. OwnEntries(mid, index)
    <3>1. \A i \in Slots : index[i] # 0 => mid.owner[index[i]] = mid.file
      BY <1>4, <1>7
    <3>2. \A i, j \in Slots : index[i] = index[j] /\ index[i] # 0 => InDouble(i) = InDouble(j)
      BY <1>4, <1>8
    <3>3. \A i, j \in Slots : InDouble(i) = InDouble(j) => i = j
      BY SpotsAre
    <3> QED
      BY <1>9, <3>1, <3>2, <3>3 DEF OwnEntries
  <2>2. \A i \in Slots : index[i] # b
    BY <1>2, <1>3, <1>4, <1>8
  <2>3. ASSUME NEW i \in Slots, index[i] # 0
        PROVE  /\ mid.words[index[i]] = dev.words[index[i]]
               /\ OwnSingle(mid, index[i])
    <3> DEFINE c == index[i]
    <3>1. c \in Blocks /\ mid.owner[c] = mid.file /\ mid.words[c] = dev.words[c]
      BY <1>4, <1>7, <2>3
    <3>2. \A j \in Slots : A(BelowDouble(i, j)) = dev.words[c][j]
      BY <1>5, <2>3
    <3>3. DOMAIN dev.words[c] = Slots
      BY <1>10, <2>3
    <3>4. A(InDouble(i)) = c /\ c # 0 /\ InDouble(i) \in DoubleSpots
      BY <1>4, <2>3
    <3> HIDE DEF c
    <3>5. \A j \in Slots : dev.words[c][j] # 0 => mid.owner[dev.words[c][j]] = mid.file
      BY <1>5, <1>7, <3>2
    <3>6. \A j, l \in Slots : dev.words[c][j] = dev.words[c][l] /\ dev.words[c][j] # 0 => j = l
      <4>1. \A j, l \in Slots : dev.words[c][j] = dev.words[c][l] /\ dev.words[c][j] # 0 =>
               BelowDouble(i, j) = BelowDouble(i, l)
        BY <1>5, <1>8, <3>2
      <4>2. \A j, l \in Slots : BelowDouble(i, j) = BelowDouble(i, l) => j = l
        BY SpotsAre
      <4> QED
        BY <4>1, <4>2
    <3>7. \A j \in Slots : dev.words[c][j] # c
      BY <1>5, <1>8, <3>2, <3>4
    <3>8. OwnSingle(mid, c)
      BY <3>1, <3>3, <3>5, <3>6, <3>7 DEF OwnSingle, OwnEntries
    <3> QED
      BY <3>1, <3>8 DEF c
  <2>4. ASSUME NEW i \in Slots, index[i] # 0, NEW k \in Slots,
               NEW c, c = dev.words[index[i]][k], c # 0
        PROVE  /\ c # b
               /\ \A j \in Slots : c # index[j]
               /\ \A j, l \in Slots : index[j] # 0 /\ c = mid.words[index[j]][l] => i = j
    <3>1. A(BelowDouble(i, k)) = c /\ BelowDouble(i, k) \in DoubleSpots
      BY <1>5, <2>4
    <3>2. c # b
      BY <1>3, <1>5, <1>8, <2>4, <3>1
    <3>3. \A j \in Slots : c # index[j]
      BY <1>4, <1>5, <1>8, <2>4, <3>1
    <3>4. ASSUME NEW j \in Slots, NEW l \in Slots, index[j] # 0, c = mid.words[index[j]][l]
          PROVE  i = j
      <4>1. A(BelowDouble(j, l)) = c /\ BelowDouble(j, l) \in DoubleSpots
        BY <1>5, <2>3, <3>4
      <4>2. BelowDouble(i, k) = BelowDouble(j, l)
        BY <1>8, <2>4, <3>1, <4>1
      <4>3. InDouble(i) = InDouble(j)
        BY <4>2, SpotsAre
      <4> QED
        BY <4>3, SpotsAre
    <3> QED
      BY <3>2, <3>3, <3>4
  <2> HIDE DEF index
  <2>5. \A i \in Slots : index[i] # 0 =>
              /\ OwnSingle(mid, index[i])
              /\ \A k \in Slots : LET c == mid.words[index[i]][k]
                                  IN  c # 0 => /\ c # b
                                               /\ \A j \in Slots : c # index[j]
                                               /\ \A j, l \in Slots :
                                                     index[j] # 0 /\ c = mid.words[index[j]][l] => i = j
    BY <2>3, <2>4
  <2> QED
    BY <1>2, <1>11, <2>1, <2>2, <2>5 DEF OwnDouble
<1>13. RemoveDouble(mid, b) = Freed(dev, R \cup S)
  <2>1. RemoveDouble(mid, b) = Freed(mid, DoubleBlocks(mid.words, b))
    BY <1>1, <1>12, RemoveDoubleFrees
  <2>2. \A c \in Entries(index) : SingleBlocks(mid.words, c) = SingleBlocks(dev.words, c)
    <3> TAKE c \in Entries(index)
    <3>1. PICK i \in Slots : c = index[i] /\ \A j \in 0 .. i : index[j] # 0
      BY <1>9 DEF Entries
    <3>2. i \in 0 .. i
      BY ShapeFacts
    <3>3. mid.words[c] = dev.words[c]
      BY <1>4, <1>7, <3>1, <3>2
    <3> QED
      BY <3>3 DEF SingleBlocks
  <2>3. DoubleBlocks(mid.words, b) = S
    BY <1>11, <2>2 DEF DoubleBlocks
  <2>4. Freed(mid, S) = Freed(dev, R \cup S)
    BY <1>1, FreedTwice
  <2> QED
    BY <2>1, <2>3, <2>4
<1>14. S \subseteq Held(dev.words, inode, DoubleSpots)
  <2>1. ASSUME NEW k \in DoubleSpots, A(k) # 0
        PROVE  A(k) \in Held(dev.words, inode, DoubleSpots)
    BY <1>7, <2>1 DEF Held, A
  <2>2. ASSUME NEW c \in Entries(index), NEW d \in SingleBlocks(dev.words, c)
        PROVE  d \in Held(dev.words, inode, DoubleSpots)
    <3>1. PICK i \in Slots : c = index[i] /\ \A j \in 0 .. i : index[j] # 0
      BY <1>9 DEF Entries
    <3>2. i \in 0 .. i
      BY ShapeFacts
    <3>3. c = A(InDouble(i)) /\ InDouble(i) \in DoubleSpots /\ c # 0 /\ index[i] # 0
      BY <1>4, <3>1, <3>2
    <3>4. CASE d = c
      BY <2>1, <3>3, <3>4
    <3>5. CASE d \in Entries(dev.words[c])
      <4>1. DOMAIN dev.words[c] = Slots
        BY <1>10, <3>1, <3>3
      <4>2. PICK j \in Slots : d = dev.words[c][j] /\ \A l \in 0 .. j : dev.words[c][l] # 0
        BY <3>5, <4>1 DEF Entries
      <4>3. j \in 0 .. j
        BY ShapeFacts
      <4>4. d = A(BelowDouble(i, j)) /\ d # 0 /\ BelowDouble(i, j) \in DoubleSpots
        BY <1>5, <3>1, <3>3, <4>2, <4>3
      <4> QED
        BY <2>1, <4>4
    <3> QED
      BY <2>2, <3>4, <3>5 DEF SingleBlocks
  <2>3. b \in Held(dev.words, inode, DoubleSpots)
    BY <1>2, <1>3, <2>1
  <2> QED
    BY <2>2, <2>3 DEF DoubleBlocks
<1>15. ASSUME NEW n \in Nat, \A k \in Live(n) : At(dev.words, inode, k) # 0
       PROVE  Held(dev.words, inode, DoubleSpots \cap Live(n)) \subseteq S
  <2> SUFFICES ASSUME NEW k \in DoubleSpots, k \in Live(n), A(k) \in Blocks
               PROVE  A(k) \in S
    BY DEF Held, A
  <2>1. \A q \in Live(n) : A(q) # 0
    BY <1>15 DEF A
  <2>2. ASSUME NEW i \in Slots, NEW x \in Nat, D + P + P * i + x < n
        PROVE  index[i] # 0 /\ index[i] \in Entries(index)
    <3>1. ASSUME NEW j \in 0 .. i
          PROVE  index[j] # 0
      <4>1. j \in Slots /\ j <= i /\ i \in Nat /\ j \in Nat
        BY ShapeFacts DEF Slots
      <4>2. P * j <= P * i /\ P * j \in Nat /\ P * i \in Nat
        BY <4>1, ShapeFacts
      <4>3. D + P + P * j < n
        BY <2>2, <4>2, ShapeFacts
      <4>4. InDouble(j) \in Live(n)
        BY <1>4, <4>1, <4>3, StartOf DEF Live
      <4> QED
        BY <1>4, <2>1, <4>1, <4>4
    <3>2. i \in 0 .. i
      BY ShapeFacts
    <3> QED
      BY <1>9, <3>1, <3>2 DEF Entries
  <2>3. CASE k = DoubleSpot
    BY <1>3, <2>3 DEF DoubleBlocks
  <2>4. CASE \E i \in Slots : k = InDouble(i)
    <3>1. PICK i \in Slots : k = InDouble(i)
      BY <2>4
    <3>2. D + P + P * i < n
      BY <3>1, StartOf DEF Live
    <3>3. P * i \in Nat
      BY ShapeFacts
    <3>4. D + P + P * i + 0 < n
      BY <3>2, <3>3, ShapeFacts
    <3>5. index[i] \in Entries(index)
      BY <2>2, <3>4
    <3>6. A(k) = index[i]
      BY <1>4, <3>1
    <3> QED
      BY <3>5, <3>6 DEF DoubleBlocks, SingleBlocks
  <2>5. CASE \E i, j \in Slots : k = BelowDouble(i, j)
    <3>1. PICK i \in Slots, j \in Slots : k = BelowDouble(i, j)
      BY <2>5
    <3>2. D + P + P * i + j < n /\ j \in Nat /\ P * i \in Nat
      BY <3>1, StartOf, ShapeFacts DEF Live
    <3>3. index[i] # 0 /\ index[i] \in Entries(index)
      BY <2>2, <3>2
    <3>4. \A l \in 0 .. j : dev.words[index[i]][l] # 0
      <4> TAKE l \in 0 .. j
      <4>1. l \in Slots /\ l \in Nat /\ l <= j
        BY ShapeFacts DEF Slots
      <4>2. D + P + P * i + l < n
        BY <3>2, <4>1, ShapeFacts
      <4>3. BelowDouble(i, l) \in Live(n)
        BY <1>5, <4>1, <4>2, StartOf DEF Live
      <4> QED
        BY <1>5, <2>1, <3>3, <4>1, <4>3
    <3>5. DOMAIN dev.words[index[i]] = Slots
      BY <1>10, <3>3
    <3>6. dev.words[index[i]][j] \in Entries(dev.words[index[i]])
      BY <3>4, <3>5 DEF Entries
    <3>7. A(k) = dev.words[index[i]][j]
      BY <1>5, <3>1, <3>3
    <3> QED
      BY <3>3, <3>6, <3>7 DEF DoubleBlocks, SingleBlocks
  <2> QED
    BY <2>3, <2>4, <2>5, SpotSets
<1> QED
  BY <1>13, <1>14, <1>15 DEF Gives, b

\* What the direct pointers of a sound tree hold.
LEMMA DirectHolds ==
    ASSUME NEW dev, NEW inode, Sound(dev, inode)
    PROVE  /\ dev \in Devices /\ inode.direct \in [0 .. D - 1 -> Words]
           /\ \A x \in 0 .. D - 1 : /\ At(dev.words, inode, DirectSpot(x)) = inode.direct[x]
                                    /\ DirectSpot(x) \in Spots /\ DirectSpot(x) \in DirectSpots
           /\ \A x \in 0 .. D - 1 : inode.direct[x] # 0 =>
                 inode.direct[x] \in Blocks /\ dev.owner[inode.direct[x]] = dev.file
           /\ \A x, y \in 0 .. D - 1 :
                 inode.direct[x] = inode.direct[y] /\ inode.direct[x] # 0 => x = y
<1>1. dev \in Devices /\ inode.direct \in [0 .. D - 1 -> Words]
  BY DEF Sound, Inodes
<1>2. \A x \in 0 .. D - 1 : /\ At(dev.words, inode, DirectSpot(x)) = inode.direct[x]
                            /\ DirectSpot(x) \in Spots /\ DirectSpot(x) \in DirectSpots
  BY SpotsAre, AtDirect DEF Roots, DirectSpots
<1>3. \A x \in 0 .. D - 1 : inode.direct[x] # 0 =>
         inode.direct[x] \in Blocks /\ dev.owner[inode.direct[x]] = dev.file
  <2> TAKE x \in 0 .. D - 1
  <2>1. inode.direct[x] \in Words
    BY <1>1
  <2> QED
    BY <1>2, <2>1 DEF Sound, OwnedAt, Words
<1>4. ASSUME NEW x \in 0 .. D - 1, NEW y \in 0 .. D - 1,
             inode.direct[x] = inode.direct[y], inode.direct[x] # 0
      PROVE  x = y
  <2>1. DirectSpot(x) = DirectSpot(y)
    BY <1>2, <1>4 DEF Sound, Apart
  <2>2. DirectSpot(x)[2] = x /\ DirectSpot(y)[2] = y
    BY DEF DirectSpot
  <2> QED
    BY <2>1, <2>2
<1> QED
  BY <1>1, <1>2, <1>3, <1>4

\* The direct blocks, as free_inode gives them back.
LEMMA DirectFreed ==
    ASSUME NEW dev, NEW inode, Sound(dev, inode)
    PROVE  \E S : /\ FreeAll(dev, Used(inode.direct)) = Freed(dev, S)
                  /\ Gives(dev.words, inode, DirectSpots, S)
<1> DEFINE index == inode.direct
           S == Entries(index)
<1>1. dev \in Devices /\ index \in [0 .. D - 1 -> Words] /\ D \in Nat \ {0}
  BY DirectHolds, ShapeFacts
<1>2. DOMAIN index = 0 .. D - 1
  BY <1>1
<1>3. FreeAll(dev, Used(index)) = Freed(dev, S)
  <2>1. OwnEntries(dev, index)
    BY <1>2, DirectHolds DEF OwnEntries
  <2> HIDE DEF index
  <2> QED
    BY <1>1, <2>1, EntriesFreed
<1>4. S \subseteq Held(dev.words, inode, DirectSpots)
  <2> SUFFICES ASSUME NEW c \in S
               PROVE  c \in Held(dev.words, inode, DirectSpots)
    OBVIOUS
  <2>1. PICK x \in 0 .. D - 1 : c = index[x] /\ \A j \in 0 .. x : index[j] # 0
    BY <1>2 DEF Entries
  <2>2. x \in 0 .. x
    OBVIOUS
  <2>3. index[x] # 0
    BY <2>1, <2>2
  <2> QED
    BY <2>1, <2>3, DirectHolds DEF Held
<1>5. ASSUME NEW n \in Nat, \A k \in Live(n) : At(dev.words, inode, k) # 0
      PROVE  Held(dev.words, inode, DirectSpots \cap Live(n)) \subseteq S
  <2> SUFFICES ASSUME NEW k \in DirectSpots, k \in Live(n)
               PROVE  At(dev.words, inode, k) \in S
    BY DEF Held
  <2>1. PICK x \in 0 .. D - 1 : k = DirectSpot(x)
    BY DEF DirectSpots
  <2>2. x < n
    BY <2>1, StartOf DEF Live
  <2>3. \A y \in 0 .. x : index[y] # 0
    <3> TAKE y \in 0 .. x
    <3>1. y \in 0 .. D - 1 /\ y < n
      BY <2>2, ShapeFacts
    <3>2. DirectSpot(y) \in Live(n)
      BY <3>1, DirectHolds, StartOf DEF Live
    <3> QED
      BY <1>5, <3>1, <3>2, DirectHolds
  <2>4. index[x] \in S
    BY <1>2, <2>3 DEF Entries
  <2> QED
    BY <2>1, <2>4, DirectHolds
<1> QED
  BY <1>3, <1>4, <1>5 DEF Gives

DirectFrom(n, last) == {DirectSpot(x) : x \in n .. last - 1}
DirectList(inode, n, last) == [i \in 1 .. last - n |-> inode.direct[n + i - 1]]

\* The direct blocks from n to last, as remove_dblocks_from_inode gives them back.
LEMMA RangeFreed ==
    ASSUME NEW dev, NEW inode, Sound(dev, inode), NEW n \in Nat, NEW last \in Nat,
           n <= last, last <= D, \A x \in n .. last - 1 : inode.direct[x] # 0
    PROVE  FreeAll(dev, DirectList(inode, n, last)) =
              Freed(dev, Held(dev.words, inode, DirectFrom(n, last)))
<1> DEFINE m == last - n
           bs == [i \in 1 .. m |-> inode.direct[n + i - 1]]
           S == {bs[i] : i \in 1 .. m}
<1>1. m \in Nat /\ \A i \in 1 .. m : n + i - 1 \in n .. last - 1 /\ n + i - 1 \in 0 .. D - 1
  BY ShapeFacts
<1>2. \A x \in n .. last - 1 : x - n + 1 \in 1 .. m /\ n + (x - n + 1) - 1 = x /\ x \in 0 .. D - 1
  BY ShapeFacts
<1> HIDE DEF m
<1>3. OwnList(dev, m, bs)
  <2>1. bs \in [1 .. m -> Blocks]
    BY <1>1, DirectHolds
  <2>2. \A i \in 1 .. m : dev.owner[bs[i]] = dev.file
    BY <1>1, DirectHolds
  <2>3. \A i, j \in 1 .. m : bs[i] = bs[j] => n + i - 1 = n + j - 1
    BY <1>1, DirectHolds
  <2>4. \A i, j \in 1 .. m : n + i - 1 = n + j - 1 => i = j
    OBVIOUS
  <2> QED
    BY <2>1, <2>2, <2>3, <2>4 DEF OwnList
<1>4. FreeAll(dev, bs) = Freed(dev, S)
  <2> HIDE DEF bs
  <2> QED
    BY <1>1, <1>3, DirectHolds, FreeAllFrees
<1>5. S = Held(dev.words, inode, DirectFrom(n, last))
  <2>1. ASSUME NEW i \in 1 .. m
        PROVE  bs[i] \in Held(dev.words, inode, DirectFrom(n, last))
    <3> DEFINE x == n + i - 1
    <3>1. x \in n .. last - 1 /\ x \in 0 .. D - 1
      BY <1>1
    <3>2. bs[i] = inode.direct[x] /\ inode.direct[x] # 0
      BY <3>1
    <3>3. DirectSpot(x) \in DirectFrom(n, last)
      BY <3>1 DEF DirectFrom
    <3> HIDE DEF x, bs
    <3> QED
      BY <3>1, <3>2, <3>3, DirectHolds DEF Held
  <2>2. ASSUME NEW c \in Held(dev.words, inode, DirectFrom(n, last))
        PROVE  c \in S
    <3>1. PICK x \in n .. last - 1 : At(dev.words, inode, DirectSpot(x)) = c
      BY DEF Held, DirectFrom
    <3>2. c = inode.direct[x]
      BY <1>2, <3>1, DirectHolds
    <3>3. bs[x - n + 1] = inode.direct[x]
      BY <1>2
    <3> HIDE DEF bs
    <3> QED
      BY <1>2, <3>2, <3>3
  <2> HIDE DEF bs
  <2> QED
    BY <2>1, <2>2
<1> QED
  BY <1>4, <1>5 DEF m, DirectList

\* Spots that lose their blocks together with all that is below them.
Branches(K) == K \subseteq Spots /\ \A k \in Spots \ Roots : k \in K <=> Above(k) \in K

\* The inode no longer holds the branches K.
Pruned(wds, inode, K, inode2) ==
    \A q \in Roots : At(wds, inode2, q) = IF q \in K THEN 0 ELSE At(wds, inode, q)

\* A tree without some of its branches, from which blocks were given back.
LEMMA PrunedTree ==
    ASSUME NEW dev, NEW inode, Sound(dev, inode), NEW K, Branches(K),
           NEW R, R \subseteq Held(dev.words, inode, K),
           NEW inode2 \in Inodes, Pruned(dev.words, inode, K, inode2),
           NEW new, new = Freed(dev, R)
    PROVE  /\ \A q \in Spots : At(new.words, inode2, q) = IF q \in K THEN 0 ELSE At(dev.words, inode, q)
           /\ \A q \in Spots \ K : At(dev.words, inode, q) # 0 =>
                 /\ At(dev.words, inode, q) \in Blocks
                 /\ new.owner[At(dev.words, inode, q)] = dev.owner[At(dev.words, inode, q)]
           /\ Sound(new, inode2) /\ Spares(dev, new) /\ new.misfreed = dev.misfreed
           /\ FreeAreZero(dev) => FreeAreZero(new)
<1> DEFINE A(q) == At(dev.words, inode, q)
           B(q) == At(new.words, inode2, q)
<1>1. dev \in Devices /\ new \in Devices /\ inode \in Inodes
  BY FreedTyped DEF Sound
<1>2. /\ new.file = dev.file /\ new.misfreed = dev.misfreed /\ new.overrun = dev.overrun
      /\ \A b \in Blocks :
            /\ b \in R => new.owner[b] = Nobody /\ new.words[b] = ZeroBlock
            /\ b \notin R => new.owner[b] = dev.owner[b] /\ new.words[b] = dev.words[b]
  BY <1>1, FreedTyped DEF Freed
<1>3. K \in SUBSET Spots /\ Spots \ K \in SUBSET Spots
  BY DEF Branches
<1>4. \A q \in Spots \ K : A(q) # 0 => A(q) \in Blocks /\ A(q) \notin R
  <2>1. Held(dev.words, inode, Spots \ K) \cap Held(dev.words, inode, K) = {}
    BY <1>3, HeldFacts
  <2>2. \A q \in Spots \ K : A(q) # 0 => A(q) \in Held(dev.words, inode, Spots \ K)
    BY <1>3, HeldFacts
  <2> QED
    BY <2>1, <2>2 DEF Held
<1>5. \A b \in R : dev.owner[b] = dev.file /\ b \in Blocks
  BY <1>3, HeldFacts DEF Held
<1>6. \A q \in Roots : B(q) = IF q \in K THEN 0 ELSE A(q)
  BY AtRoot DEF Pruned
<1>7. ASSUME NEW q \in Spots \ Roots, B(Above(q)) = IF Above(q) \in K THEN 0 ELSE A(Above(q))
      PROVE  B(q) = IF q \in K THEN 0 ELSE A(q)
  <2> DEFINE c == Above(q)
             i == SlotOf(q)
  <2>1. c \in Spots /\ (q \in K <=> c \in K)
    BY AboveFacts DEF Branches
  <2>2. B(q) = Entry(new.words, B(c), i) /\ A(q) = Entry(dev.words, A(c), i)
    BY AtBelow
  <2>3. B(c) = IF c \in K THEN 0 ELSE A(c)
    BY <1>7
  <2>4. c \notin K /\ A(c) # 0 => new.words[A(c)] = dev.words[A(c)]
    BY <1>2, <1>4, <2>1
  <2> HIDE DEF A, B, c, i
  <2> QED
    BY <2>1, <2>2, <2>3, <2>4 DEF Entry
<1>8. \A q \in Spots : B(q) = IF q \in K THEN 0 ELSE A(q)
  <2> HIDE DEF A, B
  <2>1. \A q \in Spots \ Roots : Above(q) \in Roots => B(q) = IF q \in K THEN 0 ELSE A(q)
    BY <1>6, <1>7
  <2>2. \A q \in Spots \ Roots : Above(q) \notin Roots => B(q) = IF q \in K THEN 0 ELSE A(q)
    <3> TAKE q \in Spots \ Roots
    <3> HAVE Above(q) \notin Roots
    <3>1. Above(q) \in Spots \ Roots /\ Above(Above(q)) \in Roots
      BY AboveFacts
    <3> QED
      BY <1>7, <2>1, <3>1
  <2> QED
    BY <1>6, <2>1, <2>2
<1>9. Sound(new, inode2)
  <2> HIDE DEF A, B
  <2>1. \A q \in Spots : B(q) # 0 => q \notin K /\ B(q) = A(q) /\ A(q) # 0
    BY <1>8
  <2>2. \A q \in Spots : A(q) # 0 => dev.owner[A(q)] = dev.file
    BY DEF Sound, OwnedAt, A
  <2>3. \A q \in Spots : B(q) # 0 => new.owner[B(q)] = new.file
    BY <1>2, <1>4, <2>1, <2>2
  <2>4. \A k, q \in Spots : A(k) # 0 /\ A(k) = A(q) => k = q
    BY DEF Sound, Apart, A
  <2>5. \A k, q \in Spots : B(k) # 0 /\ B(k) = B(q) => k = q
    BY <2>1, <2>4
  <2> QED
    BY <1>1, <2>3, <2>5 DEF Sound, OwnedAt, Apart, B
<1>10. Spares(dev, new)
  BY <1>2, <1>5 DEF Spares
<1>11. FreeAreZero(dev) => FreeAreZero(new)
  BY <1>2 DEF FreeAreZero
<1> QED
  BY <1>2, <1>4, <1>8, <1>9, <1>10, <1>11

\* No block is lost when all blocks of the branches are given back.
LEMMA PrunedAccounted ==
    ASSUME NEW dev, NEW inode, Sound(dev, inode), NEW K, Branches(K),
           NEW R, R \subseteq Held(dev.words, inode, K),
           NEW inode2 \in Inodes, Pruned(dev.words, inode, K, inode2),
           NEW n, Live(n) \subseteq Spots, Accounted(dev, inode, Live(n), {}),
           Held(dev.words, inode, K \cap Live(n)) \subseteq R,
           NEW m, Live(n) \ K \subseteq Live(m)
    PROVE  Accounted(Freed(dev, R), inode2, Live(m), {})
<1> DEFINE new == Freed(dev, R)
           A(q) == At(dev.words, inode, q)
           B(q) == At(new.words, inode2, q)
<1>1. dev \in Devices /\ new.file = dev.file /\ Nobody \notin Files /\ dev.file \in Files
  BY ShapeFacts DEF Sound, Devices, Freed
<1>2. \A q \in Spots : B(q) = IF q \in K THEN 0 ELSE A(q)
  BY PrunedTree
<1>3. \A b \in Blocks : new.owner[b] = IF b \in R THEN Nobody ELSE dev.owner[b]
  BY <1>1, FreedTyped
<1> HIDE DEF new, B
<1>4. ASSUME NEW b \in Blocks, new.owner[b] = new.file
      PROVE  \E k \in Live(m) : B(k) = b
  <2>1. b \notin R /\ dev.owner[b] = dev.file
    BY <1>1, <1>3, <1>4
  <2>2. PICK k \in Live(n) : A(k) = b
    BY <2>1 DEF Accounted
  <2>3. k \notin K
    BY <2>1, <2>2 DEF Held
  <2>4. B(k) = b /\ k \in Live(m)
    BY <1>2, <2>2, <2>3
  <2> QED
    BY <2>4
<1>5. ASSUME NEW k \in Spots, B(k) # 0
      PROVE  k \in Live(m)
  <2>1. k \notin K /\ A(k) # 0
    BY <1>2, <1>5
  <2>2. k \in Live(n)
    BY <2>1 DEF Accounted
  <2> QED
    BY <2>1, <2>2
<1> QED
  BY <1>4, <1>5 DEF Accounted, new, B

\* An inode without some direct pointers, or without an index block.
LEMMA InodeDirect ==
    ASSUME NEW inode \in Inodes, NEW n \in Nat, NEW last \in Nat, last <= D,
           NEW inode2, inode2 = [inode EXCEPT !.direct = Cleared(@, n, last)]
    PROVE  /\ inode2 \in Inodes
           /\ inode2.num_blocks = inode.num_blocks /\ inode2.file_size = inode.file_size
           /\ inode2.triple = inode.triple
           /\ \A wds : Pruned(wds, inode, DirectFrom(n, last), inode2)
<1> DEFINE d == Cleared(inode.direct, n, last)
<1>1. inode.direct \in [0 .. D - 1 -> Words] /\ 0 \in Words
  BY DEF Inodes, Words
<1>2. /\ d \in [0 .. D - 1 -> Words]
      /\ \A x \in 0 .. D - 1 : d[x] = IF x \in n .. last - 1 THEN 0 ELSE inode.direct[x]
  BY <1>1 DEF Cleared
<1>3. inode2 = [inode EXCEPT !.direct = d]
  OBVIOUS
<1> HIDE DEF d
<1>4. /\ inode2.direct = d /\ inode2.single = inode.single /\ inode2.double = inode.double
      /\ inode2.num_blocks = inode.num_blocks /\ inode2.file_size = inode.file_size
      /\ inode2.triple = inode.triple
  BY <1>3 DEF Inodes
<1>5. inode2 \in Inodes
  BY <1>2, <1>3 DEF Inodes
<1>6. ASSUME NEW wds, NEW q \in Roots
      PROVE  At(wds, inode2, q) = IF q \in DirectFrom(n, last) THEN 0 ELSE At(wds, inode, q)
  <2>1. \A x \in n .. last - 1 : DirectSpot(x)[1] = "direct" /\ DirectSpot(x)[2] = x
    BY DEF DirectSpot
  <2>2. CASE q = SingleSpot
    <3>1. q \notin DirectFrom(n, last)
      BY <2>1, <2>2, Heads DEF DirectFrom
    <3> QED
      BY <1>4, <2>2, <3>1, AtSingle
  <2>3. CASE q = DoubleSpot
    <3>1. q \notin DirectFrom(n, last)
      BY <2>1, <2>3, Heads DEF DirectFrom
    <3> QED
      BY <1>4, <2>3, <3>1, AtDouble
  <2>4. CASE \E x \in 0 .. D - 1 : q = DirectSpot(x)
    <3>1. PICK x \in 0 .. D - 1 : q = DirectSpot(x)
      BY <2>4
    <3>2. DirectSpot(x)[2] = x
      BY DEF DirectSpot
    <3>3. q \in DirectFrom(n, last) <=> x \in n .. last - 1
      BY <2>1, <3>1, <3>2 DEF DirectFrom
    <3>4. At(wds, inode2, q) = d[x] /\ At(wds, inode, q) = inode.direct[x]
      BY <1>4, <3>1, AtDirect
    <3> QED
      BY <1>2, <3>3, <3>4
  <2> QED
    BY <2>2, <2>3, <2>4, RootCases
<1>7. \A wds : Pruned(wds, inode, DirectFrom(n, last), inode2)
  BY <1>6 DEF Pruned
<1> QED
  BY <1>4, <1>5, <1>7

\* A tree cut at its single indirect block.
LEMMA InodeSingle ==
    ASSUME NEW inode, NEW inode1 \in Inodes, NEW wds, NEW K, Pruned(wds, inode, K, inode1),
           NEW inode2, inode2 = [inode1 EXCEPT !.single = 0]
    PROVE  /\ inode2 \in Inodes
           /\ inode2.num_blocks = inode1.num_blocks /\ inode2.file_size = inode1.file_size
           /\ inode2.triple = inode1.triple
           /\ Pruned(wds, inode, K \cup SingleSpots, inode2)
<1>1. /\ inode2.direct = inode1.direct /\ inode2.single = 0 /\ inode2.double = inode1.double
      /\ inode2.num_blocks = inode1.num_blocks /\ inode2.file_size = inode1.file_size
      /\ inode2.triple = inode1.triple
  BY DEF Inodes
<1>2. inode2 \in Inodes
  BY DEF Inodes, Words
<1>3. ASSUME NEW q \in Roots
      PROVE  At(wds, inode2, q) = IF q \in K \cup SingleSpots THEN 0 ELSE At(wds, inode, q)
  <2>1. At(wds, inode1, q) = IF q \in K THEN 0 ELSE At(wds, inode, q)
    BY DEF Pruned
  <2>2. CASE q = SingleSpot
    BY <1>1, <2>2, AtSingle DEF SingleSpots
  <2>3. CASE q # SingleSpot
    <3>1. q \notin SingleSpots
      BY <2>3, SpotsAre DEF SingleSpots
    <3>2. At(wds, inode2, q) = At(wds, inode1, q)
      <4>1. CASE q = DoubleSpot
        BY <1>1, <4>1, AtDouble
      <4>2. CASE \E x \in 0 .. D - 1 : q = DirectSpot(x)
        <5>1. PICK x \in 0 .. D - 1 : q = DirectSpot(x)
          BY <4>2
        <5>2. At(wds, inode2, q) = inode2.direct[x] /\ At(wds, inode1, q) = inode1.direct[x]
          BY <5>1, AtDirect
        <5> QED
          BY <1>1, <5>2
      <4> QED
        BY <2>3, <4>1, <4>2, RootCases
    <3> QED
      BY <2>1, <3>1, <3>2
  <2> QED
    BY <2>2, <2>3
<1> QED
  BY <1>1, <1>2, <1>3 DEF Pruned

\* A tree cut at its double indirect block.
LEMMA InodeDouble ==
    ASSUME NEW inode, NEW inode1 \in Inodes, NEW wds, NEW K, Pruned(wds, inode, K, inode1),
           NEW inode2, inode2 = [inode1 EXCEPT !.double = 0]
    PROVE  /\ inode2 \in Inodes
           /\ inode2.num_blocks = inode1.num_blocks /\ inode2.file_size = inode1.file_size
           /\ inode2.triple = inode1.triple
           /\ Pruned(wds, inode, K \cup DoubleSpots, inode2)
<1>1. /\ inode2.direct = inode1.direct /\ inode2.double = 0 /\ inode2.single = inode1.single
      /\ inode2.num_blocks = inode1.num_blocks /\ inode2.file_size = inode1.file_size
      /\ inode2.triple = inode1.triple
  BY DEF Inodes
<1>2. inode2 \in Inodes
  BY DEF Inodes, Words
<1>3. ASSUME NEW q \in Roots
      PROVE  At(wds, inode2, q) = IF q \in K \cup DoubleSpots THEN 0 ELSE At(wds, inode, q)
  <2>1. At(wds, inode1, q) = IF q \in K THEN 0 ELSE At(wds, inode, q)
    BY DEF Pruned
  <2>2. CASE q = DoubleSpot
    BY <1>1, <2>2, AtDouble DEF DoubleSpots
  <2>3. CASE q # DoubleSpot
    <3>1. q \notin DoubleSpots
      BY <2>3, SpotsAre, SpotSets
    <3>2. At(wds, inode2, q) = At(wds, inode1, q)
      <4>1. CASE q = SingleSpot
        BY <1>1, <4>1, AtSingle
      <4>2. CASE \E x \in 0 .. D - 1 : q = DirectSpot(x)
        <5>1. PICK x \in 0 .. D - 1 : q = DirectSpot(x)
          BY <4>2
        <5>2. At(wds, inode2, q) = inode2.direct[x] /\ At(wds, inode1, q) = inode1.direct[x]
          BY <5>1, AtDirect
        <5> QED
          BY <1>1, <5>2
      <4> QED
        BY <2>3, <4>1, <4>2, RootCases
    <3> QED
      BY <2>1, <3>1, <3>2
  <2> QED
    BY <2>2, <2>3
<1> QED
  BY <1>1, <1>2, <1>3 DEF Pruned

\* Direct blocks, everything under the single or under the double indirect
\* block are branches.
LEMMA BranchKinds ==
    ASSUME NEW n \in Nat, NEW last \in Nat, last <= D
    PROVE  /\ Branches(DirectFrom(n, last))
           /\ Branches(DirectFrom(n, last) \cup SingleSpots)
           /\ Branches(DirectFrom(n, last) \cup SingleSpots \cup DoubleSpots)
           /\ DirectFrom(n, last) \subseteq DirectSpots
<1>1. DirectFrom(n, last) \subseteq DirectSpots
  BY ShapeFacts DEF DirectFrom, DirectSpots
<1>2. \A k \in DirectSpots : k \in Roots
  BY SpotsAre DEF DirectSpots
<1>3. \A k \in Spots \ Roots : \/ k \in SingleSpots /\ Above(k) = SingleSpot
                               \/ k \in DoubleSpots /\ Above(k) = DoubleSpot
                               \/ k \in DoubleSpots /\ \E i \in Slots : Above(k) = InDouble(i)
  <2> TAKE k \in Spots \ Roots
  <2>1. k # SingleSpot /\ k # DoubleSpot /\ \A x \in 0 .. D - 1 : k # DirectSpot(x)
    BY SpotsAre
  <2>2. CASE \E i \in Slots : k = InSingle(i)
    BY <2>2, SpotsAre DEF SingleSpots
  <2>3. CASE \E i \in Slots : k = InDouble(i)
    BY <2>3, SpotsAre DEF DoubleSpots
  <2>4. CASE \E i, j \in Slots : k = BelowDouble(i, j)
    BY <2>4, SpotsAre, SpotSets
  <2> QED
    BY <2>1, <2>2, <2>3, <2>4, SpotCases
<1>4. /\ SingleSpot \in SingleSpots /\ DoubleSpot \in DoubleSpots
      /\ \A i \in Slots : InDouble(i) \in DoubleSpots
  BY DEF SingleSpots, DoubleSpots
<1>5. \A k \in Spots \ Roots : Above(k) \notin DirectSpots
  BY <1>3, <1>4, SpotSets
<1> QED
  BY <1>1, <1>2, <1>3, <1>4, <1>5, SpotSets DEF Branches

\* Which blocks the single and the double indirect blocks serve.
LEMMA StartRegions ==
    /\ \A k \in SingleSpots : Start(k) \in Nat /\ Start(k) >= D
    /\ \A k \in DoubleSpots : Start(k) \in Nat /\ Start(k) >= D + P
    /\ \A k \in SingleSpots : Start(k) < D + P
<1>1. ASSUME NEW k \in SingleSpots
      PROVE  Start(k) \in Nat /\ Start(k) >= D /\ Start(k) < D + P
  <2>1. CASE k = SingleSpot
    BY <2>1, StartOf, ShapeFacts
  <2>2. CASE \E i \in Slots : k = InSingle(i)
    BY <2>2, StartOf, ShapeFacts
  <2> QED
    BY <2>1, <2>2 DEF SingleSpots
<1>2. ASSUME NEW k \in DoubleSpots
      PROVE  Start(k) \in Nat /\ Start(k) >= D + P
  <2>1. CASE k = DoubleSpot
    BY <2>1, StartOf, ShapeFacts
  <2>2. CASE \E i \in Slots : k = InDouble(i)
    <3>1. PICK i \in Slots : k = InDouble(i)
      BY <2>2
    <3>2. P * i \in Nat
      BY ShapeFacts
    <3> QED
      BY <3>1, <3>2, StartOf, ShapeFacts
  <2>3. CASE \E i, j \in Slots : k = BelowDouble(i, j)
    <3>1. PICK i \in Slots, j \in Slots : k = BelowDouble(i, j)
      BY <2>3
    <3>2. P * i \in Nat /\ j \in Nat
      BY ShapeFacts
    <3> QED
      BY <3>1, <3>2, StartOf, ShapeFacts
  <2> QED
    BY <2>1, <2>2, <2>3, SpotSets
<1> QED
  BY <1>1, <1>2

(* What a cut from curr to n blocks makes of a tree: some branches, none of*)
(* which is in use with n blocks, are gone, and their blocks given back.   *)
CutFor(dev, inode, n, curr, dev2, inode2) ==
    \E K, R : /\ Branches(K) /\ K \cap Live(n) = {} /\ Live(curr) \ K \subseteq Live(n)
              /\ R \subseteq Held(dev.words, inode, K) /\ Held(dev.words, inode, K \cap Live(curr)) \subseteq R
              /\ dev2 = Freed(dev, R)
              /\ inode2 \in Inodes /\ Pruned(dev.words, inode, K, inode2)
              /\ inode2.num_blocks = inode.num_blocks /\ inode2.file_size = inode.file_size
              /\ inode2.triple = inode.triple

\* remove_dblocks_from_inode, when the cut is in the direct blocks.
LEMMA CutDirect ==
    ASSUME NEW dev, NEW inode, Sound(dev, inode), NEW r, r.dev = dev, r.inode = inode,
           NEW n \in Nat, NEW curr \in Nat, n <= D, n <= curr, curr <= Capacity,
           \A k \in Live(curr) : At(dev.words, inode, k) # 0,
           NEW new, new = RemoveFromDirect(r, n, curr)
    PROVE  CutFor(dev, inode, n, curr, new.dev, new.inode)
<1> DEFINE last == IF curr < D THEN curr ELSE D
           K1 == DirectFrom(n, last)
           R1 == Held(dev.words, inode, K1)
           dev1 == FreeAll(r.dev, [i \in 1 .. last - n |-> r.inode.direct[n + i - 1]])
           inode1 == [r.inode EXCEPT !.direct = Cleared(@, n, last)]
           dev2 == RemoveSingle(dev1, r.inode.single)
           inode2 == [inode1 EXCEPT !.single = 0]
           dev3 == RemoveDouble(dev2, r.inode.double)
           inode3 == [inode2 EXCEPT !.double = 0]
           wds == dev.words
<1>1. last \in Nat /\ last <= D /\ n <= last /\ last <= curr /\ (curr < D => last = curr) /\ (~ (curr < D) => last = D)
  BY ShapeFacts
<1>2. /\ curr <= D => new.dev = dev1 /\ new.inode = inode1
      /\ curr > D /\ curr <= D + P => new.dev = dev2 /\ new.inode = inode2
      /\ curr > D + P => new.dev = dev3 /\ new.inode = inode3
  <2>1. curr <= D + P + P * P
    BY DEF Capacity
  <2> DEFINE last0 == IF curr < D THEN curr ELSE D
             direct == [dev |-> dev1, inode |-> inode1]
             single == [dev |-> dev2, inode |-> inode2]
             double == [dev |-> dev3, inode |-> inode3]
             triple == [dev |-> RemoveDouble(dev3, r.inode.triple), inode |-> [inode3 EXCEPT !.triple = 0]]
  <2>2. new = CASE curr <= D -> direct
                [] curr > D /\ curr <= D + P -> single
                [] curr > D + P /\ curr <= D + P + P * P -> double
                [] curr > D + P + P * P -> triple
    BY DEF RemoveFromDirect
  <2>3. /\ direct.dev = dev1 /\ direct.inode = inode1 /\ single.dev = dev2 /\ single.inode = inode2
        /\ double.dev = dev3 /\ double.inode = inode3
    OBVIOUS
  <2> HIDE DEF dev1, dev2, dev3, inode1, inode2, inode3, direct, single, double, triple, last
  <2>4. /\ curr <= D => ~ (curr > D) /\ ~ (curr > D + P) /\ ~ (curr > D + P + P * P)
        /\ curr > D /\ curr <= D + P => ~ (curr <= D) /\ ~ (curr > D + P) /\ ~ (curr > D + P + P * P)
        /\ curr > D + P => ~ (curr <= D) /\ ~ (curr <= D + P) /\ ~ (curr > D + P + P * P)
    BY <2>1, ShapeFacts
  <2>5. curr <= D => new = direct
    BY <2>2, <2>4
  <2>6. curr > D /\ curr <= D + P => new = single
    BY <2>2, <2>4
  <2>7. curr > D + P => new = double
    BY <2>1, <2>2, <2>4
  <2> QED
    BY <2>3, <2>5, <2>6, <2>7
<1> HIDE DEF last
<1>3. dev \in Devices /\ inode \in Inodes
  BY DEF Sound
<1>4. dev1 = Freed(dev, R1)
  <2>1. \A x \in n .. last - 1 : inode.direct[x] # 0
    <3> TAKE x \in n .. last - 1
    <3>1. x \in 0 .. D - 1 /\ x < curr
      BY <1>1, ShapeFacts
    <3>2. DirectSpot(x) \in Live(curr)
      BY <3>1, StartOf, DirectHolds DEF Live
    <3> QED
      BY <3>1, <3>2, DirectHolds
  <2>2. FreeAll(dev, DirectList(inode, n, last)) = Freed(dev, R1)
    BY <1>1, <2>1, RangeFreed
  <2>3. dev1 = FreeAll(dev, DirectList(inode, n, last))
    BY DEF DirectList
  <2> QED
    BY <2>2, <2>3
<1>5. /\ inode1 \in Inodes /\ Pruned(wds, inode, K1, inode1)
      /\ inode1.num_blocks = inode.num_blocks /\ inode1.file_size = inode.file_size
      /\ inode1.triple = inode.triple
  BY <1>1, <1>3, InodeDirect
<1>6. /\ Branches(K1) /\ Branches(K1 \cup SingleSpots)
      /\ Branches(K1 \cup SingleSpots \cup DoubleSpots) /\ K1 \subseteq DirectSpots
      /\ K1 \in SUBSET Spots /\ SingleSpots \in SUBSET Spots /\ DoubleSpots \in SUBSET Spots
  BY <1>1, BranchKinds, SpotSets
<1>7. \A k \in DirectSpots : Start(k) \in Nat /\ (k \in K1 <=> n <= Start(k) /\ Start(k) < last)
  <2> TAKE k \in DirectSpots
  <2>1. PICK x \in 0 .. D - 1 : k = DirectSpot(x)
    BY DEF DirectSpots
  <2>2. \A y : DirectSpot(y)[2] = y
    BY DEF DirectSpot
  <2>3. k \in K1 <=> x \in n .. last - 1
    BY <2>1, <2>2 DEF DirectFrom
  <2>4. Start(k) = x
    BY <2>1, StartOf
  <2> QED
    BY <1>1, <2>3, <2>4
<1>8. /\ K1 \cap Live(n) = {} /\ SingleSpots \cap Live(n) = {} /\ DoubleSpots \cap Live(n) = {}
  <2>1. \A k \in K1 : ~ (Start(k) < n)
    BY <1>6, <1>7
  <2>2. \A k \in SingleSpots : ~ (Start(k) < n)
    BY StartRegions, ShapeFacts
  <2>3. \A k \in DoubleSpots : ~ (Start(k) < n)
    BY StartRegions, ShapeFacts
  <2> QED
    BY <2>1, <2>2, <2>3 DEF Live
<1>9. \A k \in Live(curr) : \/ k \in Live(n) \/ k \in K1
                            \/ k \in SingleSpots /\ curr > D
                            \/ k \in DoubleSpots /\ curr > D + P
  <2> TAKE k \in Live(curr)
  <2>1. k \in Spots /\ Start(k) < curr
    BY DEF Live
  <2>2. CASE k \in DirectSpots
    <3>1. Start(k) < D
      <4>1. PICK x \in 0 .. D - 1 : k = DirectSpot(x)
        BY <2>2 DEF DirectSpots
      <4> QED
        BY <4>1, StartOf, ShapeFacts
    <3>2. Start(k) < last
      BY <1>1, <1>7, <2>1, <2>2, <3>1
    <3>3. Start(k) < n \/ n <= Start(k)
      BY <1>7, <2>2
    <3> QED
      BY <1>7, <2>1, <2>2, <3>2, <3>3 DEF Live
  <2>3. CASE k \in SingleSpots
    BY <2>1, <2>3, StartRegions, ShapeFacts
  <2>4. CASE k \in DoubleSpots
    BY <2>1, <2>4, StartRegions, ShapeFacts
  <2> QED
    BY <2>1, <2>2, <2>3, <2>4, SpotSets
<1> DEFINE HeldIn(M) == Held(wds, inode, M)
<1>10. \A M, N : HeldIn(M) \cup HeldIn(N) = HeldIn(M \cup N) /\ HeldIn(M \cap Live(curr)) \subseteq HeldIn(M)
  BY DEF Held
<1>11. CASE curr <= D
  <2>1. R1 \subseteq HeldIn(K1) /\ HeldIn(K1 \cap Live(curr)) \subseteq R1
    BY <1>10
  <2>2. Live(curr) \ K1 \subseteq Live(n)
    BY <1>9, <1>11, ShapeFacts
  <2>3. new.dev = Freed(dev, R1) /\ new.inode = inode1
    BY <1>2, <1>4, <1>11
  <2> HIDE DEF K1, R1, inode1, wds
  <2>4. /\ Branches(K1) /\ K1 \cap Live(n) = {} /\ Live(curr) \ K1 \subseteq Live(n)
        /\ R1 \subseteq Held(dev.words, inode, K1) /\ Held(dev.words, inode, K1 \cap Live(curr)) \subseteq R1
        /\ new.dev = Freed(dev, R1)
        /\ new.inode \in Inodes /\ Pruned(dev.words, inode, K1, new.inode)
        /\ new.inode.num_blocks = inode.num_blocks /\ new.inode.file_size = inode.file_size
        /\ new.inode.triple = inode.triple
    BY <1>5, <1>6, <1>8, <2>1, <2>2, <2>3 DEF wds
  <2> QED
    BY <2>4 DEF CutFor
<1>12. CASE curr > D
  <2>1. inode.single # 0
    <3>1. SingleSpot \in Live(curr)
      BY <1>12, SpotsAre, StartOf DEF Live, Roots
    <3> QED
      BY <3>1, AtSingle
  <2>2. R1 \cap HeldIn(SingleSpots) = {}
    <3>1. K1 \cap SingleSpots = {}
      BY <1>6, SpotSets
    <3> QED
      BY <1>6, <3>1, HeldFacts
  <2>3. PICK S2 : /\ RemoveSingle(Freed(dev, R1), inode.single) = Freed(dev, R1 \cup S2)
                  /\ Gives(wds, inode, SingleSpots, S2)
    BY <2>1, <2>2, SingleFreed
  <2> DEFINE K2 == K1 \cup SingleSpots
             R2 == R1 \cup S2
  <2>4. dev2 = Freed(dev, R2)
    <3> HIDE DEF dev1, R1
    <3> QED
      BY <1>4, <2>3
  <2>5. R2 \subseteq HeldIn(K2) /\ HeldIn(K2 \cap Live(curr)) \subseteq R2
    <3>1. S2 \subseteq HeldIn(SingleSpots) /\ HeldIn(SingleSpots \cap Live(curr)) \subseteq S2
      BY <2>3 DEF Gives
    <3>2. K2 \cap Live(curr) = (K1 \cap Live(curr)) \cup (SingleSpots \cap Live(curr))
      OBVIOUS
    <3>3. HeldIn(K2 \cap Live(curr)) = HeldIn(K1 \cap Live(curr)) \cup HeldIn(SingleSpots \cap Live(curr))
      BY <1>10, <3>2
    <3>4. R1 = HeldIn(K1) /\ HeldIn(K1 \cap Live(curr)) \subseteq R1 /\ HeldIn(K2) = HeldIn(K1) \cup HeldIn(SingleSpots)
      BY <1>10
    <3> HIDE DEF HeldIn, K1, K2, R1
    <3> QED
      BY <3>1, <3>3, <3>4
  <2>6. /\ inode2 \in Inodes /\ Pruned(wds, inode, K2, inode2)
        /\ inode2.num_blocks = inode.num_blocks /\ inode2.file_size = inode.file_size
        /\ inode2.triple = inode.triple
    <3> HIDE DEF inode1, K1, wds
    <3> QED
      BY <1>5, InodeSingle
  <2>7. CASE curr <= D + P
    <3>1. Live(curr) \ K2 \subseteq Live(n)
      BY <1>9, <2>7, ShapeFacts
    <3>2. new.dev = Freed(dev, R2) /\ new.inode = inode2
      BY <1>2, <1>12, <2>4, <2>7
    <3>3. K2 \cap Live(n) = {}
      BY <1>8
    <3> HIDE DEF K1, R1, R2, inode1, inode2, wds
    <3>4. /\ Branches(K2) /\ K2 \cap Live(n) = {} /\ Live(curr) \ K2 \subseteq Live(n)
          /\ R2 \subseteq Held(dev.words, inode, K2) /\ Held(dev.words, inode, K2 \cap Live(curr)) \subseteq R2
          /\ new.dev = Freed(dev, R2)
          /\ new.inode \in Inodes /\ Pruned(dev.words, inode, K2, new.inode)
          /\ new.inode.num_blocks = inode.num_blocks /\ new.inode.file_size = inode.file_size
          /\ new.inode.triple = inode.triple
      BY <1>6, <2>5, <2>6, <3>1, <3>2, <3>3 DEF wds
    <3> QED
      BY <3>4 DEF CutFor
  <2>8. CASE curr > D + P
    <3>1. inode.double # 0
      <4>1. DoubleSpot \in Live(curr)
        BY <2>8, SpotsAre, StartOf DEF Live, Roots
      <4> QED
        BY <4>1, AtDouble
    <3>2. R2 \cap HeldIn(DoubleSpots) = {}
      <4>1. K2 \cap DoubleSpots = {} /\ K2 \in SUBSET Spots
        BY <1>6, SpotSets
      <4>2. HeldIn(K2) \cap HeldIn(DoubleSpots) = {}
        <5> HIDE DEF K2
        <5> QED
          BY <1>6, <4>1, HeldFacts
      <4> QED
        BY <2>5, <4>2
    <3>3. PICK S3 : /\ RemoveDouble(Freed(dev, R2), inode.double) = Freed(dev, R2 \cup S3)
                    /\ Gives(wds, inode, DoubleSpots, S3)
      <4> HIDE DEF R2
      <4> QED
        BY <3>1, <3>2, DoubleFreed
    <3> DEFINE K3 == K2 \cup DoubleSpots
               R3 == R2 \cup S3
    <3>4. dev3 = Freed(dev, R3)
      <4> HIDE DEF dev2, R2
      <4> QED
        BY <2>4, <3>3
    <3>5. R3 \subseteq HeldIn(K3) /\ HeldIn(K3 \cap Live(curr)) \subseteq R3
      <4>1. S3 \subseteq HeldIn(DoubleSpots) /\ HeldIn(DoubleSpots \cap Live(curr)) \subseteq S3
        BY <3>3 DEF Gives
      <4>2. K3 \cap Live(curr) = (K2 \cap Live(curr)) \cup (DoubleSpots \cap Live(curr))
        OBVIOUS
      <4>3. HeldIn(K3 \cap Live(curr)) = HeldIn(K2 \cap Live(curr)) \cup HeldIn(DoubleSpots \cap Live(curr))
        BY <1>10, <4>2
      <4>4. HeldIn(K3) = HeldIn(K2) \cup HeldIn(DoubleSpots)
        BY <1>10
      <4> HIDE DEF HeldIn, K2, K3, R2
      <4> QED
        BY <2>5, <4>1, <4>3, <4>4
    <3>6. /\ inode3 \in Inodes /\ Pruned(wds, inode, K3, inode3)
          /\ inode3.num_blocks = inode.num_blocks /\ inode3.file_size = inode.file_size
          /\ inode3.triple = inode.triple
      <4> HIDE DEF inode2, K2, wds
      <4> QED
        BY <2>6, InodeDouble
    <3>7. Live(curr) \ K3 \subseteq Live(n) /\ K3 \cap Live(n) = {}
      BY <1>8, <1>9
    <3>8. new.dev = Freed(dev, R3) /\ new.inode = inode3
      BY <1>2, <2>8, <3>4
    <3>9. Branches(K3)
      BY <1>6
    <3> HIDE DEF K1, K2, K3, R2, R3, inode3, wds
    <3>10. /\ Branches(K3) /\ K3 \cap Live(n) = {} /\ Live(curr) \ K3 \subseteq Live(n)
           /\ R3 \subseteq Held(dev.words, inode, K3) /\ Held(dev.words, inode, K3 \cap Live(curr)) \subseteq R3
           /\ new.dev = Freed(dev, R3)
           /\ new.inode \in Inodes /\ Pruned(dev.words, inode, K3, new.inode)
           /\ new.inode.num_blocks = inode.num_blocks /\ new.inode.file_size = inode.file_size
           /\ new.inode.triple = inode.triple
      BY <3>5, <3>6, <3>7, <3>8, <3>9 DEF wds
    <3> QED
      BY <3>10 DEF CutFor
  <2> QED
    BY <2>7, <2>8, ShapeFacts
<1> QED
  BY <1>11, <1>12, ShapeFacts

\* The three ways in which free_dblocks_from_inode ends without a triple
\* indirect block.
LEMMA TreeCases ==
    ASSUME NEW dev, NEW inode, inode.triple = 0,
           NEW direct, direct = FreeAll(dev, Used(inode.direct)),
           NEW single, single = RemoveSingle(direct, inode.single),
           NEW double, double = RemoveDouble(single, inode.double),
           NEW new, new = FreeTree(dev, inode)
    PROVE  \/ (~ Full(inode.direct) \/ inode.single = 0) /\ new = direct
           \/ /\ inode.single # 0 /\ (~ Full(direct.words[inode.single]) \/ inode.double = 0)
              /\ new = single
           \/ inode.single # 0 /\ inode.double # 0 /\ new = double
  BY DEF FreeTree

\* free_dblocks_from_inode frees blocks of the file only, and all it uses.
LEMMA TreeFreed ==
    ASSUME NEW dev, NEW inode, Sound(dev, inode), inode.triple = 0,
           NEW n \in Nat, \A k \in Live(n) : At(dev.words, inode, k) # 0,
           NEW new, new = FreeTree(dev, inode)
    PROVE  \E R : /\ new = Freed(dev, R) /\ R \subseteq Held(dev.words, inode, Spots)
                  /\ Held(dev.words, inode, Live(n)) \subseteq R
<1> DEFINE direct == FreeAll(dev, Used(inode.direct))
           single == RemoveSingle(direct, inode.single)
           double == RemoveDouble(single, inode.double)
           wds == dev.words
           HeldIn(M) == Held(wds, inode, M)
<1>1. dev \in Devices /\ inode \in Inodes
  BY DEF Sound
<1>2. /\ DirectSpots \in SUBSET Spots /\ SingleSpots \in SUBSET Spots /\ DoubleSpots \in SUBSET Spots
      /\ (DirectSpots \cup SingleSpots) \in SUBSET Spots
      /\ (DirectSpots \cup SingleSpots) \cap DoubleSpots = {}
  BY SpotSets
<1>3. PICK S1 : direct = Freed(dev, S1) /\ Gives(wds, inode, DirectSpots, S1)
  BY DirectFreed
<1>4. S1 \subseteq HeldIn(DirectSpots) /\ HeldIn(DirectSpots \cap Live(n)) \subseteq S1
  BY <1>3 DEF Gives
<1>5. \A M, N : HeldIn(M) \cup HeldIn(N) = HeldIn(M \cup N) /\ (M \subseteq N => HeldIn(M) \subseteq HeldIn(N))
  BY DEF Held
<1>6. \/ (~ Full(inode.direct) \/ inode.single = 0) /\ new = direct
      \/ /\ inode.single # 0 /\ (~ Full(direct.words[inode.single]) \/ inode.double = 0)
         /\ new = single
      \/ inode.single # 0 /\ inode.double # 0 /\ new = double
  BY TreeCases
<1>7. n > D => Full(inode.direct) /\ inode.single # 0
  <2> SUFFICES ASSUME n > D
               PROVE  Full(inode.direct) /\ inode.single # 0
    OBVIOUS
  <2>1. ASSUME NEW x \in 0 .. D - 1
        PROVE  inode.direct[x] # 0
    <3>1. DirectSpot(x) \in Live(n)
      BY DirectHolds, StartOf, ShapeFacts DEF Live
    <3> QED
      BY <3>1, DirectHolds
  <2>2. SingleSpot \in Live(n)
    BY SpotsAre, StartOf DEF Live, Roots
  <2>3. DOMAIN inode.direct = 0 .. D - 1
    BY DirectHolds
  <2> QED
    BY <2>1, <2>2, <2>3, AtSingle DEF Full
<1>8. inode.single # 0 => /\ direct.words[inode.single] = dev.words[inode.single]
                          /\ S1 \cap HeldIn(SingleSpots) = {}
  <2> SUFFICES ASSUME inode.single # 0
               PROVE  /\ direct.words[inode.single] = dev.words[inode.single]
                      /\ S1 \cap HeldIn(SingleSpots) = {}
    OBVIOUS
  <2>1. HeldIn(DirectSpots) \cap HeldIn(SingleSpots) = {}
    BY <1>2, SpotSets, HeldFacts
  <2>2. inode.single \in HeldIn(SingleSpots)
    <3>1. SingleSpot \in SingleSpots /\ At(wds, inode, SingleSpot) = inode.single
      BY AtSingle DEF SingleSpots
    <3> QED
      BY <1>2, <3>1, HeldFacts
  <2>3. inode.single \in Blocks /\ inode.single \notin S1
    <3>1. inode.single \in Blocks
      BY <2>2 DEF Held
    <3> HIDE DEF HeldIn
    <3> QED
      BY <1>4, <2>1, <2>2, <3>1
  <2>4. direct.words[inode.single] = dev.words[inode.single]
    <3> HIDE DEF direct
    <3> QED
      BY <1>1, <1>3, <2>3, FreedTyped
  <2> HIDE DEF HeldIn
  <2> QED
    BY <1>4, <2>1, <2>4
<1>9. n > D + P => inode.double # 0 /\ (inode.single # 0 => Full(dev.words[inode.single]))
  <2> SUFFICES ASSUME n > D + P
               PROVE  inode.double # 0 /\ (inode.single # 0 => Full(dev.words[inode.single]))
    OBVIOUS
  <2>1. DoubleSpot \in Live(n)
    BY SpotsAre, StartOf DEF Live, Roots
  <2>2. ASSUME inode.single # 0, NEW i \in Slots
        PROVE  dev.words[inode.single][i] # 0
    <3>1. Start(InSingle(i)) < n
      BY StartOf, ShapeFacts
    <3>2. InSingle(i) \in Live(n)
      BY <3>1, SpotsAre DEF Live
    <3>3. At(wds, inode, InSingle(i)) = Entry(wds, inode.single, i)
      BY SpotsAre, AtBelow, AtSingle
    <3> QED
      BY <2>2, <3>2, <3>3 DEF Entry
  <2>3. inode.single # 0 => DOMAIN dev.words[inode.single] = Slots
    BY <1>1 DEF Inodes, Devices, Words
  <2> QED
    BY <2>1, <2>2, <2>3, AtDouble DEF Full
<1>10. /\ \A k \in DirectSpots : Start(k) \in Nat
       /\ ~ (n > D) => Live(n) \subseteq DirectSpots
       /\ ~ (n > D + P) => Live(n) \subseteq DirectSpots \cup SingleSpots
       /\ Live(n) \subseteq DirectSpots \cup SingleSpots \cup DoubleSpots
  <2>1. \A k \in Live(n) : k \in Spots /\ Start(k) < n
    BY DEF Live
  <2>2. \A k \in DirectSpots : Start(k) \in Nat
    BY SpotSets, StartTyped
  <2>3. ~ (n > D) => \A k \in Live(n) : k \notin SingleSpots /\ k \notin DoubleSpots
    BY <2>1, StartRegions, ShapeFacts
  <2>4. ~ (n > D + P) => \A k \in Live(n) : k \notin DoubleSpots
    BY <2>1, StartRegions, ShapeFacts
  <2> QED
    BY <2>1, <2>2, <2>3, <2>4, SpotSets
<1>11. CASE (~ Full(inode.direct) \/ inode.single = 0) /\ new = direct
  <2>1. Live(n) \subseteq DirectSpots
    BY <1>7, <1>10, <1>11
  <2>2. HeldIn(Live(n)) \subseteq S1
    <3>1. Live(n) = DirectSpots \cap Live(n)
      BY <2>1
    <3> QED
      BY <1>4, <3>1
  <2>3. S1 \subseteq HeldIn(Spots)
    BY <1>2, <1>4, <1>5
  <2> QED
    BY <1>3, <1>11, <2>2, <2>3
<1>12. CASE inode.single # 0 /\ ~ ((~ Full(inode.direct) \/ inode.single = 0) /\ new = direct)
  <2>1. PICK S2 : /\ RemoveSingle(Freed(dev, S1), inode.single) = Freed(dev, S1 \cup S2)
                  /\ Gives(wds, inode, SingleSpots, S2)
    BY <1>8, <1>12, SingleFreed
  <2> DEFINE R2 == S1 \cup S2
  <2>2. single = Freed(dev, R2)
    <3> HIDE DEF direct
    <3> QED
      BY <1>3, <2>1
  <2>3. R2 \subseteq HeldIn(DirectSpots \cup SingleSpots)
        /\ HeldIn((DirectSpots \cup SingleSpots) \cap Live(n)) \subseteq R2
    <3>1. S2 \subseteq HeldIn(SingleSpots) /\ HeldIn(SingleSpots \cap Live(n)) \subseteq S2
      BY <2>1 DEF Gives
    <3>2. (DirectSpots \cup SingleSpots) \cap Live(n) = (DirectSpots \cap Live(n)) \cup (SingleSpots \cap Live(n))
      OBVIOUS
    <3>3. HeldIn((DirectSpots \cup SingleSpots) \cap Live(n)) =
             HeldIn(DirectSpots \cap Live(n)) \cup HeldIn(SingleSpots \cap Live(n))
      BY <1>5, <3>2
    <3>4. HeldIn(DirectSpots \cup SingleSpots) = HeldIn(DirectSpots) \cup HeldIn(SingleSpots)
      BY <1>5
    <3> HIDE DEF HeldIn
    <3> QED
      BY <1>4, <3>1, <3>3, <3>4
  <2> HIDE DEF R2
  <2>4. CASE (~ Full(direct.words[inode.single]) \/ inode.double = 0) /\ new = single
    <3>1. Live(n) \subseteq DirectSpots \cup SingleSpots
      BY <1>8, <1>9, <1>10, <1>12, <2>4
    <3>2. HeldIn(Live(n)) \subseteq R2
      <4>1. Live(n) = (DirectSpots \cup SingleSpots) \cap Live(n)
        BY <3>1
      <4> QED
        BY <2>3, <4>1
    <3>3. R2 \subseteq HeldIn(Spots)
      BY <1>2, <1>5, <2>3
    <3> QED
      BY <2>2, <2>4, <3>2, <3>3
  <2>5. CASE inode.double # 0 /\ new = double
    <3>1. R2 \cap HeldIn(DoubleSpots) = {}
      <4>1. HeldIn(DirectSpots \cup SingleSpots) \cap HeldIn(DoubleSpots) = {}
        BY <1>2, HeldFacts
      <4> QED
        BY <2>3, <4>1
    <3>2. PICK S3 : /\ RemoveDouble(Freed(dev, R2), inode.double) = Freed(dev, R2 \cup S3)
                    /\ Gives(wds, inode, DoubleSpots, S3)
      BY <2>5, <3>1, DoubleFreed
    <3>3. double = Freed(dev, R2 \cup S3)
      <4> HIDE DEF single
      <4> QED
        BY <2>2, <3>2
    <3>4. S3 \subseteq HeldIn(DoubleSpots) /\ HeldIn(DoubleSpots \cap Live(n)) \subseteq S3
      BY <3>2 DEF Gives
    <3>5. HeldIn(Live(n)) \subseteq R2 \cup S3
      <4>1. Live(n) = ((DirectSpots \cup SingleSpots) \cap Live(n)) \cup (DoubleSpots \cap Live(n))
        BY <1>10
      <4>2. HeldIn(Live(n)) = HeldIn((DirectSpots \cup SingleSpots) \cap Live(n)) \cup HeldIn(DoubleSpots \cap Live(n))
        BY <1>5, <4>1
      <4> HIDE DEF HeldIn
      <4> QED
        BY <2>3, <3>4, <4>2
    <3>6. R2 \cup S3 \subseteq HeldIn(Spots)
      <4>1. HeldIn(DirectSpots \cup SingleSpots) \subseteq HeldIn(Spots) /\ HeldIn(DoubleSpots) \subseteq HeldIn(Spots)
        BY <1>2, <1>5
      <4> HIDE DEF HeldIn
      <4> QED
        BY <2>3, <3>4, <4>1
    <3> QED
      BY <2>5, <3>3, <3>5, <3>6
  <2> QED
    BY <1>6, <1>12, <2>4, <2>5
<1> QED
  BY <1>6, <1>11, <1>12

\* Giving back a file does nothing to others, whatever its tree, unless it
\* gives back what is not the file's.
LEMMA TreeGives ==
    ASSUME NEW dev \in Devices, NEW inode \in Inodes, inode.triple = 0,
           NEW new, new = FreeTree(dev, inode)
    PROVE  GivesBack(dev, new)
<1> DEFINE direct == FreeAll(dev, Used(inode.direct))
           single == RemoveSingle(direct, inode.single)
           double == RemoveDouble(single, inode.double)
<1>1. inode.direct \in [0 .. D - 1 -> Words] /\ D \in Nat \ {0} /\ inode.single \in Words
      /\ inode.double \in Words
  BY ShapeFacts DEF Inodes
<1>2. GivesBack(dev, direct)
  <2>1. PICK n \in 0 .. D : Used(inode.direct) \in [1 .. n -> Blocks]
    BY <1>1, UsedFacts
  <2>2. n \in Nat /\ Used(inode.direct) \in [1 .. n -> Words]
    BY <2>1 DEF Words
  <2> QED
    BY <2>2, FreeAllGives
<1>3. direct \in Devices
  BY <1>2 DEF GivesBack
<1>4. GivesBack(direct, single)
  <2> HIDE DEF direct
  <2> QED
    BY <1>1, <1>3, RemoveSingleGives
<1>5. single \in Devices
  BY <1>4 DEF GivesBack
<1>6. GivesBack(single, double)
  <2> HIDE DEF single
  <2> QED
    BY <1>1, <1>5, RemoveDoubleGives
<1>7. new = direct \/ new = single \/ new = double
  BY TreeCases
<1> HIDE DEF direct, single, double
<1>8. GivesBack(dev, single)
  BY <1>2, <1>4, GivesBackTwice
<1>9. GivesBack(dev, double)
  BY <1>6, <1>8, GivesBackTwice
<1> QED
  BY <1>2, <1>7, <1>8, <1>9
-----------------------------------------------------------------------------
(* Files in order                                                          *)

\* The device as the operations on the file g see it.
Seen(dev, g) ==
    [file |-> g, owner |-> dev.owner, words |-> dev.words, misfreed |-> dev.misfreed,
     overrun |-> dev.overrun]

(* A file in order: every block it uses is there, and what it holds at the *)
(* spots V are blocks of its own, each at one spot.  When exact, it has no *)
(* other block.                                                            *)
Ordered(dev, inode, V, exact) ==
    /\ inode \in Inodes /\ inode.triple = 0 /\ inode.num_blocks <= Capacity
    /\ Closed(V) /\ Live(inode.num_blocks) \subseteq V
    /\ OwnedAt(dev, inode, V) /\ Apart(dev.words, inode, V, inode, V)
    /\ \A k \in Live(inode.num_blocks) : At(dev.words, inode, k) # 0
    /\ exact => V = Spots /\ Accounted(dev, inode, Live(inode.num_blocks), {})

\* Another file sees the same device.
LEMMA SeenTyped ==
    ASSUME NEW dev \in Devices, NEW g \in Files
    PROVE  /\ Seen(dev, g) \in Devices
           /\ FreeAreZero(dev) => FreeAreZero(Seen(dev, g))
           /\ Seen(dev, dev.file) = dev /\ [dev EXCEPT !.file = g] = Seen(dev, g)
<1>1. Seen(dev, g) \in Devices
  BY DEF Devices, Seen
<1>2. FreeAreZero(dev) => FreeAreZero(Seen(dev, g))
  BY DEF FreeAreZero, Seen
<1>3. Seen(dev, dev.file) = dev
  BY DEF Devices, Seen
<1>4. [dev EXCEPT !.file = g] = Seen(dev, g)
  BY DEF Devices, Seen
<1> QED
  BY <1>1, <1>2, <1>3, <1>4

\* A file in order may begin to grow.
LEMMA OrderedStage ==
    ASSUME NEW dev \in Devices, FreeAreZero(dev), NEW inode, NEW V, NEW exact,
           Ordered(dev, inode, V, exact),
           NEW n, n = inode.num_blocks
    PROVE  Stage(dev, inode, V, Live(n), inode, V, Live(n), {}, exact)
<1>1. Growing(dev, inode, V, inode, V, {})
  BY DEF Ordered, Growing
<1> QED
  BY <1>1 DEF Ordered, Stage

\* Once it has grown it is in order again.
LEMMA StageOrdered ==
    ASSUME NEW dev, NEW inode, NEW W, NEW disk, NEW V, NEW T, NEW exact,
           NEW n, n = inode.num_blocks, n <= Capacity, inode.triple = 0,
           Stage(dev, inode, W, Live(n), disk, V, T, {}, exact)
    PROVE  Ordered(dev, inode, W, exact)
<1>1. Growing(dev, inode, W, disk, V, {})
  BY DEF Stage
<1>2. inode \in Inodes /\ Closed(W) /\ OwnedAt(dev, inode, W) /\ Apart(dev.words, inode, W, inode, W)
  BY <1>1 DEF Growing
<1> QED
  BY <1>2 DEF Ordered, Stage

\* Should the growth fail, what is on the device is still in order.
LEMMA StageDisk ==
    ASSUME NEW dev, NEW inode, NEW W, NEW S, NEW disk, NEW V, NEW L, NEW exact,
           NEW m, m = disk.num_blocks, m <= Capacity, disk.triple = 0,
           Stage(dev, inode, W, S, disk, V, Live(m), L, exact)
    PROVE  Ordered(dev, disk, V, FALSE)
<1>1. Growing(dev, inode, W, disk, V, L)
  BY DEF Stage
<1>2. disk \in Inodes /\ Closed(V) /\ OwnedAt(dev, disk, V) /\ Apart(dev.words, disk, V, disk, V)
  BY <1>1 DEF Growing
<1> QED
  BY <1>2 DEF Ordered, Stage

\* In order at some spots means in order at fewer.
LEMMA OrderedLess ==
    ASSUME NEW dev, NEW inode, NEW V, NEW exact, Ordered(dev, inode, V, exact),
           NEW W, Closed(W), W \subseteq V, Live(inode.num_blocks) \subseteq W
    PROVE  Ordered(dev, inode, W, FALSE)
<1>1. OwnedAt(dev, inode, W) /\ Apart(dev.words, inode, W, inode, W)
  BY DEF Ordered, OwnedAt, Apart
<1> QED
  BY <1>1 DEF Ordered

\* A change of the file's size changes nothing.
LEMMA OrderedSize ==
    ASSUME NEW dev, NEW inode, NEW V, NEW exact, Ordered(dev, inode, V, exact),
           NEW inode2 \in Inodes, SameTree(inode, inode2),
           inode2.num_blocks = inode.num_blocks, inode2.triple = inode.triple
    PROVE  Ordered(dev, inode2, V, exact)
<1>1. \A wds : \A k \in Spots : At(wds, inode2, k) = At(wds, inode, k)
  BY AtSame
<1>2. V \subseteq Spots /\ Live(inode.num_blocks) \subseteq Spots
  BY DEF Ordered, Closed, Live
<1>3. OwnedAt(dev, inode2, V) /\ Apart(dev.words, inode2, V, inode2, V)
  <2>1. OwnedAt(dev, inode, V) /\ Apart(dev.words, inode, V, inode, V)
    BY DEF Ordered
  <2> QED
    BY <1>1, <1>2, <2>1 DEF OwnedAt, Apart
<1>4. Accounted(dev, inode, Live(inode.num_blocks), {}) =>
         Accounted(dev, inode2, Live(inode.num_blocks), {})
  BY <1>1, <1>2 DEF Accounted
<1>5. \A k \in Live(inode.num_blocks) : At(dev.words, inode2, k) # 0
  <2>1. \A k \in Live(inode.num_blocks) : At(dev.words, inode, k) # 0
    BY DEF Ordered
  <2> QED
    BY <1>1, <1>2, <2>1
<1> QED
  BY <1>3, <1>4, <1>5 DEF Ordered

\* A tree whose blocks are as they were is the same tree.
LEMMA AtKept ==
    ASSUME NEW wds \in WordsType, NEW wds2 \in WordsType, NEW inode \in Inodes, NEW V, Closed(V),
           \A k \in V : At(wds, inode, k) # 0 => wds2[At(wds, inode, k)] = wds[At(wds, inode, k)]
    PROVE  \A k \in V : At(wds2, inode, k) = At(wds, inode, k)
<1>1. \A k \in V \cap Roots : At(wds2, inode, k) = At(wds, inode, k)
  BY AtRoot
<1>2. ASSUME NEW k \in V, k \notin Roots, At(wds2, inode, Above(k)) = At(wds, inode, Above(k))
      PROVE  At(wds2, inode, k) = At(wds, inode, k)
  <2>1. k \in Spots \ Roots /\ Above(k) \in V
    BY <1>2 DEF Closed
  <2>2. /\ At(wds2, inode, k) = Entry(wds2, At(wds2, inode, Above(k)), SlotOf(k))
        /\ At(wds, inode, k) = Entry(wds, At(wds, inode, Above(k)), SlotOf(k))
    BY <2>1, AtBelow
  <2>3. At(wds, inode, Above(k)) # 0 =>
           wds2[At(wds, inode, Above(k))] = wds[At(wds, inode, Above(k))]
    BY <2>1
  <2> QED
    BY <1>2, <2>2, <2>3 DEF Entry
<1>3. TAKE k \in V
<1>4. CASE k \in Roots
  BY <1>1, <1>4
<1>5. CASE k \notin Roots /\ Above(k) \in Roots
  BY <1>1, <1>2, <1>5 DEF Closed
<1>6. CASE k \notin Roots /\ Above(k) \notin Roots
  <2>1. Above(k) \in V /\ Above(Above(k)) \in V \cap Roots
    BY <1>6, AboveFacts DEF Closed
  <2> QED
    BY <1>1, <1>2, <1>6, <2>1
<1> QED
  BY <1>4, <1>5, <1>6

\* Only blocks that are free or the file's own are touched.
OthersKept(dev, new) ==
    \A b \in Blocks :
        \/ new.owner[b] = dev.owner[b] /\ new.words[b] = dev.words[b]
        \/ {new.owner[b], dev.owner[b]} \subseteq {Nobody, dev.file}

\* What an operation on one file leaves of the others.
LEMMA OthersOrdered ==
    ASSUME NEW dev \in Devices, NEW new \in Devices, OthersKept(dev, new),
           NEW g \in Files, g # dev.file, NEW inode, NEW V, NEW exact,
           Ordered(Seen(dev, g), inode, V, exact)
    PROVE  /\ Ordered(Seen(new, g), inode, V, exact)
           /\ \A k \in V : At(new.words, inode, k) = At(dev.words, inode, k)
<1>1. /\ Seen(dev, g).words = dev.words /\ Seen(dev, g).owner = dev.owner /\ Seen(dev, g).file = g
      /\ Seen(new, g).words = new.words /\ Seen(new, g).owner = new.owner /\ Seen(new, g).file = g
  BY DEF Seen
<1>2. dev.words \in WordsType /\ new.words \in WordsType
  BY DEF Devices, WordsType
<1>3. /\ inode \in Inodes /\ Closed(V) /\ V \subseteq Spots /\ Live(inode.num_blocks) \subseteq V
      /\ \A k \in V : At(dev.words, inode, k) # 0 => dev.owner[At(dev.words, inode, k)] = g
  BY <1>1 DEF Ordered, OwnedAt, Closed
<1>4. \A k \in V : At(dev.words, inode, k) \in Words
  BY <1>2, <1>3, AtTyped
<1>5. \A b \in Blocks : (dev.owner[b] = g \/ new.owner[b] = g) =>
         new.owner[b] = dev.owner[b] /\ new.words[b] = dev.words[b]
  BY ShapeFacts DEF OthersKept
<1>6. \A k \in V : At(dev.words, inode, k) # 0 =>
         new.words[At(dev.words, inode, k)] = dev.words[At(dev.words, inode, k)]
  BY <1>3, <1>4, <1>5 DEF Words
<1>7. \A k \in V : At(new.words, inode, k) = At(dev.words, inode, k)
  BY <1>2, <1>3, <1>6, AtKept
<1>8. OwnedAt(Seen(new, g), inode, V)
  BY <1>1, <1>3, <1>4, <1>5, <1>7 DEF OwnedAt, Words
<1>9. Apart(new.words, inode, V, inode, V)
  <2>1. Apart(dev.words, inode, V, inode, V)
    BY <1>1 DEF Ordered
  <2> QED
    BY <1>7, <2>1 DEF Apart
<1>10. ASSUME exact
       PROVE  V = Spots /\ Accounted(Seen(new, g), inode, Live(inode.num_blocks), {})
  <2>1. V = Spots /\ Accounted(Seen(dev, g), inode, Live(inode.num_blocks), {})
    BY <1>10 DEF Ordered
  <2> QED
    BY <1>1, <1>3, <1>5, <1>7, <2>1 DEF Accounted
<1>11. \A k \in Live(inode.num_blocks) : At(new.words, inode, k) # 0
  <2>1. \A k \in Live(inode.num_blocks) : At(dev.words, inode, k) # 0
    BY <1>1 DEF Ordered
  <2> QED
    BY <1>3, <1>7, <2>1
<1>12. Ordered(Seen(new, g), inode, V, exact)
  BY <1>1, <1>8, <1>9, <1>10, <1>11 DEF Ordered
<1> QED
  BY <1>7, <1>12

\* The operations that add blocks and those that give back touch no others.
LEMMA SparesOthers ==
    ASSUME NEW dev, NEW new, Spares(dev, new)
    PROVE  OthersKept(dev, new)
BY DEF Spares, OthersKept

\* What is given back without a mistake leaves others alone.
LEMMA GivesOthers ==
    ASSUME NEW dev, NEW new, GivesBack(dev, new), new.misfreed = {}
    PROVE  OthersKept(dev, new) /\ (FreeAreZero(dev) => FreeAreZero(new))
BY DEF GivesBack, OthersKept, FreeAreZero

\* An inode without blocks.
LEMMA FreshOrdered ==
    ASSUME NEW dev \in Devices, NEW V, Closed(V), NEW exact,
           exact => V = Spots /\ \A b \in Blocks : dev.owner[b] # dev.file
    PROVE  FreshInode \in Inodes /\ Ordered(dev, FreshInode, V, exact)
<1>1. FreshInode \in Inodes /\ FreshInode.triple = 0 /\ FreshInode.num_blocks = 0
  BY ShapeFacts DEF FreshInode, Inodes, Words
<1>2. \A k \in Spots : At(dev.words, FreshInode, k) = 0
  <2>1. \A k \in Roots : At(dev.words, FreshInode, k) = 0
    <3>1. ASSUME NEW m \in 0 .. D - 1
          PROVE  At(dev.words, FreshInode, DirectSpot(m)) = 0
      <4>1. FreshInode.direct[m] = 0
        BY <3>1 DEF FreshInode
      <4> QED
        BY <3>1, <4>1, AtDirect
    <3>2. At(dev.words, FreshInode, SingleSpot) = 0 /\ At(dev.words, FreshInode, DoubleSpot) = 0
      BY AtSingle, AtDouble DEF FreshInode
    <3> QED
      BY <3>1, <3>2, RootCases
  <2>2. ASSUME NEW k \in Spots \ Roots, At(dev.words, FreshInode, Above(k)) = 0
        PROVE  At(dev.words, FreshInode, k) = 0
    BY <2>2, AtBelow DEF Entry
  <2> QED
    BY <2>1, <2>2, AboveFacts
<1>3. Live(0) = {}
  BY StartTyped DEF Live
<1>4. V \subseteq Spots
  BY DEF Closed
<1>5. OwnedAt(dev, FreshInode, V) /\ Apart(dev.words, FreshInode, V, FreshInode, V)
  BY <1>2, <1>4 DEF OwnedAt, Apart
<1>6. exact => Accounted(dev, FreshInode, {}, {})
  BY <1>2 DEF Accounted
<1>7. 0 <= Capacity
  BY ShapeFacts DEF Capacity
<1> QED
  BY <1>1, <1>3, <1>5, <1>6, <1>7 DEF Ordered
-----------------------------------------------------------------------------
(* What the operations do to a file in order                               *)

\* Blocks were added: what is on the device is as it was, and the file in
\* memory, unless the blocks ran out, is in order too.
Grown(dev, inode, V, n0, new, exact) ==
    /\ new \in Opens /\ Spares(dev, new.dev) /\ FreeAreZero(new.dev)
    /\ new.inode.file_size = inode.file_size
    /\ Ordered(new.dev, inode, V, FALSE)
    /\ \A k \in Live(n0) : /\ At(new.dev.words, inode, k) = At(dev.words, inode, k)
                           /\ At(new.dev.words, new.inode, k) = At(dev.words, inode, k)
    /\ new.ok => \E W : V \subseteq W /\ Ordered(new.dev, new.inode, W, exact)

\* A file in order that grows, whether or not the blocks suffice.
LEMMA GrownOrdered ==
    ASSUME NEW r0 \in Opens, NEW V, NEW exact, Ordered(r0.dev, r0.inode, V, exact),
           NEW n0, n0 = r0.inode.num_blocks,
           NEW new, Grows(r0, new, V, r0.inode, V, n0, exact)
    PROVE  Grown(r0.dev, r0.inode, V, n0, new, exact)
<1>1. /\ new \in Opens /\ new.inode.num_blocks <= Capacity
      /\ new.inode.file_size = r0.inode.file_size /\ new.inode.triple = r0.inode.triple
      /\ Keeps(r0.dev, r0.inode, Live(n0), r0.inode, Live(n0), new.dev, new.inode)
  BY DEF Grows
<1>2. \E W, S, L : Stage(new.dev, new.inode, W, S, r0.inode, V, Live(n0), L, exact)
  BY DEF Grows, Opens
<1>3. PICK W, S, L : Stage(new.dev, new.inode, W, S, r0.inode, V, Live(n0), L, exact)
  BY <1>2
<1>4. n0 <= Capacity /\ r0.inode.triple = 0
  BY DEF Ordered
<1>5. Ordered(new.dev, r0.inode, V, FALSE)
  BY <1>3, <1>4, StageDisk
<1>6. FreeAreZero(new.dev)
  BY <1>3 DEF Stage, Growing
<1>7. ASSUME new.ok
      PROVE  \E X : V \subseteq X /\ Ordered(new.dev, new.inode, X, exact)
  <2> DEFINE n == new.inode.num_blocks
  <2>1. PICK X : V \subseteq X /\ Stage(new.dev, new.inode, X, Live(n), r0.inode, V, Live(n0), {}, exact)
    BY <1>7 DEF Grows
  <2>2. new.inode.triple = 0 /\ n <= Capacity
    BY <1>1, <1>4
  <2>3. Ordered(new.dev, new.inode, X, exact)
    BY <2>1, <2>2, StageOrdered
  <2> QED
    BY <2>1, <2>3
<1> QED
  BY <1>1, <1>5, <1>6, <1>7 DEF Keeps, Grown

\* custom_write adds the k blocks it lacks.
LEMMA WriteOrdered ==
    ASSUME NEW r0 \in Opens, r0.ok, FreeAreZero(r0.dev), NEW V, NEW exact,
           Ordered(r0.dev, r0.inode, V, exact),
           NEW k \in Nat, r0.inode.num_blocks + k <= Capacity,
           NEW new, new = WriteGrown(r0, k)
    PROVE  /\ Grows(r0, new, V, r0.inode, V, r0.inode.num_blocks, exact)
           /\ new.ok => new.inode.num_blocks = r0.inode.num_blocks + k
           /\ Looped(r0, k)
<1>1. r0.dev \in Devices /\ r0.inode.num_blocks \in Nat
  BY DEF Opens, Inodes
<1>2. Stage(r0.dev, r0.inode, V, Live(r0.inode.num_blocks), r0.inode, V,
            Live(r0.inode.num_blocks), {}, exact)
  BY <1>1, OrderedStage
<1>3. r0.inode.num_blocks <= r0.inode.num_blocks
  BY <1>1
<1>4. /\ Grows(r0, new, V, r0.inode, V, r0.inode.num_blocks, exact)
      /\ new.ok => new.inode.num_blocks = r0.inode.num_blocks + k
      /\ Looped(r0, k)
  <2> DEFINE m == r0.inode.num_blocks
             disk == r0.inode
  <2>1. /\ Stage(r0.dev, r0.inode, V, Live(r0.inode.num_blocks), disk, V, Live(m), {}, exact)
        /\ m \in Nat /\ m <= r0.inode.num_blocks
    BY <1>1, <1>2, <1>3
  <2> HIDE DEF m, disk
  <2>2. /\ Grows(r0, new, V, disk, V, m, exact)
        /\ new.ok => new.inode.num_blocks = r0.inode.num_blocks + k
        /\ Looped(r0, k)
    BY <2>1, WriteGrows
  <2> QED
    BY <2>2 DEF m, disk
<1> QED
  BY <1>4

\* add_new_entry adds one.
LEMMA EntryOrdered ==
    ASSUME NEW r0 \in Opens, r0.ok, FreeAreZero(r0.dev), NEW V, NEW exact,
           Ordered(r0.dev, r0.inode, V, exact), r0.inode.num_blocks < Capacity,
           NEW new, new = AddNewBlock(r0)
    PROVE  /\ Grows(r0, new, V, r0.inode, V, r0.inode.num_blocks, exact)
           /\ new.ok => new.inode.num_blocks = r0.inode.num_blocks + 1
<1>1. r0.dev \in Devices /\ r0.inode.num_blocks \in Nat
  BY DEF Opens, Inodes
<1>2. Stage(r0.dev, r0.inode, V, Live(r0.inode.num_blocks), r0.inode, V,
            Live(r0.inode.num_blocks), {}, exact)
  BY <1>1, OrderedStage
<1>3. r0.inode.num_blocks <= r0.inode.num_blocks
  BY <1>1
<1>4. /\ Grows(r0, new, V, r0.inode, V, r0.inode.num_blocks, exact)
      /\ OneMore(r0, new)
  BY <1>1, <1>2, <1>3, AddNewBlockOnce
<1> QED
  BY <1>4 DEF OneMore

\* A file in order at all spots is a sound tree.
LEMMA OrderedSound ==
    ASSUME NEW dev \in Devices, NEW inode, NEW exact, Ordered(dev, inode, Spots, exact)
    PROVE  Sound(dev, inode)
BY DEF Ordered, Sound

\* custom_truncate cuts the file to n blocks.
CutTo(dev, inode, n, new, exact) ==
    /\ new.dev \in Devices /\ Spares(dev, new.dev) /\ FreeAreZero(new.dev)
    /\ new.inode.num_blocks = n /\ new.inode.file_size = inode.file_size
    /\ Ordered(new.dev, new.inode, Spots, exact)
    /\ \A k \in Live(n) : At(new.dev.words, new.inode, k) = At(dev.words, inode, k)

\* A file in order that is cut in its direct blocks.
LEMMA CutOrdered ==
    ASSUME NEW r \in Opens, FreeAreZero(r.dev), NEW exact,
           Ordered(r.dev, r.inode, Spots, exact),
           NEW n \in Nat, n <= D, n <= r.inode.num_blocks,
           NEW new, new = RemoveDblocks(r, n)
    PROVE  CutTo(r.dev, r.inode, n, new, exact)
<1> DEFINE dev == r.dev
           curr == r.inode.num_blocks
           s == [r EXCEPT !.inode.num_blocks = n]
           inode == s.inode
<1>1. /\ dev \in Devices /\ r.inode \in Inodes /\ curr \in Nat /\ curr <= Capacity
      /\ r.inode.triple = 0
  BY DEF Opens, Inodes, Ordered
<1>2. s.dev = dev /\ inode \in Inodes /\ SameTree(r.inode, inode)
      /\ inode.num_blocks = n /\ inode.triple = 0 /\ inode.file_size = r.inode.file_size
  BY <1>1 DEF Opens, Inodes, SameTree
<1>3. new = RemoveFromDirect(s, n, curr)
  <2>1. n <= D
    OBVIOUS
  <2>2. /\ ~ (n > D /\ n <= D + P) /\ ~ (n > D + P /\ n <= D + P + P * P)
        /\ ~ (n > D + P + P * P)
    BY ShapeFacts
  <2>3. new = CASE n <= D -> RemoveFromDirect(s, n, curr)
               [] n > D /\ n <= D + P -> RemoveFromSingle(s, n, curr)
               [] n > D + P /\ n <= D + P + P * P -> RemoveFromDouble(s, n, curr)
               [] n > D + P + P * P -> RemoveFromTriple(s, n, curr)
    BY DEF RemoveDblocks
  <2> HIDE DEF s, curr
  <2> QED
    BY <2>1, <2>2, <2>3
<1> HIDE DEF s
<1>4. \A wds : \A k \in Spots : At(wds, inode, k) = At(wds, r.inode, k)
  BY <1>2, AtSame
<1>5. Sound(dev, inode)
  <2>1. Sound(dev, r.inode)
    BY <1>1, OrderedSound
  <2> QED
    BY <1>2, <1>4, <2>1 DEF Sound, OwnedAt, Apart
<1>6. Live(curr) \subseteq Spots /\ Live(n) \subseteq Spots
  BY DEF Live
<1>7. \A k \in Live(curr) : At(dev.words, inode, k) # 0
  <2>1. \A k \in Live(curr) : At(dev.words, r.inode, k) # 0
    BY DEF Ordered
  <2> QED
    BY <1>4, <1>6, <2>1
<1>8. CutFor(dev, inode, n, curr, new.dev, new.inode)
  BY <1>1, <1>2, <1>3, <1>5, <1>7, CutDirect
<1>9. PICK K, R : /\ Branches(K) /\ K \cap Live(n) = {} /\ Live(curr) \ K \subseteq Live(n)
                  /\ R \subseteq Held(dev.words, inode, K)
                  /\ Held(dev.words, inode, K \cap Live(curr)) \subseteq R
                  /\ new.dev = Freed(dev, R)
                  /\ new.inode \in Inodes /\ Pruned(dev.words, inode, K, new.inode)
                  /\ new.inode.num_blocks = inode.num_blocks
                  /\ new.inode.file_size = inode.file_size
                  /\ new.inode.triple = inode.triple
  BY <1>8 DEF CutFor
<1>10. /\ \A q \in Spots : At(new.dev.words, new.inode, q) = IF q \in K THEN 0 ELSE At(dev.words, inode, q)
       /\ Sound(new.dev, new.inode) /\ Spares(dev, new.dev)
       /\ FreeAreZero(dev) => FreeAreZero(new.dev)
  BY <1>5, <1>9, PrunedTree
<1>11. \A k \in Live(n) : At(new.dev.words, new.inode, k) = At(dev.words, r.inode, k)
  BY <1>4, <1>6, <1>9, <1>10
<1>12. Live(n) \subseteq Live(curr)
  BY <1>1, StartTyped DEF Live
<1>13. \A k \in Live(n) : At(new.dev.words, new.inode, k) # 0
  BY <1>4, <1>6, <1>7, <1>11, <1>12
<1>14. ASSUME exact
       PROVE  Accounted(new.dev, new.inode, Live(n), {})
  <2>1. Accounted(dev, r.inode, Live(curr), {})
    BY <1>14 DEF Ordered
  <2>2. Accounted(dev, inode, Live(curr), {})
    BY <1>4, <1>6, <2>1 DEF Accounted
  <2>3. Accounted(Freed(dev, R), new.inode, Live(n), {})
    <3> HIDE DEF dev, inode, curr
    <3> QED
      BY <1>5, <1>6, <1>9, <2>2, PrunedAccounted
  <2> QED
    BY <1>9, <2>3
<1>15. new.dev \in Devices /\ OwnedAt(new.dev, new.inode, Spots)
       /\ Apart(new.dev.words, new.inode, Spots, new.inode, Spots)
  BY <1>10 DEF Sound
<1>16. n <= Capacity
  BY ShapeFacts DEF Capacity
<1>17. Ordered(new.dev, new.inode, Spots, exact)
  <2>1. new.inode.num_blocks = n /\ new.inode.triple = 0 /\ new.inode \in Inodes
    BY <1>2, <1>9
  <2> HIDE DEF inode, curr, dev
  <2> QED
    BY <1>6, <1>13, <1>14, <1>15, <1>16, <2>1, SpotsClosed DEF Ordered
<1> QED
  BY <1>2, <1>9, <1>10, <1>11, <1>15, <1>17 DEF CutTo

\* custom_unlink gives back a file in order.
LEMMA TreeOrdered ==
    ASSUME NEW dev \in Devices, FreeAreZero(dev), NEW inode, NEW exact,
           Ordered(dev, inode, Spots, exact),
           NEW new, new = FreeTree(dev, inode)
    PROVE  /\ new \in Devices /\ Spares(dev, new) /\ FreeAreZero(new)
           /\ Ordered(new, FreshInode, Spots, exact)
           /\ Held(dev.words, inode, Live(inode.num_blocks)) \subseteq FreeOf(new)
<1> DEFINE n == inode.num_blocks
<1>1. Sound(dev, inode) /\ inode.triple = 0 /\ n \in Nat /\ \A k \in Live(n) : At(dev.words, inode, k) # 0
  BY OrderedSound DEF Ordered, Inodes
<1>2. PICK R : /\ new = Freed(dev, R) /\ R \subseteq Held(dev.words, inode, Spots)
               /\ Held(dev.words, inode, Live(n)) \subseteq R
  BY <1>1, TreeFreed
<1>3. \A b \in R : b \in Blocks /\ dev.owner[b] = dev.file
  BY <1>1, <1>2, HeldFacts DEF Held
<1>4. /\ new \in Devices /\ new.file = dev.file
      /\ new.misfreed = dev.misfreed /\ new.overrun = dev.overrun
  BY <1>2, FreedTyped DEF Freed
<1>5. \A b \in Blocks : IF b \in R THEN new.owner[b] = Nobody /\ new.words[b] = ZeroBlock
                        ELSE new.owner[b] = dev.owner[b] /\ new.words[b] = dev.words[b]
  BY <1>2, FreedTyped
<1>6. Spares(dev, new) /\ FreeAreZero(new)
  BY <1>3, <1>4, <1>5 DEF Spares, FreeAreZero
<1>7. ASSUME exact
      PROVE  \A b \in Blocks : new.owner[b] # new.file
  <2>1. Accounted(dev, inode, Live(n), {})
    BY <1>7 DEF Ordered
  <2>2. ASSUME NEW b \in Blocks, new.owner[b] = new.file
        PROVE  FALSE
    <3>1. new.file \in Files
      BY <1>4 DEF Devices
    <3>2. b \notin R /\ dev.owner[b] = dev.file
      BY <1>4, <1>5, <2>2, <3>1, ShapeFacts
    <3>3. PICK k \in Live(n) : At(dev.words, inode, k) = b
      BY <2>1, <3>2 DEF Accounted
    <3>4. b \in Held(dev.words, inode, Live(n))
      BY <3>3 DEF Held
    <3> QED
      BY <1>2, <3>2, <3>4
  <2> QED
    BY <2>2
<1>8. Ordered(new, FreshInode, Spots, exact)
  BY <1>4, <1>7, SpotsClosed, FreshOrdered
<1>9. Held(dev.words, inode, Live(n)) \subseteq FreeOf(new)
  BY <1>2, <1>3, <1>5 DEF FreeOf
<1> QED
  BY <1>4, <1>6, <1>8, <1>9
-----------------------------------------------------------------------------
(* A directory that loses a block                                          *)

\* The pointer at spot k becomes b, and nothing else changes outside of the
\* block that was at k.
Moved(wds, inode, wds2, inode2, k, b) ==
    /\ \A q \in Roots : At(wds, inode2, q) = IF q = k THEN b ELSE At(wds, inode, q)
    /\ k \notin Roots => At(wds, inode, Above(k)) # 0
    /\ \A c \in Blocks \ {At(wds, inode, k)} : \A i \in Slots :
          wds2[c][i] = IF k \notin Roots /\ c = At(wds, inode, Above(k)) /\ i = SlotOf(k) THEN b
                       ELSE wds[c][i]

\* In a tree, only that spot has another block then.
LEMMA MovedAt ==
    ASSUME NEW wds \in WordsType, NEW inode \in Inodes, NEW V, Closed(V),
           Apart(wds, inode, V, inode, V), NEW k \in V, Below(k) = {},
           NEW wds2 \in WordsType, NEW inode2 \in Inodes, NEW b \in Words,
           Moved(wds, inode, wds2, inode2, k, b)
    PROVE  \A q \in V : At(wds2, inode2, q) = IF q = k THEN b ELSE At(wds, inode, q)
<1>1. V \subseteq Spots /\ \A q \in V \ Roots : Above(q) \in V
  BY DEF Closed
<1>2. \A q \in V \cap Roots : At(wds2, inode2, q) = IF q = k THEN b ELSE At(wds, inode, q)
  <2>1. \A q \in Roots : At(wds2, inode2, q) = At(wds, inode2, q)
    BY AtRoot
  <2>2. \A q \in Roots : At(wds, inode2, q) = IF q = k THEN b ELSE At(wds, inode, q)
    BY DEF Moved
  <2> QED
    BY <2>1, <2>2
<1>3. ASSUME NEW q \in V \ Roots, Above(q) # k => At(wds2, inode2, Above(q)) = At(wds, inode, Above(q))
      PROVE  At(wds2, inode2, q) = IF q = k THEN b ELSE At(wds, inode, q)
  <2> DEFINE c == At(wds, inode, Above(q))
             i == SlotOf(q)
  <2>1. q \in Spots \ Roots /\ Above(q) \in V /\ Above(q) \in Spots /\ i \in Slots
    BY <1>1, AboveFacts
  <2>2. Above(q) # k
    BY <2>1 DEF Below
  <2>3. /\ At(wds2, inode2, q) = Entry(wds2, c, i)
        /\ At(wds, inode, q) = Entry(wds, c, i)
    BY <1>3, <2>1, <2>2, AtBelow
  <2>4. CASE c = 0
    <3>1. q # k
      BY <2>1, <2>4 DEF Moved
    <3> QED
      BY <2>3, <2>4, <3>1 DEF Entry
  <2>5. CASE c # 0
    <3>1. c \in Blocks
      BY <2>1, <2>5, AtTyped DEF Words
    <3>2. c # At(wds, inode, k)
      BY <2>1, <2>2, <2>5 DEF Apart
    <3>3. wds2[c][i] = IF k \notin Roots /\ c = At(wds, inode, Above(k)) /\ i = SlotOf(k) THEN b
                       ELSE wds[c][i]
      BY <2>1, <3>1, <3>2 DEF Moved
    <3>4. k \notin Roots /\ c = At(wds, inode, Above(k)) /\ i = SlotOf(k) <=> q = k
      <4>1. ASSUME k \notin Roots, c = At(wds, inode, Above(k)), i = SlotOf(k)
            PROVE  q = k
        <5>1. Above(k) \in V /\ k \in Spots \ Roots
          BY <1>1, <4>1
        <5>2. Above(q) = Above(k)
          BY <2>1, <2>5, <4>1, <5>1 DEF Apart
        <5> QED
          BY <2>1, <4>1, <5>1, <5>2, AboveFacts
      <4> QED
        BY <2>1, <4>1
    <3>5. Entry(wds2, c, i) = wds2[c][i] /\ Entry(wds, c, i) = wds[c][i]
      BY <2>5 DEF Entry
    <3> HIDE DEF c, i
    <3> QED
      BY <2>3, <3>3, <3>4, <3>5
  <2> QED
    BY <2>4, <2>5
<1>4. TAKE q \in V
<1>5. CASE q \in Roots
  BY <1>2, <1>5
<1>6. CASE q \notin Roots /\ Above(q) \in Roots
  BY <1>1, <1>2, <1>3, <1>6
<1>7. CASE q \notin Roots /\ Above(q) \notin Roots
  <2>1. Above(q) \in V \ Roots /\ Above(Above(q)) \in V \cap Roots
    BY <1>1, <1>7, AboveFacts
  <2>2. Above(Above(q)) # k
    BY <1>1, <2>1 DEF Below
  <2>3. At(wds2, inode2, Above(q)) = IF Above(q) = k THEN b ELSE At(wds, inode, Above(q))
    BY <1>2, <1>3, <2>1, <2>2
  <2> QED
    BY <1>3, <1>7, <2>3
<1> QED
  BY <1>5, <1>6, <1>7

\* fblock_num_to_dblock_num finds the leaf of any block that its range check
\* lets pass.
LEMMA LookupLeaf ==
    ASSUME NEW inode \in Inodes, NEW wds, NEW n \in Nat, n < Capacity, n <= inode.num_blocks
    PROVE  Lookup(wds, inode, n) = At(wds, inode, Leaf(n))
<1>1. inode.num_blocks \in Nat
  BY DEF Inodes
<1>2. ~ (n > inode.num_blocks)
  BY <1>1
<1> QED
  BY <1>2, FollowLeaf DEF Lookup

\* The last block of a directory is written in the place of a block that
\* was given back.
LEMMA DropMoves ==
    ASSUME NEW dev \in Devices, NEW inode \in Inodes, NEW n \in Nat, n < Capacity,
           NEW gone \in Blocks, gone = At(dev.words, inode, Leaf(n)), dev.owner[gone] = dev.file,
           NEW b \in Blocks,
           NEW c, c = At(dev.words, inode, Above(Leaf(n))),
           ~ (n < D) => /\ c \in Blocks /\ c # gone /\ dev.owner[c] = dev.file
                        /\ At(Freed(dev, {gone}).words, inode, Above(Leaf(n))) = c,
           NEW r \in Opens, r.dev = Freed(dev, {gone}), r.inode = inode,
           NEW new, new = SetBlock(r, n, b)
    PROVE  /\ new \in Opens /\ Spares(dev, new.dev)
           /\ new.dev.owner = Freed(dev, {gone}).owner /\ new.dev.words[gone] = ZeroBlock
           /\ \A a \in Blocks : dev.owner[a] # dev.file => new.dev.words[a] = dev.words[a]
           /\ new.inode.num_blocks = inode.num_blocks /\ new.inode.file_size = inode.file_size
           /\ new.inode.triple = inode.triple
           /\ Moved(dev.words, inode, new.dev.words, new.inode, Leaf(n), b)
<1> DEFINE mid == Freed(dev, {gone})
<1>1. /\ mid \in Devices /\ mid.file = dev.file /\ mid.misfreed = dev.misfreed
      /\ mid.overrun = dev.overrun
      /\ \A a \in Blocks :
            /\ a # gone => mid.owner[a] = dev.owner[a] /\ mid.words[a] = dev.words[a]
            /\ a = gone => mid.owner[a] = Nobody /\ mid.words[a] = ZeroBlock
  <2>1. mid.file = dev.file /\ mid.misfreed = dev.misfreed /\ mid.overrun = dev.overrun
    BY DEF Freed
  <2> QED
    BY <2>1, FreedTyped
<1>2. r.dev = mid
  OBVIOUS
<1> HIDE DEF mid
<1>3. b \in Words
  BY DEF Words
<1>4. CASE n < D
  <2>1. new = [r EXCEPT !.inode.direct[n] = b]
    BY <1>4, SetDirect
  <2>2. n \in 0 .. D - 1 /\ Leaf(n) = DirectSpot(n) /\ Leaf(n) \in Roots
    BY <1>4, LeafAbove, ShapeFacts
  <2>3. new.dev = mid /\ new.inode = [inode EXCEPT !.direct[n] = b] /\ new.ok = r.ok
    BY <1>2, <2>1 DEF Opens
  <2>4. /\ new.inode \in Inodes
        /\ new.inode.direct = [inode.direct EXCEPT ![n] = b] /\ new.inode.single = inode.single
        /\ new.inode.double = inode.double /\ new.inode.num_blocks = inode.num_blocks
        /\ new.inode.file_size = inode.file_size /\ new.inode.triple = inode.triple
    <3>1. inode.direct \in [0 .. D - 1 -> Words]
      BY DEF Inodes
    <3>2. [inode.direct EXCEPT ![n] = b] \in [0 .. D - 1 -> Words]
      BY <1>3, <2>2, <3>1
    <3>3. new.inode = [inode EXCEPT !.direct = [inode.direct EXCEPT ![n] = b]]
      BY <2>3
    <3> QED
      BY <3>2, <3>3 DEF Inodes
  <2>5. new \in Opens
    BY <1>1, <1>2, <2>1, <2>3, <2>4 DEF Opens
  <2>6. ASSUME NEW q \in Roots
        PROVE  At(dev.words, new.inode, q) = IF q = Leaf(n) THEN b ELSE At(dev.words, inode, q)
    <3>1. ASSUME NEW m \in 0 .. D - 1, q = DirectSpot(m)
          PROVE  At(dev.words, new.inode, q) = IF q = Leaf(n) THEN b ELSE At(dev.words, inode, q)
      <4>1. /\ At(dev.words, new.inode, q) = new.inode.direct[m]
            /\ At(dev.words, inode, q) = inode.direct[m]
        BY <3>1, AtDirect
      <4>2. q = Leaf(n) <=> m = n
        BY <2>2, <3>1 DEF DirectSpot
      <4>3. new.inode.direct[m] = IF m = n THEN b ELSE inode.direct[m]
        BY <2>4 DEF Inodes
      <4> QED
        BY <4>1, <4>2, <4>3
    <3>2. ASSUME q = SingleSpot \/ q = DoubleSpot
          PROVE  At(dev.words, new.inode, q) = IF q = Leaf(n) THEN b ELSE At(dev.words, inode, q)
      <4>1. q # Leaf(n)
        <5>1. q[1] # Leaf(n)[1]
          BY <2>2, <3>2, Heads
        <5> QED
          BY <5>1
      <4>2. At(dev.words, new.inode, q) = At(dev.words, inode, q)
        BY <2>4, <3>2, AtSingle, AtDouble
      <4> QED
        BY <4>1, <4>2
    <3> QED
      BY <3>1, <3>2, RootCases
  <2>7. Moved(dev.words, inode, new.dev.words, new.inode, Leaf(n), b)
    BY <1>1, <2>2, <2>3, <2>6 DEF Moved
  <2>8. Spares(dev, new.dev)
    BY <1>1, <2>3 DEF Spares
  <2>9. \A a \in Blocks : dev.owner[a] # dev.file => new.dev.words[a] = dev.words[a]
    BY <1>1, <2>3
  <2> QED
    BY <1>1, <1>2, <2>3, <2>4, <2>5, <2>7, <2>8, <2>9
<1>5. CASE ~ (n < D)
  <2> DEFINE i == SlotOf(Leaf(n))
  <2>1. /\ new.dev = Store(mid, At(mid.words, inode, Above(Leaf(n))), i, b)
        /\ new.inode = inode
        /\ new.dev \in Devices => new \in Opens
    BY <1>2, <1>5, SetSlot
  <2>2. Leaf(n) \in Spots \ Roots /\ i \in Slots
    BY <1>5, LeafAbove, AboveFacts
  <2>3. c \in Blocks /\ c # gone /\ dev.owner[c] = dev.file /\ At(mid.words, inode, Above(Leaf(n))) = c
    BY <1>2, <1>5
  <2> HIDE DEF i
  <2>4. new.dev = Store(mid, c, i, b)
    BY <2>1, <2>3
  <2>5. new.dev \in Devices
    BY <1>1, <1>3, <2>2, <2>3, <2>4, StoreTyped
  <2>6. /\ new.dev.file = mid.file /\ new.dev.owner = mid.owner /\ new.dev.misfreed = mid.misfreed
        /\ new.dev.overrun = mid.overrun /\ new.dev.words = [mid.words EXCEPT ![c][i] = b]
    BY <1>1, <2>4 DEF Store, Devices
  <2>7. /\ \A a \in Blocks : a # c => new.dev.words[a] = mid.words[a]
        /\ \A j \in Slots : new.dev.words[c][j] = IF j = i THEN b ELSE mid.words[c][j]
    <3>1. mid.words \in [Blocks -> [Slots -> Words]]
      BY <1>1 DEF Devices
    <3> QED
      BY <2>2, <2>3, <2>6, <3>1
  <2>8. Moved(dev.words, inode, new.dev.words, new.inode, Leaf(n), b)
    <3>1. \A q \in Roots : At(dev.words, new.inode, q) =
             IF q = Leaf(n) THEN b ELSE At(dev.words, inode, q)
      BY <2>1, <2>2
    <3>2. c # 0
      BY <2>3, ShapeFacts
    <3>3. ASSUME NEW a \in Blocks \ {gone}, NEW j \in Slots
          PROVE  new.dev.words[a][j] = IF a = c /\ j = i THEN b ELSE dev.words[a][j]
      BY <1>1, <2>3, <2>7
    <3> QED
      BY <2>2, <3>1, <3>2, <3>3 DEF Moved, i
  <2>9. Spares(dev, new.dev)
    BY <1>1, <2>3, <2>6, <2>7 DEF Spares
  <2>10. \A a \in Blocks : dev.owner[a] # dev.file => new.dev.words[a] = dev.words[a]
    BY <1>1, <2>3, <2>7
  <2>11. new \in Opens /\ new.dev.owner = mid.owner /\ new.dev.words[gone] = ZeroBlock
    BY <1>1, <2>1, <2>3, <2>5, <2>6, <2>7
  <2> QED
    BY <1>2, <2>1, <2>8, <2>9, <2>10, <2>11
<1> QED
  BY <1>4, <1>5

\* A directory that lost a block is in order as far as it reaches.
DropTo(dev, inode, n, last, new) ==
    /\ new.dev \in Devices /\ Spares(dev, new.dev) /\ FreeAreZero(new.dev)
    /\ new.inode.num_blocks = last /\ new.inode.file_size = inode.file_size
    /\ Ordered(new.dev, new.inode, Live(last), FALSE)
    /\ \A k \in Live(last) : At(new.dev.words, new.inode, k) =
          IF k = Leaf(n) THEN At(dev.words, inode, Leaf(last)) ELSE At(dev.words, inode, k)

\* A directory in order that loses a block.
LEMMA DropOrdered ==
    ASSUME NEW r \in Opens, FreeAreZero(r.dev), NEW V, NEW exact,
           Ordered(r.dev, r.inode, V, exact),
           NEW n \in Nat, n < r.inode.num_blocks,
           NEW new, new = Drop(r, n),
           NEW last, last = r.inode.num_blocks - 1
    PROVE  DropTo(r.dev, r.inode, n, last, new)
<1> DEFINE dev == r.dev
           inode == r.inode
           nb == inode.num_blocks
           X == Live(nb)
           at(k) == At(dev.words, inode, k)
           gone == at(Leaf(n))
           end == at(Leaf(last))
           r1 == [r EXCEPT !.dev = FreeDblock(@, gone)]
           set == SetBlock(r1, n, end)
<1>1. /\ dev \in Devices /\ inode \in Inodes /\ nb \in Nat /\ nb <= Capacity /\ inode.triple = 0
      /\ last \in Nat /\ last < nb /\ n < Capacity /\ last < Capacity /\ n < nb /\ nb = last + 1
  <2>1. /\ dev \in Devices /\ inode \in Inodes /\ nb \in Nat /\ nb <= Capacity
        /\ inode.triple = 0 /\ n < nb /\ last = nb - 1
    BY DEF Opens, Inodes, Ordered
  <2>2. Capacity \in Nat
    BY ShapeFacts DEF Capacity
  <2> HIDE DEF nb, inode, dev
  <2> QED
    BY <2>1, <2>2
<1>2. Ordered(dev, inode, X, FALSE)
  <2>1. Closed(X) /\ X \subseteq V
    BY <1>1, LiveClosed DEF Ordered
  <2> QED
    BY <2>1, OrderedLess
<1>3. /\ Closed(X) /\ X \subseteq Spots /\ Apart(dev.words, inode, X, inode, X)
      /\ \A k \in X : at(k) # 0 /\ at(k) \in Blocks /\ dev.owner[at(k)] = dev.file
  <2>1. Closed(X) /\ X \subseteq Spots
    BY <1>2 DEF Ordered, Closed
  <2>2. \A k \in X : at(k) \in Words
    BY <1>1, <2>1, AtTyped DEF Devices, WordsType
  <2> QED
    BY <1>2, <2>1, <2>2 DEF Ordered, OwnedAt, Words
<1>4. Leaf(n) \in X /\ Leaf(last) \in X /\ Leaf(last) \notin Live(last) /\ Below(Leaf(n)) = {}
  BY <1>1, LeafFacts, LeafAbove DEF Live
<1>5. \A k, q \in X : at(k) = at(q) => k = q
  BY <1>3 DEF Apart
<1>6. gone \in Blocks /\ dev.owner[gone] = dev.file /\ end \in Blocks
  BY <1>3, <1>4
<1>7. Lookup(dev.words, inode, n) = gone /\ Lookup(dev.words, inode, nb - 1) = end
  <2>1. n <= nb /\ last <= nb /\ nb - 1 = last
    BY <1>1
  <2>2. Lookup(dev.words, inode, n) = gone
    BY <1>1, <2>1, LookupLeaf
  <2>3. Lookup(dev.words, inode, last) = end
    BY <1>1, <2>1, LookupLeaf
  <2> QED
    BY <2>1, <2>2, <2>3
<1>8. FreeDblock(dev, gone) = Freed(dev, {gone}) /\ Freed(dev, {gone}) \in Devices
  BY <1>1, <1>6, FreeDblockFrees, FreedTyped
<1>9. r1 \in Opens /\ r1.dev = Freed(dev, {gone}) /\ r1.inode = inode
  BY <1>8 DEF Opens
<1>10. new = [set EXCEPT !.inode.num_blocks = @ - 1]
  BY <1>7 DEF Drop
<1>11. ~ (n < D) => LET c == at(Above(Leaf(n)))
                    IN  /\ c \in Blocks /\ c # gone /\ dev.owner[c] = dev.file
                        /\ At(Freed(dev, {gone}).words, inode, Above(Leaf(n))) = c
  <2> SUFFICES ASSUME ~ (n < D)
               PROVE  LET c == at(Above(Leaf(n)))
                      IN  /\ c \in Blocks /\ c # gone /\ dev.owner[c] = dev.file
                          /\ At(Freed(dev, {gone}).words, inode, Above(Leaf(n))) = c
    OBVIOUS
  <2> DEFINE Y == X \ {Leaf(n)}
  <2>1. Leaf(n) \in Spots \ Roots
    BY <1>1, LeafAbove
  <2>2. Above(Leaf(n)) \in Y
    BY <1>3, <1>4, <2>1, AboveFacts DEF Closed
  <2>3. Closed(Y)
    <3>1. ASSUME NEW k \in Y \ Roots
          PROVE  Above(k) \in Y
      <4>1. Above(k) \in X
        BY <1>3 DEF Closed
      <4>2. Above(k) # Leaf(n)
        BY <1>3, <1>4 DEF Below
      <4> QED
        BY <4>1, <4>2
    <3> QED
      BY <1>3, <3>1 DEF Closed
  <2>4. \A k \in Y : at(k) # gone
    BY <1>4, <1>5
  <2>5. \A k \in Y : At(Freed(dev, {gone}).words, inode, k) = at(k)
    <3>1. dev.words \in WordsType /\ Freed(dev, {gone}).words \in WordsType
      BY <1>1, <1>8 DEF Devices, WordsType
    <3>2. \A k \in Y : Freed(dev, {gone}).words[at(k)] = dev.words[at(k)]
      BY <1>1, <1>3, <2>4, FreedTyped
    <3> HIDE DEF Y, gone
    <3> QED
      BY <1>1, <2>3, <3>1, <3>2, AtKept
  <2> QED
    BY <1>3, <2>2, <2>4, <2>5
<1> HIDE DEF r1
<1>12. /\ set \in Opens /\ Spares(dev, set.dev)
       /\ set.dev.owner = Freed(dev, {gone}).owner /\ set.dev.words[gone] = ZeroBlock
       /\ \A a \in Blocks : dev.owner[a] # dev.file => set.dev.words[a] = dev.words[a]
       /\ set.inode.num_blocks = nb /\ set.inode.file_size = inode.file_size
       /\ set.inode.triple = inode.triple
       /\ Moved(dev.words, inode, set.dev.words, set.inode, Leaf(n), end)
  <2> DEFINE c == at(Above(Leaf(n)))
  <2>1. ~ (n < D) => /\ c \in Blocks /\ c # gone /\ dev.owner[c] = dev.file
                     /\ At(Freed(dev, {gone}).words, inode, Above(Leaf(n))) = c
    BY <1>11
  <2>2. gone = At(dev.words, inode, Leaf(n)) /\ c = At(dev.words, inode, Above(Leaf(n)))
    OBVIOUS
  <2> HIDE DEF gone, end, c, at, inode, dev
  <2> QED
    BY <1>1, <1>6, <1>9, <2>1, <2>2, DropMoves
<1> HIDE DEF set
<1>13. /\ new.dev = set.dev /\ new.inode = [set.inode EXCEPT !.num_blocks = @ - 1]
       /\ set.inode \in Inodes /\ set.dev \in Devices
  BY <1>10, <1>12 DEF Opens
<1>14. /\ new.inode \in Inodes /\ new.inode.num_blocks = last /\ SameTree(set.inode, new.inode)
       /\ new.inode.file_size = inode.file_size /\ new.inode.triple = 0
  BY <1>1, <1>12, <1>13 DEF Inodes, SameTree
<1>15. \A k \in X : At(new.dev.words, new.inode, k) = IF k = Leaf(n) THEN end ELSE at(k)
  <2>1. set.dev.words \in WordsType /\ dev.words \in WordsType /\ end \in Words
    BY <1>1, <1>6, <1>13 DEF Devices, WordsType, Words
  <2>2. \A k \in X : At(set.dev.words, set.inode, k) = IF k = Leaf(n) THEN end ELSE at(k)
    <3> HIDE DEF X, end, inode, dev
    <3> QED
      BY <1>1, <1>3, <1>4, <1>12, <1>13, <2>1, MovedAt
  <2>3. \A k \in Spots : At(new.dev.words, new.inode, k) = At(set.dev.words, set.inode, k)
    BY <1>13, <1>14, AtSame
  <2> QED
    BY <1>3, <2>2, <2>3
<1> DEFINE Z == Live(last)
<1>16. Z \subseteq X /\ Closed(Z) /\ Leaf(last) \notin Z
  BY <1>1, <1>4, LiveClosed, StartTyped DEF Live
<1>17. \A k \in Z : At(new.dev.words, new.inode, k) = IF k = Leaf(n) THEN end ELSE at(k)
  BY <1>15, <1>16
<1> HIDE DEF Z, X, at, gone, end
<1>18. Apart(new.dev.words, new.inode, Z, new.inode, Z)
  <2>1. ASSUME NEW k \in Z, NEW q \in Z, At(new.dev.words, new.inode, k) = At(new.dev.words, new.inode, q)
        PROVE  k = q
    <3>1. k \in X /\ q \in X /\ k # Leaf(last) /\ q # Leaf(last)
      BY <1>16
    <3>2. at(k) # end /\ at(q) # end
      BY <1>4, <1>5, <3>1 DEF end
    <3>3. /\ At(new.dev.words, new.inode, k) = IF k = Leaf(n) THEN end ELSE at(k)
          /\ At(new.dev.words, new.inode, q) = IF q = Leaf(n) THEN end ELSE at(q)
      BY <1>17
    <3> QED
      BY <1>5, <2>1, <3>1, <3>2, <3>3
  <2> QED
    BY <2>1 DEF Apart
<1>19. \A k \in Z : /\ At(new.dev.words, new.inode, k) # 0
                    /\ new.dev.owner[At(new.dev.words, new.inode, k)] = new.dev.file
  <2>1. TAKE k \in Z
  <2> DEFINE b == At(new.dev.words, new.inode, k)
  <2>2. b = (IF k = Leaf(n) THEN end ELSE at(k)) /\ k \in X
    BY <1>16, <1>17
  <2>3. b \in Blocks /\ b # 0 /\ dev.owner[b] = dev.file
    BY <1>3, <1>4, <2>2 DEF end
  <2>4. b # gone
    <3>1. CASE k = Leaf(n)
      <4>1. Leaf(n) # Leaf(last)
        BY <1>16, <3>1
      <4> QED
        BY <1>4, <1>5, <2>2, <3>1, <4>1 DEF end, gone
    <3>2. CASE k # Leaf(n)
      BY <1>4, <1>5, <2>2, <3>2 DEF gone
    <3> QED
      BY <3>1, <3>2
  <2>5. set.dev.owner[b] = dev.owner[b]
    <3> HIDE DEF b
    <3> QED
      BY <1>1, <1>12, <2>3, <2>4, FreedTyped
  <2>6. new.dev.file = dev.file
    BY <1>12, <1>13 DEF Spares
  <2> QED
    BY <1>13, <2>3, <2>5, <2>6
<1>20. OwnedAt(new.dev, new.inode, Z)
  BY <1>19 DEF OwnedAt
<1>21. FreeAreZero(new.dev)
  <2>1. ASSUME NEW a \in Blocks, new.dev.owner[a] = Nobody
        PROVE  new.dev.words[a] = ZeroBlock
    <3>1. CASE a = gone
      BY <1>12, <1>13, <3>1
    <3>2. CASE a # gone
      <4>1. dev.owner[a] = Nobody
        BY <1>1, <1>12, <1>13, <2>1, <3>2, FreedTyped
      <4>2. dev.owner[a] # dev.file
        BY <1>1, <4>1, ShapeFacts DEF Devices
      <4> QED
        BY <1>12, <1>13, <4>1, <4>2 DEF FreeAreZero
    <3> QED
      BY <3>1, <3>2
  <2> QED
    BY <2>1 DEF FreeAreZero
<1>22. Ordered(new.dev, new.inode, Z, FALSE)
  <2>1. last <= Capacity
    <3>1. Capacity \in Nat
      BY ShapeFacts DEF Capacity
    <3> QED
      BY <1>1, <3>1
  <2> QED
    BY <1>14, <1>16, <1>18, <1>19, <1>20, <2>1 DEF Ordered, Z
<1> QED
  BY <1>12, <1>13, <1>14, <1>17, <1>21, <1>22 DEF Z, at, end, DropTo
-----------------------------------------------------------------------------
(* The places of FileBlocks and the spots of this module                   *)

PlaceOf(k) ==
    CASE k[1] = "direct" -> <<"direct", <<k[2]>>>>
      [] k[1] = "single" -> <<"single", <<>>>>
      [] k[1] = "in single" -> <<"single", <<k[2]>>>>
      [] k[1] = "double" -> <<"double", <<>>>>
      [] k[1] = "in double" -> <<"double", <<k[2]>>>>
      [] k[1] = "below double" -> <<"double", <<k[2], k[3]>>>>

\* PlaceOf, kind by kind.
LEMMA PlaceIs ==
    /\ \A m : PlaceOf(DirectSpot(m)) = <<"direct", <<m>>>>
    /\ PlaceOf(SingleSpot) = <<"single", <<>>>>
    /\ \A i : PlaceOf(InSingle(i)) = <<"single", <<i>>>>
    /\ PlaceOf(DoubleSpot) = <<"double", <<>>>>
    /\ \A i : PlaceOf(InDouble(i)) = <<"double", <<i>>>>
    /\ \A i, j : PlaceOf(BelowDouble(i, j)) = <<"double", <<i, j>>>>
<1>1. \A m : PlaceOf(DirectSpot(m)) = <<"direct", <<m>>>>
  BY DEF PlaceOf, DirectSpot
<1>2. PlaceOf(SingleSpot) = <<"single", <<>>>>
  BY DEF PlaceOf, SingleSpot
<1>3. \A i : PlaceOf(InSingle(i)) = <<"single", <<i>>>>
  BY DEF PlaceOf, InSingle
<1>4. PlaceOf(DoubleSpot) = <<"double", <<>>>>
  BY DEF PlaceOf, DoubleSpot
<1>5. \A i : PlaceOf(InDouble(i)) = <<"double", <<i>>>>
  BY DEF PlaceOf, InDouble
<1>6. \A i, j : PlaceOf(BelowDouble(i, j)) = <<"double", <<i, j>>>>
  BY DEF PlaceOf, BelowDouble
<1> QED
  BY <1>1, <1>2, <1>3, <1>4, <1>5, <1>6

\* The block at a place is the one at the spot.
LEMMA PlaceAt ==
    ASSUME NEW wds, NEW inode, NEW k \in Spots
    PROVE  Follow(wds, inode, PlaceOf(k)[1], PlaceOf(k)[2]) = At(wds, inode, k)
<1>1. ASSUME NEW m \in 0 .. D - 1, k = DirectSpot(m)
      PROVE  Follow(wds, inode, PlaceOf(k)[1], PlaceOf(k)[2]) = At(wds, inode, k)
  <2>1. PlaceOf(k) = <<"direct", <<m>>>>
    BY <1>1, PlaceIs
  <2>2. PlaceOf(k)[1] = "direct" /\ PlaceOf(k)[2] = <<m>>
    BY <2>1
  <2>3. Follow(wds, inode, "direct", <<m>>) = inode.direct[m]
    BY DEF Follow
  <2>4. At(wds, inode, k) = inode.direct[m]
    BY <1>1, AtDirect
  <2> QED
    BY <2>2, <2>3, <2>4
<1>2. CASE k = SingleSpot
  <2>1. PlaceOf(k)[1] = "single" /\ PlaceOf(k)[2] = <<>>
    BY <1>2, PlaceIs
  <2>2. Follow(wds, inode, "single", <<>>) = inode["single"]
    BY FollowNone
  <2> QED
    BY <1>2, <2>1, <2>2, AtSingle
<1>3. CASE k = DoubleSpot
  <2>1. PlaceOf(k)[1] = "double" /\ PlaceOf(k)[2] = <<>>
    BY <1>3, PlaceIs
  <2>2. Follow(wds, inode, "double", <<>>) = inode["double"]
    BY FollowNone
  <2> QED
    BY <1>3, <2>1, <2>2, AtDouble
<1>4. ASSUME NEW i \in Slots, k = InSingle(i)
      PROVE  Follow(wds, inode, PlaceOf(k)[1], PlaceOf(k)[2]) = At(wds, inode, k)
  <2>1. PlaceOf(k)[1] = "single" /\ PlaceOf(k)[2] = <<i>>
    BY <1>4, PlaceIs
  <2>2. Follow(wds, inode, "single", <<i>>) = Entry(wds, inode["single"], i)
    BY FollowOne
  <2>3. At(wds, inode, k) = Entry(wds, inode.single, i)
    BY <1>4, AtBelow, AtSingle, SpotsAre
  <2> QED
    BY <2>1, <2>2, <2>3
<1>5. ASSUME NEW i \in Slots
      PROVE  At(wds, inode, InDouble(i)) = Entry(wds, inode.double, i)
  BY AtBelow, AtDouble, SpotsAre
<1>6. ASSUME NEW i \in Slots, k = InDouble(i)
      PROVE  Follow(wds, inode, PlaceOf(k)[1], PlaceOf(k)[2]) = At(wds, inode, k)
  <2>1. PlaceOf(k)[1] = "double" /\ PlaceOf(k)[2] = <<i>>
    BY <1>6, PlaceIs
  <2>2. Follow(wds, inode, "double", <<i>>) = Entry(wds, inode["double"], i)
    BY FollowOne
  <2> QED
    BY <1>5, <1>6, <2>1, <2>2
<1>7. ASSUME NEW i \in Slots, NEW j \in Slots, k = BelowDouble(i, j)
      PROVE  Follow(wds, inode, PlaceOf(k)[1], PlaceOf(k)[2]) = At(wds, inode, k)
  <2>1. PlaceOf(k)[1] = "double" /\ PlaceOf(k)[2] = <<i, j>>
    BY <1>7, PlaceIs
  <2>2. Follow(wds, inode, "double", <<i, j>>) = Entry(wds, Entry(wds, inode["double"], i), j)
    BY FollowTwo
  <2>3. At(wds, inode, k) = Entry(wds, At(wds, inode, InDouble(i)), j)
    BY <1>7, AtBelow, SpotsAre
  <2> QED
    BY <1>5, <2>1, <2>2, <2>3
<1> QED
  BY <1>1, <1>2, <1>3, <1>4, <1>6, <1>7, SpotCases

\* The places along the path to block n.
OnPath(n) ==
    LET p == Path(n)
    IN  {<<p.root, SubSeq(p.at, 1, k)>> : k \in IF p.root = "direct" THEN {1} ELSE 0 .. Len(p.at)}

\* The beginnings of sequences of one and two slots.
LEMMA ShortSeqs ==
    ASSUME NEW i \in Nat, NEW j \in Nat
    PROVE  /\ SubSeq(<<i>>, 1, 0) = <<>> /\ SubSeq(<<i>>, 1, 1) = <<i>>
           /\ SubSeq(<<i, j>>, 1, 0) = <<>> /\ SubSeq(<<i, j>>, 1, 1) = <<i>>
           /\ SubSeq(<<i, j>>, 1, 2) = <<i, j>>
<1>1. SubSeq(<<i>>, 1, 0) = <<>> /\ SubSeq(<<i, j>>, 1, 1) = <<i>>
  BY AboveSlots
<1>2. SubSeq(<<i>>, 1, 1) = <<i>>
  <2>1. <<i>> \in Seq(Nat) /\ Len(<<i>>) = 1
    OBVIOUS
  <2> QED
    BY <2>1, SubSeqFull
<1>3. SubSeq(<<i, j>>, 1, 0) = <<>>
  OBVIOUS
<1>4. SubSeq(<<i, j>>, 1, 2) = <<i, j>>
  <2>1. <<i, j>> \in Seq(Nat) /\ Len(<<i, j>>) = 2
    OBVIOUS
  <2> QED
    BY <2>1, SubSeqFull
<1> QED
  BY <1>1, <1>2, <1>3, <1>4

\* The places on the path to the n-th block.
LEMMA OnPathIs ==
    ASSUME NEW n \in Nat, n < Capacity
    PROVE  /\ n < D => OnPath(n) = {PlaceOf(DirectSpot(n))}
           /\ D <= n /\ n < D + P => OnPath(n) = {PlaceOf(SingleSpot), PlaceOf(InSingle(n - D))}
           /\ D + P <= n =>
                 OnPath(n) = {PlaceOf(DoubleSpot), PlaceOf(InDouble((n - D - P) \div P)),
                              PlaceOf(BelowDouble((n - D - P) \div P, (n - D - P) % P))}
<1>1. ASSUME n < D
      PROVE  OnPath(n) = {PlaceOf(DirectSpot(n))}
  <2>1. Path(n).root = "direct" /\ Path(n).at = <<n>>
    BY <1>1, PathOf
  <2>2. OnPath(n) = {<<"direct", SubSeq(<<n>>, 1, 1)>>}
    BY <2>1 DEF OnPath
  <2> QED
    BY <2>2, ShortSeqs, PlaceIs
<1>2. ASSUME D <= n, n < D + P
      PROVE  OnPath(n) = {PlaceOf(SingleSpot), PlaceOf(InSingle(n - D))}
  <2> DEFINE i == n - D
  <2>1. Path(n).root = "single" /\ Path(n).at = <<i>> /\ i \in Nat
    BY <1>2, PathOf, ShapeFacts
  <2> HIDE DEF i
  <2>2. Len(<<i>>) = 1 /\ 0 .. 1 = {0, 1}
    OBVIOUS
  <2>3. OnPath(n) = {<<"single", SubSeq(<<i>>, 1, k)>> : k \in {0, 1}}
    BY <2>1, <2>2 DEF OnPath
  <2>4. OnPath(n) = {<<"single", SubSeq(<<i>>, 1, 0)>>, <<"single", SubSeq(<<i>>, 1, 1)>>}
    BY <2>3
  <2>5. OnPath(n) = {<<"single", <<>>>>, <<"single", <<i>>>>}
    BY <2>1, <2>4, ShortSeqs
  <2> QED
    BY <2>5, PlaceIs DEF i
<1>3. ASSUME D + P <= n
      PROVE  OnPath(n) = {PlaceOf(DoubleSpot), PlaceOf(InDouble((n - D - P) \div P)),
                          PlaceOf(BelowDouble((n - D - P) \div P, (n - D - P) % P))}
  <2> DEFINE i == (n - D - P) \div P
             j == (n - D - P) % P
  <2>1. Path(n).root = "double" /\ Path(n).at = <<i, j>>
    BY <1>3, PathOf
  <2>2. i \in Nat /\ j \in Nat
    BY <1>3, DigitsOf, ShapeFacts
  <2> HIDE DEF i, j
  <2>3. Len(<<i, j>>) = 2 /\ 0 .. 2 = {0, 1, 2}
    OBVIOUS
  <2>4. OnPath(n) = {<<"double", SubSeq(<<i, j>>, 1, k)>> : k \in {0, 1, 2}}
    BY <2>1, <2>3 DEF OnPath
  <2>5. OnPath(n) = {<<"double", SubSeq(<<i, j>>, 1, 0)>>, <<"double", SubSeq(<<i, j>>, 1, 1)>>,
                     <<"double", SubSeq(<<i, j>>, 1, 2)>>}
    BY <2>4
  <2>6. OnPath(n) = {<<"double", <<>>>>, <<"double", <<i>>>>, <<"double", <<i, j>>>>}
    BY <2>2, <2>5, ShortSeqs
  <2>7. /\ PlaceOf(DoubleSpot) = <<"double", <<>>>> /\ PlaceOf(InDouble(i)) = <<"double", <<i>>>>
        /\ PlaceOf(BelowDouble(i, j)) = <<"double", <<i, j>>>>
    BY PlaceIs
  <2>8. OnPath(n) = {PlaceOf(DoubleSpot), PlaceOf(InDouble(i)), PlaceOf(BelowDouble(i, j))}
    BY <2>6, <2>7
  <2> QED
    BY <2>8 DEF i, j
<1> QED
  BY <1>1, <1>2, <1>3

\* The places in a file's tree are those of the spots it uses.
LEMMA PlacesAre ==
    ASSUME NEW inode \in Inodes, inode.num_blocks <= Capacity
    PROVE  Places(inode) = {PlaceOf(k) : k \in Live(inode.num_blocks)}
<1> DEFINE nb == inode.num_blocks
<1>1. nb \in Nat /\ nb <= Capacity /\ D \in Nat /\ P \in Nat /\ P >= 1 /\ D >= 1
  BY ShapeFacts DEF Inodes
<1>2. Places(inode) = UNION {OnPath(n) : n \in 0 .. nb - 1}
  BY DEF Places, OnPath
<1>3. \A n \in 0 .. nb - 1 : n \in Nat /\ n < Capacity /\ n < nb
  <2>1. Capacity \in Nat
    BY ShapeFacts DEF Capacity
  <2> HIDE DEF nb
  <2> QED
    BY <1>1, <2>1
<1> HIDE DEF nb
<1>4. ASSUME NEW n \in 0 .. nb - 1, NEW p \in OnPath(n)
      PROVE  \E k \in Live(nb) : p = PlaceOf(k)
  <2>1. n \in Nat /\ n < Capacity /\ n < nb
    BY <1>3
  <2>2. ASSUME NEW k \in Spots, Start(k) <= n, p = PlaceOf(k)
        PROVE  \E q \in Live(nb) : p = PlaceOf(q)
    <3>1. k \in Live(nb)
      BY <1>1, <2>1, <2>2, StartTyped DEF Live
    <3> QED
      BY <2>2, <3>1
  <2>3. CASE n < D
    <3>1. p = PlaceOf(DirectSpot(n))
      BY <1>4, <2>1, <2>3, OnPathIs
    <3>2. DirectSpot(n) \in Spots /\ Start(DirectSpot(n)) <= n
      BY <1>1, <2>1, <2>3, StartOf, SpotsAre DEF Roots
    <3> QED
      BY <2>2, <3>1, <3>2
  <2>4. CASE D <= n /\ n < D + P
    <3>1. p = PlaceOf(SingleSpot) \/ p = PlaceOf(InSingle(n - D))
      BY <1>4, <2>1, <2>4, OnPathIs
    <3>2. n - D \in Slots
      BY <1>1, <2>1, <2>4 DEF Slots
    <3>3. /\ SingleSpot \in Spots /\ Start(SingleSpot) <= n
          /\ InSingle(n - D) \in Spots /\ Start(InSingle(n - D)) <= n
      BY <1>1, <2>1, <2>4, <3>2, StartOf, SpotsAre DEF Roots
    <3> QED
      BY <2>2, <3>1, <3>3
  <2>5. CASE D + P <= n
    <3> DEFINE i == (n - D - P) \div P
               j == (n - D - P) % P
    <3>1. p = PlaceOf(DoubleSpot) \/ p = PlaceOf(InDouble(i)) \/ p = PlaceOf(BelowDouble(i, j))
      BY <1>4, <2>1, <2>5, OnPathIs
    <3>2. i \in Slots /\ j \in Slots /\ n = D + P + P * i + j
      BY <2>1, <2>5, DigitsOf
    <3> HIDE DEF i, j
    <3>3. i \in Nat /\ j \in Nat /\ P * i \in Nat
      <4>1. i \in Nat /\ j \in Nat
        BY <3>2, ShapeFacts
      <4> QED
        BY <1>1, <4>1
    <3>4. DoubleSpot \in Spots /\ InDouble(i) \in Spots /\ BelowDouble(i, j) \in Spots
      BY <3>2, SpotsAre DEF Roots
    <3>5. /\ Start(DoubleSpot) = D + P /\ Start(InDouble(i)) = D + P + P * i
          /\ Start(BelowDouble(i, j)) = D + P + P * i + j
      BY StartOf
    <3>6. /\ Start(DoubleSpot) <= n /\ Start(InDouble(i)) <= n
          /\ Start(BelowDouble(i, j)) <= n
      BY <1>1, <2>1, <3>2, <3>3, <3>5
    <3> QED
      BY <2>2, <3>1, <3>4, <3>6
  <2> QED
    BY <1>1, <2>1, <2>3, <2>4, <2>5
<1>5. ASSUME NEW k \in Live(nb)
      PROVE  \E n \in 0 .. nb - 1 : PlaceOf(k) \in OnPath(n)
  <2>1. k \in Spots /\ Start(k) \in Nat /\ Start(k) < nb
    BY StartTyped DEF Live
  <2>2. Start(k) \in 0 .. nb - 1 /\ Start(k) < Capacity
    BY <1>1, <1>3, <2>1
  <2>3. PlaceOf(k) \in OnPath(Start(k))
    <3>1. ASSUME NEW m \in 0 .. D - 1, k = DirectSpot(m)
          PROVE  PlaceOf(k) \in OnPath(Start(k))
      <4>1. Start(k) = m /\ m < D
        BY <1>1, <3>1, StartOf
      <4> QED
        BY <2>1, <2>2, <3>1, <4>1, OnPathIs
    <3>2. CASE k = SingleSpot
      <4>1. Start(k) = D /\ D < D + P
        BY <1>1, <3>2, StartOf
      <4> QED
        BY <1>1, <2>1, <2>2, <3>2, <4>1, OnPathIs
    <3>3. ASSUME NEW i \in Slots, k = InSingle(i)
          PROVE  PlaceOf(k) \in OnPath(Start(k))
      <4>1. Start(k) = D + i
        BY <3>3, StartOf
      <4>2. D <= Start(k) /\ Start(k) < D + P /\ Start(k) - D = i
        BY <1>1, <4>1, ShapeFacts
      <4> QED
        BY <2>1, <2>2, <3>3, <4>2, OnPathIs
    <3>4. ASSUME D + P <= Start(k)
          PROVE  LET n == Start(k)
                 IN  OnPath(n) = {PlaceOf(DoubleSpot), PlaceOf(InDouble((n - D - P) \div P)),
                                  PlaceOf(BelowDouble((n - D - P) \div P, (n - D - P) % P))}
      BY <2>1, <2>2, <3>4, OnPathIs
    <3>5. CASE k = DoubleSpot
      <4>1. Start(k) = D + P
        BY <3>5, StartOf
      <4>2. D + P <= Start(k)
        BY <1>1, <4>1
      <4> QED
        BY <3>4, <3>5, <4>2
    <3>6. ASSUME NEW i \in Slots, k = InDouble(i)
          PROVE  PlaceOf(k) \in OnPath(Start(k))
      <4>1. Start(k) = D + P + P * i /\ P * i \in Nat /\ i \in Nat
        BY <1>1, <3>6, StartOf, ShapeFacts
      <4>2. D + P <= Start(k) /\ Start(k) - D - P = P * i + 0
        BY <1>1, <4>1
      <4>3. i = (Start(k) - D - P) \div P
        <5>1. \A x \in Nat, y \in 0 .. P - 1 :
                 (Start(k) - D - P) = P * x + y =>
                    x = (Start(k) - D - P) \div P /\ y = (Start(k) - D - P) % P
          <6>1. Start(k) - D - P \in Nat /\ P \in Nat \ {0}
            BY <1>1, <4>1, <4>2
          <6> QED
            BY <6>1, TwoDigits
        <5>2. 0 \in 0 .. P - 1
          BY <1>1
        <5> QED
          BY <4>1, <4>2, <5>1, <5>2
      <4> QED
        BY <3>4, <3>6, <4>2, <4>3
    <3>7. ASSUME NEW i \in Slots, NEW j \in Slots, k = BelowDouble(i, j)
          PROVE  PlaceOf(k) \in OnPath(Start(k))
      <4>1. Start(k) = D + P + P * i + j /\ P * i \in Nat /\ i \in Nat /\ j \in Nat
        BY <1>1, <3>7, StartOf, ShapeFacts
      <4>2. D + P <= Start(k) /\ Start(k) - D - P = P * i + j
        BY <1>1, <4>1
      <4>3. i = (Start(k) - D - P) \div P /\ j = (Start(k) - D - P) % P
        <5>1. \A x \in Nat, y \in 0 .. P - 1 :
                 (Start(k) - D - P) = P * x + y =>
                    x = (Start(k) - D - P) \div P /\ y = (Start(k) - D - P) % P
          <6>1. Start(k) - D - P \in Nat /\ P \in Nat \ {0}
            BY <1>1, <4>1, <4>2
          <6> QED
            BY <6>1, TwoDigits
        <5> QED
          BY <3>7, <4>1, <4>2, <5>1 DEF Slots
      <4> QED
        BY <3>4, <3>7, <4>2, <4>3
    <3> QED
      BY <2>1, <3>1, <3>2, <3>3, <3>5, <3>6, <3>7, SpotCases
  <2> QED
    BY <2>2, <2>3
<1> QED
  <2>1. Places(inode) \subseteq {PlaceOf(k) : k \in Live(nb)}
    BY <1>2, <1>4
  <2>2. {PlaceOf(k) : k \in Live(nb)} \subseteq Places(inode)
    BY <1>2, <1>5
  <2> QED
    BY <2>1, <2>2 DEF nb
-----------------------------------------------------------------------------
(* The data blocks of a file, and how many there can be                    *)

\* What fblock_num_to_dblock_num returns for the blocks of a file.
Numbers(wds, inode) == [n \in 1 .. inode.num_blocks |-> Lookup(wds, inode, n - 1)]

\* They are the blocks at the leaves.
LEMMA NumbersAre ==
    ASSUME NEW inode \in Inodes, inode.num_blocks <= Capacity, NEW wds
    PROVE  /\ DOMAIN Numbers(wds, inode) = 1 .. inode.num_blocks
           /\ \A i \in 1 .. inode.num_blocks :
                 /\ i - 1 \in Nat /\ i - 1 < Capacity
                 /\ Leaf(i - 1) \in Live(inode.num_blocks)
                 /\ Numbers(wds, inode)[i] = At(wds, inode, Leaf(i - 1))
<1>1. inode.num_blocks \in Nat /\ Capacity \in Nat
  BY ShapeFacts DEF Inodes, Capacity
<1>2. ASSUME NEW i \in 1 .. inode.num_blocks
      PROVE  /\ i - 1 \in Nat /\ i - 1 < Capacity
             /\ Leaf(i - 1) \in Live(inode.num_blocks)
             /\ Numbers(wds, inode)[i] = At(wds, inode, Leaf(i - 1))
  <2> DEFINE n == i - 1
  <2>1. n \in Nat /\ n < Capacity /\ n < inode.num_blocks /\ n <= inode.num_blocks
    BY <1>1
  <2>2. Numbers(wds, inode)[i] = Lookup(wds, inode, n)
    BY DEF Numbers
  <2> HIDE DEF n
  <2>3. Leaf(n) \in Spots /\ Start(Leaf(n)) = n
    BY <2>1, LeafFacts
  <2>4. Leaf(n) \in Live(inode.num_blocks)
    BY <2>1, <2>3 DEF Live
  <2>5. Lookup(wds, inode, n) = At(wds, inode, Leaf(n))
    BY <2>1, LookupLeaf
  <2> QED
    BY <2>1, <2>2, <2>4, <2>5 DEF n
<1>3. DOMAIN Numbers(wds, inode) = 1 .. inode.num_blocks
  BY DEF Numbers
<1> QED
  BY <1>2, <1>3

\* No two leaves are the same.
LEMMA LeavesDiffer ==
    ASSUME NEW n \in Nat, n < Capacity, NEW m \in Nat, m < Capacity, Leaf(n) = Leaf(m)
    PROVE  n = m
  BY LeafFacts

\* The numbers of a file in order.
LEMMA NumbersOrdered ==
    ASSUME NEW dev \in Devices, NEW inode, NEW V, NEW exact, Ordered(dev, inode, V, exact),
           NEW s, s = Numbers(dev.words, inode)
    PROVE  /\ s \in Seq(Blocks) /\ Len(s) = inode.num_blocks /\ DOMAIN s = 1 .. Len(s)
           /\ Len(s) \in Nat
           /\ \A i \in 1 .. Len(s) : s[i] \in Blocks /\ dev.owner[s[i]] = dev.file
           /\ \A i, j \in 1 .. Len(s) : s[i] = s[j] => i = j
<1> DEFINE nb == inode.num_blocks
<1>1. /\ inode \in Inodes /\ nb \in Nat /\ nb <= Capacity /\ Live(nb) \subseteq V
      /\ Live(nb) \subseteq Spots /\ dev.words \in WordsType
  BY DEF Ordered, Inodes, Live, Devices, WordsType
<1>2. /\ DOMAIN s = 1 .. nb
      /\ \A i \in 1 .. nb : /\ i - 1 \in Nat /\ i - 1 < Capacity
                            /\ Leaf(i - 1) \in Live(nb)
                            /\ s[i] = At(dev.words, inode, Leaf(i - 1))
  BY <1>1, NumbersAre
<1>3. ASSUME NEW k \in Live(nb)
      PROVE  /\ At(dev.words, inode, k) \in Blocks
             /\ dev.owner[At(dev.words, inode, k)] = dev.file
  <2>1. At(dev.words, inode, k) \in Words
    BY <1>1, AtTyped
  <2>2. At(dev.words, inode, k) # 0 /\ k \in V
    BY <1>1 DEF Ordered
  <2> QED
    BY <2>1, <2>2 DEF Words, Ordered, OwnedAt
<1>4. \A i \in 1 .. nb : s[i] \in Blocks /\ dev.owner[s[i]] = dev.file
  BY <1>2, <1>3
<1>5. ASSUME NEW i \in 1 .. nb, NEW j \in 1 .. nb, s[i] = s[j]
      PROVE  i = j
  <2>1. At(dev.words, inode, Leaf(i - 1)) = At(dev.words, inode, Leaf(j - 1))
    BY <1>2, <1>5
  <2>2. At(dev.words, inode, Leaf(i - 1)) # 0 /\ Leaf(i - 1) \in V /\ Leaf(j - 1) \in V
    BY <1>1, <1>2 DEF Ordered
  <2>3. Leaf(i - 1) = Leaf(j - 1)
    BY <2>1, <2>2 DEF Ordered, Apart
  <2>4. i - 1 = j - 1
    BY <1>2, <2>3, LeavesDiffer
  <2> QED
    BY <1>1, <2>4
<1>6. s = [i \in 1 .. nb |-> s[i]]
  BY DEF Numbers
<1>7. s \in [1 .. nb -> Blocks]
  BY <1>4, <1>6
<1>8. s \in Seq(Blocks) /\ Len(s) = nb
  BY <1>1, <1>7, FcnIsSeq
<1> QED
  BY <1>1, <1>2, <1>4, <1>5, <1>8

(* Which requests can reach the triple indirect block: none, when the      *)
(* device has fewer blocks than the tree without it can hold (as at the    *)
(* sizes of disk_layer.h), or when no file is asked to grow as large.      *)
SmallDevice == IsFiniteSet(Blocks) /\ Cardinality(Blocks) < Capacity

SmallFiles ==
    /\ \A o \in Offsets : o \div BLOCK_SIZE < Capacity
    /\ MaxDirSize <= Capacity * BLOCK_SIZE

NoTriple == SmallDevice \/ SmallFiles

\* On a small device no file has as many blocks.
LEMMA RoomLeft ==
    ASSUME SmallDevice, NEW dev \in Devices, NEW inode, NEW V, NEW exact,
           Ordered(dev, inode, V, exact)
    PROVE  inode.num_blocks < Capacity
<1>1. PICK s : s = Numbers(dev.words, inode)
  OBVIOUS
<1>2. s \in Seq(Blocks) /\ Len(s) = inode.num_blocks
  BY <1>1, NumbersOrdered
<1>3. \A i, j \in 1 .. Len(s) : s[i] = s[j] => i = j
  BY <1>1, NumbersOrdered
<1>4. PICK n : n = Len(s) /\ n \in Nat /\ inode.num_blocks = n
  BY <1>2
<1>5. \A i \in 1 .. n : s[i] \in Blocks
  BY <1>2, <1>4
<1>6. PICK g : g = [i \in 1 .. n |-> s[i]]
  OBVIOUS
<1>7. g \in [1 .. n -> Blocks] /\ \A i, j \in 1 .. n : g[i] = g[j] => i = j
  BY <1>3, <1>4, <1>5, <1>6
<1>8. g \in Injection(1 .. n, Blocks)
  BY <1>7 DEF Injection, IsInjective
<1>9. Cardinality(1 .. n) = n
  <2>1. 1 \in Int /\ n \in Int /\ 1 <= n + 1 /\ n - 1 + 1 = n
    BY <1>4
  <2>2. IsFiniteSet(1 .. n) /\ Cardinality(1 .. n) = IF 1 > n THEN 0 ELSE n - 1 + 1
    BY <2>1, FS_Interval
  <2> QED
    BY <2>1, <2>2
<1>10. Cardinality(1 .. n) <= Cardinality(Blocks) /\ Cardinality(Blocks) \in Nat
  BY <1>8, FS_Injection, FS_CardinalityType DEF SmallDevice
<1>11. Capacity \in Nat
  BY ShapeFacts DEF Capacity
<1> QED
  BY <1>4, <1>9, <1>10, <1>11 DEF SmallDevice

\* A write beyond them runs out of blocks.
LEMMA WriteFails ==
    ASSUME SmallDevice, NEW r0 \in Opens, r0.ok, FreeAreZero(r0.dev), NEW V, NEW exact,
           Ordered(r0.dev, r0.inode, V, exact),
           NEW k \in Nat, r0.inode.num_blocks + k > Capacity,
           NEW new, new = WriteGrown(r0, k)
    PROVE  Grows(r0, new, V, r0.inode, V, r0.inode.num_blocks, exact) /\ ~ new.ok
<1> DEFINE n0 == r0.inode.num_blocks
           m == Capacity - n0
           last == WriteGrown(r0, m)
<1>1. r0.dev \in Devices /\ n0 \in Nat /\ Capacity \in Nat /\ n0 <= Capacity
  BY ShapeFacts DEF Opens, Inodes, Capacity, Ordered
<1>2. m \in Nat /\ n0 + m = Capacity /\ m < k /\ m \in 0 .. k
  BY <1>1
<1> HIDE DEF m, last
<1>3. /\ Grows(r0, last, V, r0.inode, V, n0, exact)
      /\ last.ok => last.inode.num_blocks = Capacity
      /\ Looped(r0, m)
  <2>1. n0 + m <= Capacity /\ last = WriteGrown(r0, m)
    BY <1>1, <1>2 DEF last
  <2> QED
    BY <1>2, <2>1, WriteOrdered
<1>4. ~ last.ok
  <2> SUFFICES ASSUME last.ok
               PROVE  FALSE
    OBVIOUS
  <2>1. Grown(r0.dev, r0.inode, V, n0, last, exact)
    BY <1>3, GrownOrdered
  <2>2. PICK W : Ordered(last.dev, last.inode, W, exact)
    BY <2>1 DEF Grown
  <2>3. last.dev \in Devices
    BY <2>1 DEF Grown, Opens
  <2>4. last.inode.num_blocks < Capacity
    BY <2>2, <2>3, RoomLeft
  <2> QED
    BY <1>1, <1>3, <2>4
<1>5. PICK f : WriteLoop(r0, m, f)
  BY <1>3 DEF Looped
<1>6. f[m] = last
  BY <1>2, <1>5, LoopEnds DEF last
<1> DEFINE g == [j \in 0 .. k |-> IF j <= m THEN f[j] ELSE last]
<1>7. WriteLoop(r0, k, g)
  <2>1. ASSUME NEW j \in 0 .. k
        PROVE  g[j] = IF j = 0 THEN r0 ELSE AddNewBlock(g[j - 1])
    <3>1. CASE j = 0
      <4>1. f[0] = r0
        BY <1>2, <1>5 DEF WriteLoop
      <4> QED
        BY <1>2, <3>1, <4>1
    <3>2. CASE j # 0 /\ j <= m
      <4>1. j \in 0 .. m /\ j - 1 \in 0 .. k /\ j - 1 <= m
        BY <1>2, <3>2
      <4>2. f[j] = AddNewBlock(f[j - 1])
        BY <1>5, <3>2, <4>1 DEF WriteLoop
      <4> QED
        BY <3>2, <4>1, <4>2
    <3>3. CASE j > m
      <4>1. j # 0 /\ j - 1 \in 0 .. k /\ (j - 1 <= m => j - 1 = m)
        BY <1>2, <3>3
      <4>2. g[j - 1] = last /\ g[j] = last
        BY <1>2, <1>6, <3>3, <4>1
      <4>3. AddNewBlock(last) = last
        BY <1>4 DEF AddNewBlock
      <4> HIDE DEF g
      <4> QED
        BY <4>1, <4>2, <4>3
    <3> QED
      BY <1>2, <3>1, <3>2, <3>3
  <2>2. g = [j \in 0 .. k |-> g[j]]
    OBVIOUS
  <2> HIDE DEF g
  <2> QED
    BY <2>1, <2>2 DEF WriteLoop
<1>8. new = last
  <2>1. g[k] = last
    BY <1>2
  <2> HIDE DEF g
  <2> QED
    BY <1>7, <2>1, LoopEnds
<1> QED
  BY <1>3, <1>4, <1>8
-----------------------------------------------------------------------------
(* The invariant                                                           *)

(* The theorems are about files that are cut in their direct blocks.  A    *)
(* cut further on leaves pointers to freed blocks in the index blocks it   *)
(* keeps, since remove_dblocks_from_inode writes none of them back.        *)
DirectCuts == \A c \in Cuts : c \div BLOCK_SIZE < D

\* The spots at which a file holds no block but its own: all of them, unless
\* it is a directory and a directory has lost a block.
Scope(f, lost, inode) == IF f \in RegFiles \/ ~ lost THEN Spots ELSE Live(inode.num_blocks)

\* How many blocks a file has is known from its size, or bounded by it.
Sized(f, inode) ==
    /\ f \in RegFiles /\ inode.file_size = 0 => inode.num_blocks <= 1
    /\ f \in RegFiles /\ inode.file_size # 0 =>
          inode.num_blocks = inode.file_size \div BLOCK_SIZE + 1
    /\ f \in Dirs => inode.num_blocks * BLOCK_SIZE <= inode.file_size

Typed ==
    /\ owner \in [Blocks -> Owners] /\ words \in WordsType /\ inodes \in [Files -> Inodes]
    /\ misfreed \in SUBSET Blocks /\ overrun = FALSE /\ failed \in BOOLEAN /\ shrunk \in BOOLEAN

FilesOrdered ==
    misfreed = {} =>
      \A f \in Files :
        Ordered(Device(f), inodes[f], Scope(f, shrunk, inodes[f]), ~ failed /\ ~ shrunk)

Inv ==
    /\ Typed
    /\ \A b \in Blocks : owner[b] = Nobody => words[b] = ZeroBlock
    /\ \A f \in Files : Sized(f, inodes[f])
    /\ ~ shrunk => misfreed = {}
    /\ FilesOrdered

\* The scope of a file covers what it uses.
LEMMA ScopeFacts ==
    ASSUME NEW f, NEW lost, NEW inode \in Inodes
    PROVE  /\ Closed(Scope(f, lost, inode)) /\ Live(inode.num_blocks) \subseteq Scope(f, lost, inode)
           /\ Scope(f, lost, inode) \subseteq Spots
<1>1. inode.num_blocks \in Nat
  BY DEF Inodes
<1>2. Closed(Live(inode.num_blocks)) /\ Live(inode.num_blocks) \subseteq Spots
  BY <1>1, LiveClosed DEF Live
<1> QED
  BY <1>2, SpotsClosed DEF Scope

\* The device in a state that the invariant describes.
LEMMA DeviceTyped ==
    ASSUME Typed, NEW f \in Files
    PROVE  /\ Device(f) \in Devices /\ Device(f).file = f /\ Device(f).words = words
           /\ Device(f).owner = owner /\ Device(f).misfreed = misfreed
           /\ Device(f).overrun = FALSE
           /\ \A g : Seen(Device(f), g) = Device(g)
           /\ inodes[f] \in Inodes
BY DEF Typed, Device, Devices, Seen, WordsType

\* The invariant holds at first.
LEMMA InitInv ==
    Init => Inv
<1> SUFFICES ASSUME Init
             PROVE  Inv
  OBVIOUS
<1>1. ZeroBlock \in [Slots -> Words]
  BY ShapeFacts DEF ZeroBlock, Words
<1>2. FreshInode \in Inodes
  BY ShapeFacts DEF FreshInode, Inodes, Words
<1>3. Typed
  <2>1. owner \in [Blocks -> Owners]
    BY DEF Init, Owners
  <2>2. words \in WordsType
    BY <1>1 DEF Init, WordsType
  <2>3. inodes \in [Files -> Inodes]
    BY <1>2 DEF Init
  <2> QED
    BY <2>1, <2>2, <2>3 DEF Init, Typed
<1>4. \A b \in Blocks : owner[b] = Nobody /\ words[b] = ZeroBlock
  BY DEF Init
<1>5. ASSUME NEW f \in Files
      PROVE  /\ Ordered(Device(f), inodes[f], Scope(f, shrunk, inodes[f]), ~ failed /\ ~ shrunk)
             /\ Sized(f, inodes[f])
  <2>1. inodes[f] = FreshInode /\ shrunk = FALSE
    BY DEF Init
  <2>2. Scope(f, shrunk, inodes[f]) = Spots
    BY <2>1 DEF Scope
  <2>3. \A b \in Blocks : Device(f).owner[b] # Device(f).file
    BY <1>3, <1>4, DeviceTyped, ShapeFacts
  <2>4. Ordered(Device(f), FreshInode, Spots, ~ failed /\ ~ shrunk)
    BY <1>3, <2>3, DeviceTyped, SpotsClosed, FreshOrdered
  <2>5. FreshInode.file_size = 0 /\ FreshInode.num_blocks = 0
    BY DEF FreshInode
  <2>6. BLOCK_SIZE \in Nat
    BY ShapeAssumption
  <2>7. Sized(f, FreshInode)
    BY <2>5, <2>6 DEF Sized
  <2> QED
    BY <2>1, <2>2, <2>4, <2>7
<1> QED
  BY <1>3, <1>4, <1>5 DEF Init, Inv, FilesOrdered

\* A file as it was, whatever else the step did.
FileKept(g) ==
    /\ inodes'[g] = inodes[g]
    /\ \A k \in Live(inodes[g].num_blocks) : At(words', inodes[g], k) = At(words, inodes[g], k)

\* A file that keeps the blocks it still has.
FileLasts(f) ==
    \A k \in Live(inodes[f].num_blocks) \cap Live(inodes'[f].num_blocks) :
        At(words', inodes'[f], k) = At(words, inodes[f], k)

(* What a step does to the device and to the inode of one file, if the     *)
(* invariant is to hold after it.                                          *)
OneFile(f, new, inode2) ==
    /\ new \in Devices /\ FreeAreZero(new) /\ new.overrun = FALSE
    /\ inode2 \in Inodes /\ Sized(f, inode2)
    /\ new.file = f
    /\ new.misfreed = {} => OthersKept(Device(f), new)
    /\ ~ shrunk => new.misfreed = {}

\* A step that keeps its own file in order and spares the others keeps the
\* invariant.
LEMMA OneFileInv ==
    ASSUME Inv, misfreed = {}, NEW f \in Files, NEW new, NEW inode2,
           OneFile(f, new, inode2), Install(new), inodes' = [inodes EXCEPT ![f] = inode2],
           UNCHANGED shrunk, failed' \in BOOLEAN, failed => failed',
           new.misfreed = {} =>
              \E W : /\ Ordered(new, inode2, W, ~ failed' /\ ~ shrunk)
                     /\ Scope(f, shrunk, inode2) \subseteq W
    PROVE  /\ Inv'
           /\ misfreed' = {} => \A g \in Files \ {f} : FileKept(g)
<1>1. /\ Typed /\ Device(f) \in Devices /\ Device(f).file = f /\ inodes \in [Files -> Inodes]
      /\ \A g : Seen(Device(f), g) = Device(g)
  BY DeviceTyped DEF Inv, Typed
<1>2. /\ new \in Devices /\ owner' = new.owner /\ words' = new.words /\ misfreed' = new.misfreed
      /\ overrun' = new.overrun /\ new.file = f
  BY DEF OneFile, Install
<1>3. /\ inodes' \in [Files -> Inodes] /\ inodes'[f] = inode2
      /\ \A g \in Files \ {f} : inodes'[g] = inodes[g]
  BY <1>1 DEF OneFile
<1>4. Typed'
  BY <1>1, <1>2, <1>3 DEF Typed, OneFile, Devices, WordsType
<1>5. \A b \in Blocks : owner'[b] = Nobody => words'[b] = ZeroBlock
  BY <1>2 DEF OneFile, FreeAreZero
<1>6. \A g \in Files : Sized(g, inodes'[g])
  BY <1>3 DEF Inv, OneFile
<1>7. ~ shrunk' => misfreed' = {}
  BY <1>2 DEF OneFile
<1>8. \A g : Device(g)' = Seen(new, g)
  BY <1>2 DEF Device, Seen
<1>9. ASSUME new.misfreed = {}, NEW g \in Files \ {f}
      PROVE  /\ Ordered(Seen(new, g), inodes[g], Scope(g, shrunk, inodes[g]), ~ failed' /\ ~ shrunk)
             /\ FileKept(g)
  <2> DEFINE V == Scope(g, shrunk, inodes[g])
             exact == ~ failed /\ ~ shrunk
  <2>1. inodes[g] \in Inodes
    BY <1>1
  <2>2. Ordered(Device(g), inodes[g], V, exact)
    BY DEF Inv, FilesOrdered
  <2>3. Ordered(Seen(Device(f), g), inodes[g], V, exact)
    BY <1>1, <2>2
  <2>4. OthersKept(Device(f), new) /\ g \in Files /\ g # Device(f).file
    BY <1>1, <1>9 DEF OneFile
  <2>5. /\ Ordered(Seen(new, g), inodes[g], V, exact)
        /\ \A k \in V : At(new.words, inodes[g], k) = At(Device(f).words, inodes[g], k)
    <3> HIDE DEF V, exact
    <3> QED
      BY <1>1, <1>2, <2>3, <2>4, OthersOrdered
  <2>6. Closed(V) /\ Live(inodes[g].num_blocks) \subseteq V
    BY <2>1, ScopeFacts
  <2>7. Device(f).words = words
    BY DEF Device
  <2>8. FileKept(g)
    BY <1>2, <1>3, <2>5, <2>6, <2>7 DEF FileKept
  <2>9. Ordered(Seen(new, g), inodes[g], V, ~ failed' /\ ~ shrunk)
    <3>1. CASE failed' /\ ~ failed
      <4>1. Ordered(Seen(new, g), inodes[g], V, FALSE)
        <5> HIDE DEF V
        <5> QED
          BY <2>5, <2>6, OrderedLess
      <4>2. (~ failed' /\ ~ shrunk) = FALSE
        BY <3>1
      <4> QED
        BY <4>1, <4>2 DEF Ordered
    <3>2. CASE ~ (failed' /\ ~ failed)
      <4>1. (~ failed' /\ ~ shrunk) = exact
        BY <1>1, <3>2 DEF Typed
      <4> QED
        BY <2>5, <4>1
    <3> QED
      BY <3>1, <3>2
  <2> QED
    BY <2>8, <2>9
<1>10. ASSUME new.misfreed = {}
       PROVE  Ordered(Seen(new, f), inode2, Scope(f, shrunk, inode2), ~ failed' /\ ~ shrunk)
  <2> DEFINE V == Scope(f, shrunk, inode2)
  <2>1. PICK W : Ordered(new, inode2, W, ~ failed' /\ ~ shrunk) /\ V \subseteq W
    BY <1>10
  <2>2. Seen(new, f) = new
    BY <1>2, SeenTyped
  <2>3. Closed(V) /\ Live(inode2.num_blocks) \subseteq V /\ V \subseteq Spots
    BY ScopeFacts DEF OneFile
  <2>4. CASE ~ failed' /\ ~ shrunk
    <3>1. W = Spots /\ V = Spots
      BY <2>1, <2>4 DEF Ordered, Scope
    <3> QED
      BY <2>1, <2>2, <3>1
  <2>5. CASE ~ (~ failed' /\ ~ shrunk)
    <3>1. Ordered(new, inode2, V, FALSE)
      <4> HIDE DEF V
      <4> QED
        BY <2>1, <2>3, OrderedLess
    <3> QED
      BY <2>2, <2>5, <3>1 DEF Ordered
  <2> QED
    BY <2>4, <2>5
<1>11. FilesOrdered'
  <2> SUFFICES ASSUME misfreed' = {}, NEW g \in Files
               PROVE  Ordered(Device(g)', inodes'[g], Scope(g, shrunk', inodes'[g]), ~ failed' /\ ~ shrunk')
    BY DEF FilesOrdered
  <2>1. CASE g = f
    BY <1>2, <1>3, <1>8, <1>10, <2>1
  <2>2. CASE g # f
    BY <1>2, <1>3, <1>8, <1>9, <2>2
  <2> QED
    BY <2>1, <2>2
<1>12. Inv'
  BY <1>4, <1>5, <1>6, <1>7, <1>11 DEF Inv
<1> QED
  BY <1>2, <1>9, <1>12
-----------------------------------------------------------------------------
(* The steps                                                               *)

\* Multiples of one number, in order.
LEMMA Products ==
    ASSUME NEW a \in Nat, NEW b \in Nat, NEW p \in Nat
    PROVE  /\ a * p \in Nat /\ b * p \in Nat /\ (a + 1) * p = a * p + p
           /\ a <= b => a * p <= b * p
<1>1. a * p \in Nat /\ b * p \in Nat /\ (a + 1) * p = a * p + p
  OBVIOUS
<1>2. ASSUME a <= b
      PROVE  a * p <= b * p
  <2> DEFINE d == b - a
  <2>1. d \in Nat /\ b = a + d
    BY <1>2
  <2> HIDE DEF d
  <2>2. d * p \in Nat /\ (a + d) * p = a * p + d * p
    BY <2>1
  <2>3. b * p = a * p + d * p
    BY <2>1, <2>2
  <2> QED
    BY <1>1, <2>2, <2>3
<1> QED
  BY <1>1, <1>2

\* A larger offset is in the same block or a later one.
LEMMA BlockOf ==
    ASSUME NEW a \in Nat, NEW b \in Nat, a <= b, NEW p \in Nat \ {0}
    PROVE  a \div p \in Nat /\ b \div p \in Nat /\ a \div p <= b \div p
<1> DEFINE x == a \div p
           y == b \div p
<1>1. /\ x \in Nat /\ a % p \in 0 .. p - 1 /\ a = p * x + (a % p)
      /\ y \in Nat /\ b % p \in 0 .. p - 1 /\ b = p * y + (b % p)
  BY TwoDigits
<1> HIDE DEF x, y
<1>2. ASSUME y < x
      PROVE  FALSE
  <2>1. y + 1 <= x /\ y + 1 \in Nat
    BY <1>1, <1>2
  <2>2. (y + 1) * p <= x * p /\ (y + 1) * p = y * p + p
    BY <1>1, <2>1, Products
  <2>3. x * p = p * x /\ y * p = p * y /\ p * x \in Nat /\ p * y \in Nat
    BY <1>1
  <2> QED
    BY <1>1, <2>2, <2>3
<1>3. x <= y
  BY <1>1, <1>2
<1> QED
  BY <1>1, <1>3 DEF x, y

\* What the invariant says of one file.
LEMMA FileInv ==
    ASSUME Inv, misfreed = {}, NEW f \in Files
    PROVE  /\ Opened(f) \in Opens /\ Opened(f).ok = TRUE
           /\ Opened(f).dev = Device(f) /\ Opened(f).inode = inodes[f]
           /\ Device(f) \in Devices /\ FreeAreZero(Device(f)) /\ Device(f).file = f
           /\ Device(f).words = words /\ Device(f).owner = owner
           /\ Device(f).misfreed = {} /\ Device(f).overrun = FALSE
           /\ inodes[f] \in Inodes /\ Sized(f, inodes[f])
           /\ Ordered(Device(f), inodes[f], Scope(f, shrunk, inodes[f]), ~ failed /\ ~ shrunk)
<1>1. /\ Device(f) \in Devices /\ Device(f).file = f /\ Device(f).words = words
      /\ Device(f).owner = owner /\ Device(f).misfreed = {} /\ Device(f).overrun = FALSE
      /\ inodes[f] \in Inodes
  BY DeviceTyped DEF Inv
<1>2. Opened(f) \in Opens /\ Opened(f).ok = TRUE
      /\ Opened(f).dev = Device(f) /\ Opened(f).inode = inodes[f]
  BY <1>1 DEF Opened, Opens
<1>3. FreeAreZero(Device(f))
  BY <1>1 DEF FreeAreZero, Inv
<1> QED
  BY <1>1, <1>2, <1>3 DEF Inv, FilesOrdered

\* What an operation spares is not given back by mistake.
LEMMA SparesOne ==
    ASSUME Inv, misfreed = {}, NEW f \in Files, NEW new \in Devices, Spares(Device(f), new),
           FreeAreZero(new), NEW inode2 \in Inodes, Sized(f, inode2)
    PROVE  OneFile(f, new, inode2) /\ new.misfreed = {}
<1>1. Device(f).file = f /\ Device(f).misfreed = {} /\ Device(f).overrun = FALSE
  BY FileInv
<1>2. new.file = f /\ new.misfreed = {} /\ new.overrun = FALSE
  BY <1>1 DEF Spares
<1>3. OthersKept(Device(f), new)
  BY SparesOthers
<1> QED
  BY <1>2, <1>3 DEF OneFile

\* custom_write
LEMMA WriteStep ==
    ASSUME Inv, misfreed = {}, NoTriple, NEW f \in Files, NEW from \in Offsets, NEW to \in Offsets,
           Write(f, from, to)
    PROVE  /\ Inv' /\ misfreed' = {} /\ \A g \in Files \ {f} : FileKept(g)
           /\ FileLasts(f)
<1> DEFINE dev == Device(f)
           inode == inodes[f]
           nb == inode.num_blocks
           missing == to \div BLOCK_SIZE - nb + 1
           grown == WriteGrown(Opened(f), missing)
           inode2 == [grown.inode EXCEPT !.file_size = to]
           exact == ~ failed /\ ~ shrunk
<1>1. /\ Opened(f) \in Opens /\ Opened(f).ok /\ Opened(f).dev = dev /\ Opened(f).inode = inode
      /\ dev \in Devices /\ FreeAreZero(dev) /\ dev.words = words /\ inode \in Inodes
      /\ Sized(f, inode) /\ f \in RegFiles /\ ~ (f \in Dirs)
  BY FileInv, ShapeAssumption DEF Write
<1>2. Ordered(dev, inode, Spots, exact)
  BY <1>1, FileInv DEF Scope
<1>3. /\ to \in Nat /\ BLOCK_SIZE \in Nat \ {0} /\ inode.file_size \in Nat /\ nb \in Nat
      /\ to > inode.file_size /\ Capacity \in Nat
  <2>1. Capacity \in Nat /\ to \in Nat /\ BLOCK_SIZE \in Nat \ {0}
    BY ShapeAssumption, ShapeFacts DEF Capacity
  <2>2. inode.file_size \in Nat /\ nb \in Nat
    BY <1>1 DEF Inodes
  <2>3. to > inode.file_size
    BY DEF Write
  <2> QED
    BY <2>1, <2>2, <2>3
<1>4. inode.file_size \div BLOCK_SIZE <= to \div BLOCK_SIZE
      /\ to \div BLOCK_SIZE \in Nat /\ inode.file_size \div BLOCK_SIZE \in Nat
  BY <1>3, BlockOf
<1>5. missing \in Nat /\ nb + missing = to \div BLOCK_SIZE + 1
  <2>1. nb <= to \div BLOCK_SIZE + 1
    BY <1>1, <1>3, <1>4 DEF Sized
  <2> QED
    BY <1>3, <1>4, <2>1
<1>6. /\ Grows(Opened(f), grown, Spots, inode, Spots, nb, exact)
      /\ grown.ok => grown.inode.num_blocks = nb + missing
  <2>1. /\ Ordered(Opened(f).dev, Opened(f).inode, Spots, exact)
        /\ FreeAreZero(Opened(f).dev) /\ Opened(f).inode.num_blocks = nb
    BY <1>1, <1>2
  <2>2. CASE nb + missing <= Capacity
    <3> HIDE DEF inode, dev, nb, missing, exact
    <3> QED
      BY <1>1, <1>5, <2>1, <2>2, WriteOrdered
  <2>3. CASE nb + missing > Capacity
    <3>1. SmallDevice
      <4>1. ~ (to \div BLOCK_SIZE < Capacity)
        BY <1>3, <1>4, <1>5, <2>3
      <4> QED
        BY <4>1 DEF NoTriple, SmallFiles
    <3>2. missing \in Nat /\ Opened(f).inode.num_blocks + missing > Capacity
      BY <1>5, <2>1, <2>3
    <3> HIDE DEF inode, dev, nb, missing, exact
    <3> QED
      BY <1>1, <2>1, <3>1, <3>2, WriteFails
  <2>4. nb + missing <= Capacity \/ nb + missing > Capacity
    BY <1>3, <1>5
  <2> QED
    BY <2>2, <2>3, <2>4
<1> HIDE DEF missing
<1>7. /\ Install(grown.dev) /\ UNCHANGED shrunk
      /\ \/ /\ grown.ok /\ inodes' = [inodes EXCEPT ![f] = inode2] /\ UNCHANGED failed
         \/ failed' = TRUE /\ UNCHANGED inodes
  BY DEF Write, WriteGrown, missing
<1> HIDE DEF grown
<1>8. /\ grown \in Opens /\ Spares(dev, grown.dev) /\ FreeAreZero(grown.dev)
      /\ Ordered(grown.dev, inode, Spots, FALSE)
      /\ \A k \in Live(nb) : /\ At(grown.dev.words, inode, k) = At(words, inode, k)
                             /\ At(grown.dev.words, grown.inode, k) = At(words, inode, k)
      /\ grown.ok => \E W : Spots \subseteq W /\ Ordered(grown.dev, grown.inode, W, exact)
  <2>1. Grows(Opened(f), grown, Spots, Opened(f).inode, Spots, nb, exact)
        /\ Ordered(Opened(f).dev, Opened(f).inode, Spots, exact) /\ nb = Opened(f).inode.num_blocks
    BY <1>1, <1>2, <1>6
  <2>2. Grown(Opened(f).dev, Opened(f).inode, Spots, nb, grown, exact)
    <3>1. Opened(f) \in Opens
      BY <1>1
    <3> HIDE DEF nb, exact, inode, dev, inode2
    <3> QED
      BY <2>1, <3>1, GrownOrdered
  <2> QED
    BY <1>1, <2>2 DEF Grown
<1>9. grown.dev \in Devices /\ grown.inode \in Inodes /\ words' = grown.dev.words
      /\ misfreed' = grown.dev.misfreed
  BY <1>7, <1>8 DEF Opens, Install
<1>10. failed \in BOOLEAN /\ inodes \in [Files -> Inodes]
  BY DEF Inv, Typed
<1>11. CASE grown.ok /\ inodes' = [inodes EXCEPT ![f] = inode2] /\ UNCHANGED failed
  <2>1. /\ inode2 \in Inodes /\ SameTree(grown.inode, inode2) /\ inode2.file_size = to
        /\ inode2.num_blocks = grown.inode.num_blocks /\ inode2.triple = grown.inode.triple
    BY <1>3, <1>9 DEF Inodes, SameTree
  <2>2. inode2.num_blocks = to \div BLOCK_SIZE + 1 /\ inode2.file_size # 0
    BY <1>3, <1>5, <1>6, <1>11, <2>1
  <2>3. Sized(f, inode2)
    BY <1>1, <2>1, <2>2 DEF Sized
  <2>4. OneFile(f, grown.dev, inode2) /\ grown.dev.misfreed = {}
    BY <1>8, <1>9, <2>1, <2>3, SparesOne
  <2>5. PICK W : Spots \subseteq W /\ Ordered(grown.dev, grown.inode, W, exact)
    BY <1>8, <1>11
  <2>6. Ordered(grown.dev, inode2, W, exact)
    <3> HIDE DEF inode2, exact
    <3> QED
      BY <2>1, <2>5, OrderedSize
  <2>7. Scope(f, shrunk, inode2) \subseteq W
    BY <1>1, <2>5 DEF Scope
  <2>8. (~ failed' /\ ~ shrunk) = exact
    BY <1>11
  <2>9. inodes'[f] = inode2
    BY <1>10, <1>11, <2>1
  <2>10. Inv' /\ \A g \in Files \ {f} : FileKept(g)
    <3>1. Ordered(grown.dev, inode2, W, ~ failed' /\ ~ shrunk)
      BY <2>6, <2>8
    <3> HIDE DEF inode2
    <3> QED
      BY <1>7, <1>9, <1>10, <1>11, <2>4, <2>7, <3>1, OneFileInv
  <2>11. FileLasts(f)
    <3>1. \A k \in Spots : At(grown.dev.words, inode2, k) = At(grown.dev.words, grown.inode, k)
      <4> HIDE DEF inode2
      <4> QED
        BY <2>1, AtSame
    <3> QED
      BY <1>8, <1>9, <2>9, <3>1 DEF FileLasts, Live
  <2> QED
    BY <1>9, <2>4, <2>10, <2>11
<1>12. CASE failed' = TRUE /\ UNCHANGED inodes
  <2>1. inodes' = [inodes EXCEPT ![f] = inode]
    BY <1>10, <1>12
  <2>2. OneFile(f, grown.dev, inode) /\ grown.dev.misfreed = {}
    BY <1>1, <1>8, <1>9, SparesOne
  <2>3. (~ failed' /\ ~ shrunk) = FALSE
    BY <1>12
  <2>4. Ordered(grown.dev, inode, Spots, ~ failed' /\ ~ shrunk)
    BY <1>8, <2>3
  <2>5. Scope(f, shrunk, inode) \subseteq Spots
    BY <1>1, ScopeFacts
  <2>6. failed' \in BOOLEAN /\ (failed => failed') /\ UNCHANGED shrunk
    BY <1>7, <1>12
  <2>7. Inv' /\ \A g \in Files \ {f} : FileKept(g)
    <3> HIDE DEF inode
    <3> QED
      BY <1>7, <1>9, <2>1, <2>2, <2>4, <2>5, <2>6, OneFileInv
  <2>8. FileLasts(f)
    BY <1>8, <1>9, <1>12 DEF FileLasts
  <2> QED
    BY <1>9, <2>2, <2>7, <2>8
<1> QED
  BY <1>7, <1>11, <1>12

\* custom_truncate
LEMMA TruncateStep ==
    ASSUME Inv, misfreed = {}, DirectCuts, NEW f \in Files, NEW cut \in Cuts, Truncate(f, cut)
    PROVE  /\ Inv' /\ misfreed' = {} /\ \A g \in Files \ {f} : FileKept(g)
           /\ FileLasts(f)
<1> DEFINE dev == Device(f)
           inode == inodes[f]
           nb == inode.num_blocks
           last == cut \div BLOCK_SIZE
           kept == IF nb > last + 1 THEN RemoveDblocks(Opened(f), last + 1) ELSE Opened(f)
           inode2 == [kept.inode EXCEPT !.file_size = cut]
           exact == ~ failed /\ ~ shrunk
<1>1. /\ Opened(f) \in Opens /\ Opened(f).dev = dev /\ Opened(f).inode = inode
      /\ dev \in Devices /\ FreeAreZero(dev) /\ dev.words = words /\ inode \in Inodes
      /\ Sized(f, inode) /\ f \in RegFiles /\ ~ (f \in Dirs)
  BY FileInv, ShapeAssumption DEF Truncate
<1>2. Ordered(dev, inode, Spots, exact)
  BY <1>1, FileInv DEF Scope
<1>3. /\ cut \in Nat /\ BLOCK_SIZE \in Nat \ {0} /\ inode.file_size \in Nat /\ nb \in Nat
      /\ cut <= inode.file_size /\ inode.file_size # 0 /\ last < D /\ D \in Nat
  <2>1. cut \in Nat /\ BLOCK_SIZE \in Nat \ {0} /\ D \in Nat
    BY ShapeAssumption, ShapeFacts
  <2>2. inode.file_size \in Nat /\ nb \in Nat
    BY <1>1 DEF Inodes
  <2>3. cut <= inode.file_size /\ inode.file_size # 0 /\ last < D
    BY DEF Truncate, DirectCuts
  <2> QED
    BY <2>1, <2>2, <2>3
<1>4. last \in Nat /\ inode.file_size \div BLOCK_SIZE \in Nat /\ last <= inode.file_size \div BLOCK_SIZE
  BY <1>3, BlockOf
<1>5. nb >= last + 1 /\ last + 1 \in Nat /\ last + 1 <= D /\ last < Capacity /\ last + 1 - 1 = last
  <2>1. nb = inode.file_size \div BLOCK_SIZE + 1
    BY <1>1, <1>3 DEF Sized
  <2>2. D <= Capacity /\ Capacity \in Nat
    BY ShapeFacts DEF Capacity
  <2> HIDE DEF last, nb
  <2> QED
    BY <1>3, <1>4, <2>1, <2>2
<1>6. /\ Install(kept.dev) /\ UNCHANGED <<failed, shrunk>>
      /\ \/ inodes' = [inodes EXCEPT ![f] = inode2]
         \/ Lookup(kept.dev.words, kept.inode, last) = 0 /\ UNCHANGED inodes
  BY DEF Truncate
<1>7. /\ kept.dev \in Devices /\ Spares(dev, kept.dev) /\ FreeAreZero(kept.dev)
      /\ kept.inode.num_blocks = last + 1 /\ Ordered(kept.dev, kept.inode, Spots, exact)
      /\ \A k \in Live(last + 1) : At(kept.dev.words, kept.inode, k) = At(words, inode, k)
  <2>1. CASE nb > last + 1
    <3>1. kept = RemoveDblocks(Opened(f), last + 1)
      BY <2>1
    <3>2. /\ Opened(f) \in Opens /\ FreeAreZero(Opened(f).dev)
          /\ Ordered(Opened(f).dev, Opened(f).inode, Spots, exact)
          /\ last + 1 \in Nat /\ last + 1 <= D /\ last + 1 <= Opened(f).inode.num_blocks
      BY <1>1, <1>2, <1>5
    <3>3. CutTo(Opened(f).dev, Opened(f).inode, last + 1, kept, exact)
      <4> HIDE DEF kept, last, exact, inode, dev, nb, inode2
      <4> QED
        BY <3>1, <3>2, CutOrdered
    <3> HIDE DEF kept
    <3> QED
      BY <1>1, <3>3 DEF CutTo
  <2>2. CASE ~ (nb > last + 1)
    <3>1. kept = Opened(f) /\ nb = last + 1
      BY <1>3, <1>4, <1>5, <2>2
    <3>2. Spares(dev, dev)
      BY DEF Spares
    <3> HIDE DEF kept
    <3> QED
      BY <1>1, <1>2, <3>1, <3>2
  <2> QED
    BY <2>1, <2>2
<1> HIDE DEF kept
<1>8. kept.inode \in Inodes /\ words' = kept.dev.words /\ misfreed' = kept.dev.misfreed
  BY <1>6, <1>7 DEF Install, Ordered
<1>9. inodes' = [inodes EXCEPT ![f] = inode2]
  <2>1. Leaf(last) \in Live(last + 1)
    BY <1>4, <1>5, LeafFacts DEF Live
  <2>2. At(kept.dev.words, kept.inode, Leaf(last)) # 0
    BY <1>7, <2>1 DEF Ordered
  <2>3. last <= kept.inode.num_blocks
    BY <1>4, <1>7
  <2>4. Lookup(kept.dev.words, kept.inode, last) = At(kept.dev.words, kept.inode, Leaf(last))
    BY <1>4, <1>5, <1>8, <2>3, LookupLeaf
  <2> QED
    BY <1>6, <2>2, <2>4
<1>10. /\ inode2 \in Inodes /\ SameTree(kept.inode, inode2) /\ inode2.file_size = cut
       /\ inode2.num_blocks = last + 1 /\ inode2.num_blocks = kept.inode.num_blocks
       /\ inode2.triple = kept.inode.triple
  BY <1>3, <1>7, <1>8 DEF Inodes, SameTree
<1> HIDE DEF inode2
<1>11. Sized(f, inode2)
  <2>1. cut = 0 => last = 0
    BY <1>3
  <2>2. f \notin Dirs
    BY <1>1
  <2>3. inode2.file_size = 0 => inode2.num_blocks <= 1
    BY <1>10, <2>1
  <2>4. inode2.num_blocks = inode2.file_size \div BLOCK_SIZE + 1
    BY <1>10
  <2> QED
    BY <2>2, <2>3, <2>4 DEF Sized
<1>12. OneFile(f, kept.dev, inode2) /\ kept.dev.misfreed = {}
  BY <1>7, <1>10, <1>11, SparesOne
<1>13. Ordered(kept.dev, inode2, Spots, exact)
  <2> HIDE DEF exact
  <2> QED
    BY <1>7, <1>10, OrderedSize
<1>14. Scope(f, shrunk, inode2) \subseteq Spots
  BY <1>10, ScopeFacts
<1>15. failed' \in BOOLEAN /\ (failed => failed') /\ UNCHANGED shrunk /\ (~ failed' /\ ~ shrunk) = exact
  BY <1>6 DEF Inv, Typed
<1>16. Inv' /\ \A g \in Files \ {f} : FileKept(g)
  <2>1. Ordered(kept.dev, inode2, Spots, ~ failed' /\ ~ shrunk)
    BY <1>13, <1>15
  <2> QED
    BY <1>6, <1>8, <1>9, <1>12, <1>14, <1>15, <2>1, OneFileInv
<1>17. FileLasts(f)
  <2>1. \A k \in Spots : At(kept.dev.words, inode2, k) = At(kept.dev.words, kept.inode, k)
    BY <1>10, AtSame
  <2>2. inodes'[f] = inode2
    BY <1>9 DEF Inv, Typed
  <2> QED
    BY <1>7, <1>8, <1>10, <2>1, <2>2 DEF FileLasts, Live
<1> QED
  BY <1>8, <1>12, <1>16, <1>17

\* add_new_entry, with a new block
LEMMA AddDirStep ==
    ASSUME Inv, misfreed = {}, NoTriple, NEW f \in Files, AddDirBlock(f)
    PROVE  /\ Inv' /\ misfreed' = {} /\ \A g \in Files \ {f} : FileKept(g)
           /\ FileLasts(f)
<1> DEFINE dev == Device(f)
           inode == inodes[f]
           nb == inode.num_blocks
           V == Scope(f, shrunk, inode)
           grown == AddNewBlock(Opened(f))
           inode2 == [grown.inode EXCEPT !.file_size = @ + BLOCK_SIZE]
           exact == ~ failed /\ ~ shrunk
<1>1. /\ Opened(f) \in Opens /\ Opened(f).ok /\ Opened(f).dev = dev /\ Opened(f).inode = inode
      /\ dev \in Devices /\ FreeAreZero(dev) /\ dev.words = words /\ inode \in Inodes
      /\ Sized(f, inode) /\ f \in Dirs /\ ~ (f \in RegFiles)
  BY FileInv, ShapeAssumption DEF AddDirBlock
<1>2. Ordered(dev, inode, V, exact)
  BY FileInv
<1>3. /\ BLOCK_SIZE \in Nat \ {0} /\ inode.file_size \in Nat /\ nb \in Nat /\ Capacity \in Nat
      /\ nb * BLOCK_SIZE <= inode.file_size /\ inode.file_size < MaxDirSize /\ MaxDirSize \in Nat
  <2>1. Capacity \in Nat /\ MaxDirSize \in Nat /\ BLOCK_SIZE \in Nat \ {0}
    BY ShapeAssumption, ShapeFacts DEF Capacity
  <2>2. inode.file_size \in Nat /\ nb \in Nat
    BY <1>1 DEF Inodes
  <2>3. nb * BLOCK_SIZE <= inode.file_size
    BY <1>1 DEF Sized
  <2>4. inode.file_size < MaxDirSize
    BY DEF AddDirBlock
  <2> QED
    BY <2>1, <2>2, <2>3, <2>4
<1>4. nb < Capacity
  <2>1. CASE SmallDevice
    BY <1>1, <1>2, <2>1, RoomLeft
  <2>2. CASE SmallFiles
    <3>1. Capacity <= nb => Capacity * BLOCK_SIZE <= nb * BLOCK_SIZE
      BY <1>3, Products
    <3>2. Capacity * BLOCK_SIZE \in Nat /\ nb * BLOCK_SIZE \in Nat
      BY <1>3, Products
    <3>3. MaxDirSize <= Capacity * BLOCK_SIZE
      BY <2>2 DEF SmallFiles
    <3> HIDE DEF nb, inode
    <3> QED
      BY <1>3, <3>1, <3>2, <3>3
  <2> QED
    BY <2>1, <2>2 DEF NoTriple
<1>5. /\ Grows(Opened(f), grown, V, Opened(f).inode, V, nb, exact)
      /\ grown.ok => grown.inode.num_blocks = nb + 1
  <2>1. /\ Ordered(Opened(f).dev, Opened(f).inode, V, exact)
        /\ FreeAreZero(Opened(f).dev) /\ Opened(f).inode.num_blocks = nb
    BY <1>1, <1>2
  <2>2. Opened(f).inode.num_blocks < Capacity
    BY <1>4, <2>1
  <2> HIDE DEF inode, dev, nb, exact, V, inode2
  <2> QED
    BY <1>1, <2>1, <2>2, EntryOrdered
<1>6. /\ Install(grown.dev) /\ UNCHANGED shrunk
      /\ \/ /\ grown.ok /\ inodes' = [inodes EXCEPT ![f] = inode2] /\ UNCHANGED failed
         \/ failed' = TRUE /\ UNCHANGED inodes
  BY DEF AddDirBlock
<1> HIDE DEF grown
<1>7. /\ grown \in Opens /\ Spares(dev, grown.dev) /\ FreeAreZero(grown.dev)
      /\ grown.inode.file_size = inode.file_size
      /\ Ordered(grown.dev, inode, V, FALSE)
      /\ \A k \in Live(nb) : /\ At(grown.dev.words, inode, k) = At(words, inode, k)
                             /\ At(grown.dev.words, grown.inode, k) = At(words, inode, k)
      /\ grown.ok => \E W : V \subseteq W /\ Ordered(grown.dev, grown.inode, W, exact)
  <2>1. /\ Ordered(Opened(f).dev, Opened(f).inode, V, exact) /\ nb = Opened(f).inode.num_blocks
    BY <1>1, <1>2
  <2>2. Grown(Opened(f).dev, Opened(f).inode, V, nb, grown, exact)
    <3>1. Opened(f) \in Opens
      BY <1>1
    <3> HIDE DEF nb, exact, inode, dev, inode2, V
    <3> QED
      BY <1>5, <2>1, <3>1, GrownOrdered
  <2> QED
    BY <1>1, <2>2 DEF Grown
<1>8. grown.dev \in Devices /\ grown.inode \in Inodes /\ words' = grown.dev.words
      /\ misfreed' = grown.dev.misfreed
  BY <1>6, <1>7 DEF Opens, Install
<1>9. failed \in BOOLEAN /\ inodes \in [Files -> Inodes]
  BY DEF Inv, Typed
<1>10. CASE grown.ok /\ inodes' = [inodes EXCEPT ![f] = inode2] /\ UNCHANGED failed
  <2>1. /\ inode2 \in Inodes /\ SameTree(grown.inode, inode2)
        /\ inode2.file_size = inode.file_size + BLOCK_SIZE
        /\ inode2.num_blocks = grown.inode.num_blocks /\ inode2.triple = grown.inode.triple
    <3> DEFINE size == inode.file_size + BLOCK_SIZE
    <3>1. size \in Nat /\ inode2 = [grown.inode EXCEPT !.file_size = size]
      BY <1>3, <1>7
    <3> HIDE DEF size
    <3>2. /\ inode2 \in Inodes /\ SameTree(grown.inode, inode2) /\ inode2.file_size = size
          /\ inode2.num_blocks = grown.inode.num_blocks /\ inode2.triple = grown.inode.triple
      BY <1>8, <3>1 DEF Inodes, SameTree
    <3> QED
      BY <3>2 DEF size
  <2>2. Sized(f, inode2)
    <3>1. inode2.num_blocks = nb + 1
      BY <1>5, <1>10, <2>1
    <3>2. (nb + 1) * BLOCK_SIZE = nb * BLOCK_SIZE + BLOCK_SIZE /\ nb * BLOCK_SIZE \in Nat
      BY <1>3, Products
    <3>3. inode2.num_blocks * BLOCK_SIZE <= inode2.file_size
      <4> HIDE DEF nb, inode, inode2
      <4> QED
        BY <1>3, <2>1, <3>1, <3>2
    <3> QED
      BY <1>1, <3>3 DEF Sized
  <2>3. OneFile(f, grown.dev, inode2) /\ grown.dev.misfreed = {}
    <3> HIDE DEF inode2
    <3> QED
      BY <1>7, <1>8, <2>1, <2>2, SparesOne
  <2>4. PICK W : V \subseteq W /\ Ordered(grown.dev, grown.inode, W, exact)
    BY <1>7, <1>10
  <2>5. Ordered(grown.dev, inode2, W, exact)
    <3> HIDE DEF inode2, exact
    <3> QED
      BY <2>1, <2>4, OrderedSize
  <2>6. Scope(f, shrunk, inode2) \subseteq W
    <3>1. Live(inode2.num_blocks) \subseteq W
      BY <2>5 DEF Ordered
    <3> QED
      BY <2>4, <3>1 DEF Scope
  <2>7. (~ failed' /\ ~ shrunk) = exact
    BY <1>10
  <2>8. inodes'[f] = inode2
    BY <1>9, <1>10, <2>1
  <2>9. Inv' /\ \A g \in Files \ {f} : FileKept(g)
    <3>1. Ordered(grown.dev, inode2, W, ~ failed' /\ ~ shrunk)
      BY <2>5, <2>7
    <3> HIDE DEF inode2
    <3> QED
      BY <1>6, <1>8, <1>9, <1>10, <2>3, <2>6, <3>1, OneFileInv
  <2>10. FileLasts(f)
    <3>1. \A k \in Spots : At(grown.dev.words, inode2, k) = At(grown.dev.words, grown.inode, k)
      <4> HIDE DEF inode2
      <4> QED
        BY <2>1, AtSame
    <3> QED
      BY <1>7, <1>8, <2>8, <3>1 DEF FileLasts, Live
  <2> QED
    BY <1>8, <2>3, <2>9, <2>10
<1>11. CASE failed' = TRUE /\ UNCHANGED inodes
  <2>1. inodes' = [inodes EXCEPT ![f] = inode]
    BY <1>9, <1>11
  <2>2. OneFile(f, grown.dev, inode) /\ grown.dev.misfreed = {}
    BY <1>1, <1>7, <1>8, SparesOne
  <2>3. (~ failed' /\ ~ shrunk) = FALSE
    BY <1>11
  <2>4. Ordered(grown.dev, inode, V, ~ failed' /\ ~ shrunk)
    BY <1>7, <2>3
  <2>5. failed' \in BOOLEAN /\ (failed => failed') /\ UNCHANGED shrunk
    BY <1>6, <1>11
  <2>6. Scope(f, shrunk, inode) \subseteq V
    OBVIOUS
  <2>7. Inv' /\ \A g \in Files \ {f} : FileKept(g)
    <3> HIDE DEF inode, V
    <3> QED
      BY <1>6, <1>8, <2>1, <2>2, <2>4, <2>5, <2>6, OneFileInv
  <2>8. FileLasts(f)
    BY <1>7, <1>8, <1>11 DEF FileLasts
  <2> QED
    BY <1>8, <2>2, <2>7, <2>8
<1> QED
  BY <1>6, <1>10, <1>11

\* Whatever is given back, free blocks are full of zeros.
LEMMA GivesZero ==
    ASSUME NEW dev, NEW new, FreeAreZero(dev), GivesBack(dev, new)
    PROVE  FreeAreZero(new)
BY DEF GivesBack, FreeAreZero

\* custom_unlink
LEMMA UnlinkStep ==
    ASSUME Inv, misfreed = {}, NEW f \in Files, Unlink(f)
    PROVE  /\ Inv'
           /\ misfreed' = {} => \A g \in Files \ {f} : FileKept(g)
           /\ FileLasts(f)
<1> DEFINE dev == Device(f)
           inode == inodes[f]
           new == FreeTree(dev, inode)
           exact == ~ failed /\ ~ shrunk
<1>1. /\ dev \in Devices /\ FreeAreZero(dev) /\ dev.words = words /\ inode \in Inodes
      /\ dev.file = f /\ dev.overrun = FALSE
  BY FileInv
<1>2. Ordered(dev, inode, Scope(f, shrunk, inode), exact) /\ inode.triple = 0
  BY FileInv DEF Ordered
<1>3. /\ Install(new) /\ inodes' = [inodes EXCEPT ![f] = FreshInode] /\ UNCHANGED <<failed, shrunk>>
  BY DEF Unlink
<1>4. inodes \in [Files -> Inodes] /\ failed' \in BOOLEAN /\ (failed => failed')
  BY <1>3 DEF Inv, Typed
<1>5. FreshInode \in Inodes /\ Sized(f, FreshInode) /\ FreshInode.num_blocks = 0
  <2>1. FreshInode \in Inodes
    BY <1>1, FreshOrdered, SpotsClosed
  <2>2. FreshInode.file_size = 0 /\ FreshInode.num_blocks = 0 /\ BLOCK_SIZE \in Nat
    BY ShapeAssumption DEF FreshInode
  <2> QED
    BY <2>1, <2>2 DEF Sized
<1> HIDE DEF new
<1>6. /\ OneFile(f, new, FreshInode)
      /\ new.misfreed = {} => Ordered(new, FreshInode, Spots, ~ failed' /\ ~ shrunk)
  <2>1. CASE Scope(f, shrunk, inode) = Spots
    <3>1. /\ new \in Devices /\ Spares(dev, new) /\ FreeAreZero(new)
          /\ Ordered(new, FreshInode, Spots, exact)
      <4>1. Ordered(dev, inode, Spots, exact) /\ new = FreeTree(dev, inode)
        BY <1>2, <2>1 DEF new
      <4> HIDE DEF exact, dev, inode
      <4> QED
        BY <1>1, <4>1, TreeOrdered
    <3>2. OneFile(f, new, FreshInode)
      BY <1>5, <3>1, SparesOne
    <3>3. exact = (~ failed' /\ ~ shrunk)
      BY <1>3
    <3> QED
      BY <3>1, <3>2, <3>3
  <2>2. CASE Scope(f, shrunk, inode) # Spots
    <3>1. shrunk
      BY <2>2 DEF Scope
    <3>2. GivesBack(dev, new)
      BY <1>1, <1>2, TreeGives DEF new
    <3>3. new \in Devices /\ new.file = f /\ new.overrun = FALSE /\ FreeAreZero(new)
      BY <1>1, <3>2, GivesZero DEF GivesBack
    <3>4. new.misfreed = {} => OthersKept(dev, new)
      BY <3>2, GivesOthers
    <3>5. OneFile(f, new, FreshInode)
      BY <1>5, <3>1, <3>3, <3>4 DEF OneFile
    <3>6. (~ failed' /\ ~ shrunk) = FALSE
      BY <3>1
    <3>7. Ordered(new, FreshInode, Spots, FALSE)
      BY <3>3, FreshOrdered, SpotsClosed
    <3> QED
      BY <3>5, <3>6, <3>7
  <2> QED
    BY <2>1, <2>2
<1>7. Scope(f, shrunk, FreshInode) \subseteq Spots
  BY <1>5, ScopeFacts
<1>8. /\ Inv'
      /\ misfreed' = {} => \A g \in Files \ {f} : FileKept(g)
  BY <1>3, <1>4, <1>6, <1>7, OneFileInv
<1>9. FileLasts(f)
  <2>1. inodes'[f].num_blocks = 0
    BY <1>3, <1>4, <1>5
  <2>2. Live(0) = {}
    BY StartTyped DEF Live
  <2> QED
    BY <2>1, <2>2 DEF FileLasts
<1> QED
  BY <1>8, <1>9

\* A directory that lost its n-th block to the last one.
BlockDropped(d, n) ==
    LET last == inodes[d].num_blocks - 1
    IN  /\ inodes'[d].num_blocks = last
        /\ \A k \in Live(last) : At(words', inodes'[d], k) =
              IF k = Leaf(n) THEN At(words, inodes[d], Leaf(last)) ELSE At(words, inodes[d], k)

\* custom_unlink of the only entry of a block of its directory
LEMMA UnlinkAloneStep ==
    ASSUME Inv, misfreed = {}, NEW f \in Files, NEW d \in Dirs \ {f},
           NEW n \in 1 .. inodes[d].num_blocks - 1, UnlinkAlone(f, d, n)
    PROVE  /\ Inv'
           /\ misfreed' = {} => /\ \A g \in Files \ {f, d} : FileKept(g)
                                /\ BlockDropped(d, n)
           /\ inodes'[f] = FreshInode
<1> DEFINE r == Opened(d)
           inode == inodes[d]
           last == inode.num_blocks - 1
           parent == Drop(r, n)
           V == Scope(d, shrunk, inode)
           exact == ~ failed /\ ~ shrunk
<1>1. /\ r \in Opens /\ r.dev = Device(d) /\ r.inode = inode /\ FreeAreZero(r.dev)
      /\ r.dev \in Devices /\ r.dev.words = words /\ r.dev.file = d /\ r.dev.misfreed = {}
      /\ r.dev.overrun = FALSE /\ inode \in Inodes /\ Sized(d, inode)
      /\ Ordered(r.dev, inode, V, exact) /\ d \in Files
  <2>1. d \in Files
    BY DEF Files
  <2>2. /\ Opened(d) \in Opens /\ Opened(d).dev = Device(d) /\ Opened(d).inode = inodes[d]
        /\ Device(d) \in Devices /\ FreeAreZero(Device(d)) /\ Device(d).file = d
        /\ Device(d).words = words /\ Device(d).misfreed = {} /\ Device(d).overrun = FALSE
        /\ inodes[d] \in Inodes /\ Sized(d, inodes[d])
    BY <2>1, FileInv
  <2>3. Ordered(Device(d), inodes[d], Scope(d, shrunk, inodes[d]), ~ failed /\ ~ shrunk)
    BY <2>1, FileInv
  <2> QED
    BY <2>1, <2>2, <2>3
<1>2. d \in Dirs /\ d \notin RegFiles /\ d # f /\ n \in Nat /\ n < inode.num_blocks
      /\ inode.num_blocks \in Nat /\ last \in Nat /\ inode.num_blocks = last + 1
  <2>1. inode.num_blocks \in Nat
    BY <1>1 DEF Inodes
  <2>2. n \in 1 .. inode.num_blocks - 1
    OBVIOUS
  <2> HIDE DEF inode
  <2> QED
    BY <2>1, <2>2, ShapeAssumption
<1>3. /\ parent.dev \in Devices /\ Spares(r.dev, parent.dev) /\ FreeAreZero(parent.dev)
      /\ parent.inode.num_blocks = last /\ parent.inode.file_size = inode.file_size
      /\ Ordered(parent.dev, parent.inode, Live(last), FALSE)
      /\ \A k \in Live(last) : At(parent.dev.words, parent.inode, k) =
            IF k = Leaf(n) THEN At(words, inode, Leaf(last)) ELSE At(words, inode, k)
  <2>1. /\ Ordered(r.dev, r.inode, V, exact) /\ n < r.inode.num_blocks
        /\ last = r.inode.num_blocks - 1
    BY <1>1, <1>2
  <2>2. DropTo(r.dev, r.inode, n, last, parent)
    <3> HIDE DEF V, exact, r, inode, last
    <3> QED
      BY <1>1, <1>2, <2>1, DropOrdered
  <2> HIDE DEF parent
  <2> QED
    BY <1>1, <2>2 DEF DropTo
<1> HIDE DEF parent, r
<1> DEFINE mid == Seen(parent.dev, f)
           new == FreeTree(mid, inodes[f])
<1>4. /\ parent.dev.file = d /\ parent.dev.misfreed = {} /\ parent.dev.overrun = FALSE
      /\ parent.inode \in Inodes
  BY <1>1, <1>3 DEF Spares, Ordered
<1>5. mid \in Devices /\ FreeAreZero(mid) /\ [parent.dev EXCEPT !.file = f] = mid
      /\ mid.file = f /\ mid.overrun = FALSE /\ mid.misfreed = {}
      /\ \A g : Seen(mid, g) = Seen(parent.dev, g)
  <2>1. mid \in Devices /\ FreeAreZero(mid) /\ [parent.dev EXCEPT !.file = f] = mid
    BY <1>3, SeenTyped
  <2> QED
    BY <1>4, <2>1 DEF Seen
<1>6. /\ Install(new)
      /\ inodes' = [inodes EXCEPT ![f] = FreshInode, ![d] = parent.inode]
      /\ shrunk' = TRUE /\ UNCHANGED failed
  <2>1. /\ Install(FreeTree([parent.dev EXCEPT !.file = f], inodes[f]))
        /\ inodes' = [inodes EXCEPT ![f] = FreshInode, ![d] = parent.inode]
        /\ shrunk' = TRUE /\ UNCHANGED failed
    BY DEF UnlinkAlone, parent, r
  <2> QED
    BY <1>5, <2>1
<1> HIDE DEF mid
<1>7. inodes[f] \in Inodes /\ inodes[f].triple = 0 /\ inodes \in [Files -> Inodes]
  BY FileInv DEF Ordered, Inv, Typed
<1>8. GivesBack(mid, new)
  BY <1>5, <1>7, TreeGives
<1>9. new \in Devices /\ new.overrun = FALSE /\ FreeAreZero(new)
  BY <1>5, <1>8, GivesZero DEF GivesBack
<1> HIDE DEF new
<1>10. /\ FreshInode \in Inodes /\ Sized(f, FreshInode)
       /\ \A W : Closed(W) => Ordered(Seen(new, f), FreshInode, W, FALSE)
  <2>1. Seen(new, f) \in Devices
    BY <1>9, SeenTyped
  <2>2. FreshInode \in Inodes /\ \A W : Closed(W) => Ordered(Seen(new, f), FreshInode, W, FALSE)
    BY <2>1, FreshOrdered, SpotsClosed
  <2>3. FreshInode.file_size = 0 /\ FreshInode.num_blocks = 0 /\ BLOCK_SIZE \in Nat
    BY ShapeAssumption DEF FreshInode
  <2>4. Sized(f, FreshInode)
    BY <2>3 DEF Sized
  <2> QED
    BY <2>2, <2>4
<1>11. /\ inodes' \in [Files -> Inodes] /\ inodes'[f] = FreshInode /\ inodes'[d] = parent.inode
       /\ \A g \in Files \ {f, d} : inodes'[g] = inodes[g]
  BY <1>1, <1>2, <1>4, <1>6, <1>7, <1>10
<1>12. /\ owner' = new.owner /\ words' = new.words /\ misfreed' = new.misfreed
       /\ overrun' = new.overrun
  BY <1>6 DEF Install
<1>13. Typed'
  BY <1>6, <1>9, <1>11, <1>12 DEF Inv, Typed, Devices, WordsType
<1>14. \A b \in Blocks : owner'[b] = Nobody => words'[b] = ZeroBlock
  BY <1>9, <1>12 DEF FreeAreZero
<1>15. Sized(d, parent.inode)
  <2>1. inode.num_blocks * BLOCK_SIZE <= inode.file_size
    BY <1>1, <1>2 DEF Sized
  <2>2. BLOCK_SIZE \in Nat /\ inode.file_size \in Nat
    BY <1>1, ShapeAssumption DEF Inodes
  <2>3. last * BLOCK_SIZE <= inode.num_blocks * BLOCK_SIZE
        /\ last * BLOCK_SIZE \in Nat /\ inode.num_blocks * BLOCK_SIZE \in Nat
    <3>1. last <= inode.num_blocks
      BY <1>2
    <3> HIDE DEF last, inode
    <3> QED
      BY <1>2, <2>2, <3>1, Products
  <2>4. last * BLOCK_SIZE <= inode.file_size
    <3> HIDE DEF last, inode
    <3> QED
      BY <2>1, <2>2, <2>3
  <2> QED
    BY <1>2, <1>3, <2>4 DEF Sized
<1>16. \A g \in Files : Sized(g, inodes'[g])
  BY <1>10, <1>11, <1>15 DEF Inv
<1>17. ASSUME new.misfreed = {}, NEW g \in Files \ {f, d}
       PROVE  /\ Ordered(Seen(new, g), inodes[g], Scope(g, TRUE, inodes[g]), FALSE)
              /\ FileKept(g)
  <2> DEFINE X == Scope(g, shrunk, inodes[g])
  <2>1. inodes[g] \in Inodes
    BY <1>7
  <2>2. Ordered(Seen(r.dev, g), inodes[g], X, exact)
    <3>1. Seen(Device(d), g) = Device(g)
      BY <1>1, DeviceTyped DEF Inv
    <3>2. Ordered(Device(g), inodes[g], X, exact)
      BY FileInv
    <3> QED
      BY <1>1, <3>1, <3>2
  <2>3. OthersKept(r.dev, parent.dev) /\ g \in Files /\ g # r.dev.file
    BY <1>1, <1>3, SparesOthers
  <2>4. /\ Ordered(Seen(parent.dev, g), inodes[g], X, exact)
        /\ \A k \in X : At(parent.dev.words, inodes[g], k) = At(r.dev.words, inodes[g], k)
    <3> HIDE DEF X, exact
    <3> QED
      BY <1>1, <1>3, <2>2, <2>3, OthersOrdered
  <2>5. Ordered(Seen(mid, g), inodes[g], X, exact)
    BY <1>5, <2>4
  <2>6. OthersKept(mid, new) /\ g # mid.file
    BY <1>5, <1>8, <1>17, GivesOthers
  <2>7. /\ Ordered(Seen(new, g), inodes[g], X, exact)
        /\ \A k \in X : At(new.words, inodes[g], k) = At(mid.words, inodes[g], k)
    <3> HIDE DEF X, exact
    <3> QED
      BY <1>5, <1>9, <2>5, <2>6, OthersOrdered
  <2>8. mid.words = parent.dev.words
    BY DEF mid, Seen
  <2>9. Live(inodes[g].num_blocks) \subseteq X
    BY <2>1, ScopeFacts
  <2>10. FileKept(g)
    BY <1>1, <1>11, <1>12, <2>4, <2>7, <2>8, <2>9 DEF FileKept
  <2>11. Ordered(Seen(new, g), inodes[g], Scope(g, TRUE, inodes[g]), FALSE)
    <3>1. /\ Closed(Scope(g, TRUE, inodes[g])) /\ Scope(g, TRUE, inodes[g]) \subseteq X
          /\ Live(inodes[g].num_blocks) \subseteq Scope(g, TRUE, inodes[g])
      <4>1. Live(inodes[g].num_blocks) \subseteq Spots
        BY DEF Live
      <4>2. Scope(g, TRUE, inodes[g]) \subseteq X
        BY <4>1 DEF Scope
      <4> QED
        BY <2>1, <4>2, ScopeFacts
    <3> HIDE DEF X, exact
    <3> QED
      BY <2>7, <3>1, OrderedLess
  <2> QED
    BY <2>10, <2>11
<1>18. ASSUME new.misfreed = {}
       PROVE  /\ Ordered(Seen(new, d), parent.inode, Live(last), FALSE)
              /\ BlockDropped(d, n)
  <2>1. Seen(mid, d) = parent.dev
    BY <1>3, <1>4, <1>5, SeenTyped
  <2> DEFINE no == FALSE
  <2>2. Ordered(Seen(mid, d), parent.inode, Live(last), no)
    BY <1>3, <2>1
  <2>3. OthersKept(mid, new) /\ d # mid.file /\ d \in Files
    BY <1>1, <1>2, <1>5, <1>8, <1>18, GivesOthers
  <2>4. /\ Ordered(Seen(new, d), parent.inode, Live(last), no)
        /\ \A k \in Live(last) : At(new.words, parent.inode, k) = At(mid.words, parent.inode, k)
    <3> HIDE DEF last, no
    <3> QED
      BY <1>5, <1>9, <2>2, <2>3, OthersOrdered
  <2>5. mid.words = parent.dev.words
    BY DEF mid, Seen
  <2>6. BlockDropped(d, n)
    BY <1>3, <1>11, <1>12, <2>4, <2>5 DEF BlockDropped
  <2> QED
    BY <2>4, <2>6
<1>19. FilesOrdered'
  <2> SUFFICES ASSUME misfreed' = {}, NEW g \in Files
               PROVE  Ordered(Device(g)', inodes'[g], Scope(g, shrunk', inodes'[g]), ~ failed' /\ ~ shrunk')
    BY DEF FilesOrdered
  <2>1. Device(g)' = Seen(new, g) /\ new.misfreed = {} /\ shrunk' = TRUE
        /\ (~ failed' /\ ~ shrunk') = FALSE
    BY <1>6, <1>12 DEF Device, Seen
  <2>2. CASE g = f
    <3>1. Closed(Scope(f, TRUE, FreshInode))
      BY <1>10, ScopeFacts
    <3> QED
      BY <1>10, <1>11, <2>1, <2>2, <3>1
  <2>3. CASE g = d
    <3>1. Scope(d, TRUE, parent.inode) = Live(last)
      BY <1>2, <1>3 DEF Scope
    <3> QED
      BY <1>11, <1>18, <2>1, <2>3, <3>1
  <2>4. CASE g # f /\ g # d
    <3>1. Ordered(Seen(new, g), inodes[g], Scope(g, TRUE, inodes[g]), FALSE)
      BY <1>17, <2>1, <2>4
    <3>2. inodes'[g] = inodes[g]
      BY <1>11, <2>4
    <3> QED
      BY <2>1, <3>1, <3>2
  <2> QED
    BY <2>2, <2>3, <2>4
<1>20. Inv'
  BY <1>6, <1>13, <1>14, <1>16, <1>19 DEF Inv
<1> QED
  BY <1>11, <1>12, <1>17, <1>18, <1>20
-----------------------------------------------------------------------------
(* Every step                                                              *)

\* A step that changes no variable.
LEMMA StutterInv ==
    ASSUME Inv, UNCHANGED vars
    PROVE  Inv'
<1>1. /\ owner' = owner /\ words' = words /\ inodes' = inodes /\ misfreed' = misfreed
      /\ overrun' = overrun /\ failed' = failed /\ shrunk' = shrunk
  BY DEF vars
<1>2. \A f : Device(f)' = Device(f)
  BY <1>1 DEF Device
<1>3. Typed'
  BY <1>1 DEF Inv, Typed
<1>4. FilesOrdered'
  BY <1>1, <1>2 DEF Inv, FilesOrdered
<1> QED
  BY <1>1, <1>3, <1>4 DEF Inv

(* What a step is: a change at the end of one file, or the deletion of a   *)
(* file with, perhaps, one block of its directory.                         *)
OneChanges(f) == FileLasts(f) /\ \A g \in Files \ {f} : FileKept(g)

GoesAlone(f, d) ==
    /\ inodes'[f] = FreshInode
    /\ \E n \in 1 .. inodes[d].num_blocks - 1 : BlockDropped(d, n)
    /\ \A g \in Files \ {f, d} : FileKept(g)

Changes ==
    \E f \in Files : OneChanges(f) \/ \E d \in Dirs \ {f} : GoesAlone(f, d)

\* A step of Next keeps the invariant, and changes the files as said above.
LEMMA StepInv ==
    ASSUME DirectCuts, NoTriple, Inv, Next
    PROVE  Inv' /\ misfreed = {} /\ (misfreed' = {} => Changes)
<1>1. misfreed = {}
  BY DEF Next
<1>2. PICK f \in Files :
          \/ \E from, to \in Offsets : Write(f, from, to)
          \/ \E cut \in Cuts : Truncate(f, cut)
          \/ AddDirBlock(f)
          \/ Unlink(f)
          \/ \E d \in Dirs \ {f} : \E n \in 1 .. inodes[d].num_blocks - 1 : UnlinkAlone(f, d, n)
  BY DEF Next
<1>3. CASE \E from, to \in Offsets : Write(f, from, to)
  <2>1. PICK from \in Offsets, to \in Offsets : Write(f, from, to)
    BY <1>3
  <2>2. Inv' /\ OneChanges(f)
    BY <1>1, <2>1, WriteStep DEF OneChanges
  <2> QED
    BY <1>1, <2>2 DEF Changes
<1>4. CASE \E cut \in Cuts : Truncate(f, cut)
  <2>1. PICK cut \in Cuts : Truncate(f, cut)
    BY <1>4
  <2>2. Inv' /\ OneChanges(f)
    BY <1>1, <2>1, TruncateStep DEF OneChanges
  <2> QED
    BY <1>1, <2>2 DEF Changes
<1>5. CASE AddDirBlock(f)
  <2>1. Inv' /\ OneChanges(f)
    BY <1>1, <1>5, AddDirStep DEF OneChanges
  <2> QED
    BY <1>1, <2>1 DEF Changes
<1>6. CASE Unlink(f)
  <2>1. Inv' /\ (misfreed' = {} => OneChanges(f))
    BY <1>1, <1>6, UnlinkStep DEF OneChanges
  <2> QED
    BY <1>1, <2>1 DEF Changes
<1>7. CASE \E d \in Dirs \ {f} : \E n \in 1 .. inodes[d].num_blocks - 1 : UnlinkAlone(f, d, n)
  <2> PICK d \in Dirs \ {f} : \E n \in 1 .. inodes[d].num_blocks - 1 : UnlinkAlone(f, d, n)
    BY <1>7
  <2>1. PICK n \in 1 .. inodes[d].num_blocks - 1 : UnlinkAlone(f, d, n)
    OBVIOUS
  <2>2. /\ Inv' /\ inodes'[f] = FreshInode
        /\ misfreed' = {} => /\ \A g \in Files \ {f, d} : FileKept(g)
                             /\ BlockDropped(d, n)
    BY <1>1, <2>1, UnlinkAloneStep
  <2>3. misfreed' = {} => GoesAlone(f, d)
    BY <2>2 DEF GoesAlone
  <2> QED
    BY <1>1, <2>2, <2>3 DEF Changes
<1> QED
  BY <1>2, <1>3, <1>4, <1>5, <1>6, <1>7

(* The invariant holds after every step, up to and including the one that  *)
(* gives a block back to an exhausted list, after which the model takes no *)
(* step; files being cut in their direct blocks only.                      *)
THEOREM InvHolds ==
    ASSUME DirectCuts, NoTriple
    PROVE  Spec => []Inv
<1>1. Init => Inv
  BY InitInv
<1>2. Inv /\ [Next]_vars => Inv'
  BY StepInv, StutterInv
<1> QED
  BY <1>1, <1>2, PTL DEF Spec

-----------------------------------------------------------------------------
(* What follows                                                            *)

\* emptied, which Inv leaves open, is true or false.
EmptiedType == emptied \in BOOLEAN

\* Every operation leaves it so.
LEMMA InstallTyped ==
    ASSUME NEW dev, EmptiedType, Install(dev)
    PROVE  EmptiedType'
  BY DEF EmptiedType, Install

\* So does every step.
LEMMA EmptiedHolds ==
    Spec => []EmptiedType
<1>1. Init => EmptiedType
  BY DEF Init, EmptiedType
<1>2. EmptiedType /\ [Next]_vars => EmptiedType'
  <2> SUFFICES ASSUME EmptiedType, [Next]_vars
               PROVE  EmptiedType'
    OBVIOUS
  <2>1. CASE UNCHANGED vars
    BY <2>1 DEF vars, EmptiedType
  <2>2. ASSUME NEW f \in Files, NEW from, NEW to, Write(f, from, to)
        PROVE  \E dev : Install(dev)
    BY <2>2, Zenon DEF Write
  <2>3. ASSUME NEW f \in Files, NEW cut, Truncate(f, cut)
        PROVE  \E dev : Install(dev)
    BY <2>3, Zenon DEF Truncate
  <2>4. ASSUME NEW f \in Files, AddDirBlock(f)
        PROVE  \E dev : Install(dev)
    BY <2>4, Zenon DEF AddDirBlock
  <2>5. ASSUME NEW f \in Files, Unlink(f)
        PROVE  \E dev : Install(dev)
    BY <2>5, Zenon DEF Unlink
  <2>6. ASSUME NEW f \in Files, NEW d, NEW n, UnlinkAlone(f, d, n)
        PROVE  \E dev : Install(dev)
    BY <2>6, Zenon DEF UnlinkAlone
  <2>7. Next => \E dev : Install(dev)
    BY <2>2, <2>3, <2>4, <2>5, <2>6 DEF Next
  <2> QED
    BY <2>1, <2>7, InstallTyped
<1> QED
  BY <1>1, <1>2, PTL DEF Spec

\* The invariant implies the types.
LEMMA TypesFollow ==
    Inv /\ EmptiedType => TypeOK
<1> SUFFICES ASSUME Inv, EmptiedType
             PROVE  TypeOK
  OBVIOUS
<1>1. Typed
  BY DEF Inv
<1>2. ASSUME NEW f \in Files
      PROVE  /\ inodes[f].direct \in [0 .. D - 1 -> Words]
             /\ {inodes[f].single, inodes[f].double, inodes[f].triple} \subseteq Words
             /\ inodes[f].num_blocks \in Nat /\ inodes[f].file_size \in Nat
  <2>1. inodes[f] \in Inodes
    BY <1>1 DEF Typed
  <2> QED
    BY <2>1 DEF Inodes
<1> QED
  BY <1>1, <1>2 DEF Typed, TypeOK, WordsType, Owners, EmptiedType

(* The variables keep their types, files being cut in their direct blocks  *)
(* only: a cut further on may read an index block past its end.            *)
THEOREM TypesHold ==
    ASSUME DirectCuts, NoTriple
    PROVE  Spec => []TypeOK
  BY InvHolds, EmptiedHolds, TypesFollow, PTL

\* The blocks of a file by its spots.
LEMMA TreeIs ==
    ASSUME Inv, misfreed = {}, NEW f \in Files
    PROVE  /\ Places(inodes[f]) = {PlaceOf(k) : k \in Live(inodes[f].num_blocks)}
           /\ Live(inodes[f].num_blocks) \subseteq Scope(f, shrunk, inodes[f])
           /\ Live(inodes[f].num_blocks) \subseteq Spots
           /\ \A k \in Live(inodes[f].num_blocks) :
                 /\ BlockAt(f, PlaceOf(k)) = At(words, inodes[f], k)
                 /\ At(words, inodes[f], k) \in Blocks
                 /\ owner[At(words, inodes[f], k)] = f
<1>1. /\ Ordered(Device(f), inodes[f], Scope(f, shrunk, inodes[f]), ~ failed /\ ~ shrunk)
      /\ inodes[f] \in Inodes /\ Device(f).words = words /\ Device(f).owner = owner
      /\ Device(f).file = f /\ words \in WordsType
  BY FileInv DEF Inv, Typed
<1>2. inodes[f].num_blocks <= Capacity
      /\ Live(inodes[f].num_blocks) \subseteq Scope(f, shrunk, inodes[f])
  BY <1>1 DEF Ordered
<1>3. Live(inodes[f].num_blocks) \subseteq Spots
  BY DEF Live
<1>4. ASSUME NEW k \in Live(inodes[f].num_blocks)
      PROVE  /\ BlockAt(f, PlaceOf(k)) = At(words, inodes[f], k)
             /\ At(words, inodes[f], k) \in Blocks
             /\ owner[At(words, inodes[f], k)] = f
  <2>1. BlockAt(f, PlaceOf(k)) = At(words, inodes[f], k)
    BY <1>3, PlaceAt DEF BlockAt
  <2>2. At(words, inodes[f], k) \in Words
    BY <1>1, <1>3, AtTyped
  <2>3. At(words, inodes[f], k) # 0
    BY <1>1 DEF Ordered
  <2>4. owner[At(words, inodes[f], k)] = f
    BY <1>1, <1>2, <2>3 DEF Ordered, OwnedAt
  <2> QED
    BY <2>1, <2>2, <2>3, <2>4 DEF Words
<1> QED
  BY <1>1, <1>2, <1>3, <1>4, PlacesAre

\* The invariant implies NoBlockShared.
LEMMA SharingFollows ==
    Inv => NoBlockShared
<1> SUFFICES ASSUME Inv, misfreed = {}, NEW f \in Files, NEW p \in Places(inodes[f])
             PROVE  /\ BlockAt(f, p) \in Blocks /\ owner[BlockAt(f, p)] = f
                    /\ \A g \in Files : \A q \in Places(inodes[g]) :
                          BlockAt(f, p) = BlockAt(g, q) => f = g /\ p = q
  BY DEF NoBlockShared
<1>1. PICK k \in Live(inodes[f].num_blocks) : p = PlaceOf(k)
  BY TreeIs
<1>2. /\ BlockAt(f, p) = At(words, inodes[f], k) /\ BlockAt(f, p) \in Blocks
      /\ owner[BlockAt(f, p)] = f
  BY <1>1, TreeIs
<1>3. ASSUME NEW g \in Files, NEW q \in Places(inodes[g]), BlockAt(f, p) = BlockAt(g, q)
      PROVE  f = g /\ p = q
  <2>1. PICK j \in Live(inodes[g].num_blocks) : q = PlaceOf(j)
    BY TreeIs
  <2>2. BlockAt(g, q) = At(words, inodes[g], j) /\ owner[BlockAt(g, q)] = g
    BY <2>1, TreeIs
  <2>3. f = g
    BY <1>2, <1>3, <2>2
  <2>4. At(words, inodes[f], k) = At(words, inodes[f], j) /\ At(words, inodes[f], k) # 0
    BY <1>2, <1>3, <2>2, <2>3, ShapeFacts
  <2>5. k \in Scope(f, shrunk, inodes[f]) /\ j \in Scope(f, shrunk, inodes[f])
    BY <2>1, <2>3, TreeIs
  <2>6. Apart(words, inodes[f], Scope(f, shrunk, inodes[f]), inodes[f], Scope(f, shrunk, inodes[f]))
    BY FileInv DEF Ordered
  <2>7. k = j
    BY <2>4, <2>5, <2>6 DEF Apart
  <2> QED
    BY <1>1, <2>1, <2>3, <2>7
<1> QED
  BY <1>2, <1>3

(* Until a block is given back that the file did not hold, or when no block*)
(* is free, no block has two uses: each block of each file's tree was taken*)
(* by that file and is at one place of it, through all that file_layer.c   *)
(* adds, cuts in the direct blocks and gives back.                         *)
THEOREM NoBlockSharedHolds ==
    ASSUME DirectCuts, NoTriple
    PROVE  Spec => []NoBlockShared
  BY InvHolds, SharingFollows, PTL

\* The invariant implies NothingLeaked.
LEMMA NothingLeakedFollows ==
    Inv => NothingLeaked
<1> SUFFICES ASSUME Inv, ~ failed, ~ shrunk, misfreed = {}
             PROVE  {b \in Blocks : owner[b] # Nobody} = UNION {Tree(f) : f \in Files}
  BY DEF NothingLeaked
<1>1. ASSUME NEW b \in Blocks, owner[b] # Nobody
      PROVE  b \in UNION {Tree(f) : f \in Files}
  <2> DEFINE f == owner[b]
  <2>1. f \in Files
    BY <1>1 DEF Inv, Typed, Owners
  <2>2. Accounted(Device(f), inodes[f], Live(inodes[f].num_blocks), {})
    BY <2>1, FileInv DEF Ordered
  <2>3. Device(f).owner = owner /\ Device(f).words = words /\ Device(f).file = f
    BY <2>1, FileInv
  <2>4. PICK k \in Live(inodes[f].num_blocks) : At(words, inodes[f], k) = b
    BY <2>2, <2>3 DEF Accounted
  <2>5. PlaceOf(k) \in Places(inodes[f]) /\ BlockAt(f, PlaceOf(k)) = b
    BY <2>1, <2>4, TreeIs
  <2> QED
    BY <2>1, <2>5 DEF Tree
<1>2. ASSUME NEW f \in Files, NEW b \in Tree(f)
      PROVE  b \in Blocks /\ owner[b] # Nobody
  <2>1. PICK p \in Places(inodes[f]) : b = BlockAt(f, p)
    BY DEF Tree
  <2>2. PICK k \in Live(inodes[f].num_blocks) : p = PlaceOf(k)
    BY TreeIs
  <2> QED
    BY <2>1, <2>2, TreeIs, ShapeFacts
<1> QED
  BY <1>1, <1>2

(* As long as no write ran out of blocks, no directory lost one, and files *)
(* are cut in their direct blocks only, each block that is not free is in  *)
(* the tree of some file.                                                  *)
THEOREM NothingLeakedHolds ==
    ASSUME DirectCuts, NoTriple
    PROVE  Spec => []NothingLeaked
  BY InvHolds, NothingLeakedFollows, PTL

\* The invariant implies UnlinkFreesTheFile.
LEMMA UnlinkFollows ==
    Inv => UnlinkFreesTheFile
<1> SUFFICES ASSUME Inv, ~ shrunk, NEW f \in Files
             PROVE  /\ Tree(f) \subseteq FreeOf(FreeTree(Device(f), inodes[f]))
                    /\ FreeTree(Device(f), inodes[f]).misfreed = {}
  BY DEF UnlinkFreesTheFile
<1> DEFINE new == FreeTree(Device(f), inodes[f])
           exact == ~ failed /\ ~ shrunk
<1>1. misfreed = {} /\ Scope(f, shrunk, inodes[f]) = Spots
  BY DEF Inv, Scope
<1>2. /\ Device(f) \in Devices /\ FreeAreZero(Device(f)) /\ Device(f).misfreed = {}
      /\ Device(f).words = words /\ Ordered(Device(f), inodes[f], Spots, exact)
  BY <1>1, FileInv
<1> HIDE DEF exact
<1>3. Spares(Device(f), new) /\ Held(words, inodes[f], Live(inodes[f].num_blocks)) \subseteq FreeOf(new)
  BY <1>2, TreeOrdered
<1>4. new.misfreed = {}
  BY <1>2, <1>3 DEF Spares
<1>5. Tree(f) \subseteq Held(words, inodes[f], Live(inodes[f].num_blocks))
  <2> SUFFICES ASSUME NEW p \in Places(inodes[f])
               PROVE  BlockAt(f, p) \in Held(words, inodes[f], Live(inodes[f].num_blocks))
    BY DEF Tree
  <2>1. PICK k \in Live(inodes[f].num_blocks) : p = PlaceOf(k)
    BY <1>1, TreeIs
  <2> QED
    BY <1>1, <2>1, TreeIs DEF Held
<1> QED
  BY <1>3, <1>4, <1>5

(* If files are cut in their direct blocks only, and until a directory has *)
(* lost a block, unlinking a file now would give back every block of its   *)
(* tree and none of another file: free_dblocks_from_inode, which follows   *)
(* the pointers, agrees with num_blocks, whatever writes have failed.      *)
(* (After a cut in the single indirect block it does not: OnlyOwnBlocksFreed*)
(* is violated.)                                                           *)
THEOREM UnlinkFreesTheFileHolds ==
    ASSUME DirectCuts, NoTriple
    PROVE  Spec => []UnlinkFreesTheFile
  BY InvHolds, UnlinkFollows, PTL
-----------------------------------------------------------------------------
(* The sequences of FileMap                                                *)

\* The sequence of each file.
Mapped ==
    [f \in Files |-> [n \in 1 .. inodes[f].num_blocks |-> Lookup(words, inodes[f], n - 1)]]

\* What the invariant says of the sequences.
MappedFine ==
    /\ Mapped = [f \in Files |-> Mapped[f]]
    /\ \A f \in Files :
         /\ inodes[f] \in Inodes /\ inodes[f].num_blocks <= Capacity
         /\ Mapped[f] = Numbers(words, inodes[f])
         /\ Mapped[f] \in Seq(Blocks) /\ Len(Mapped[f]) = inodes[f].num_blocks
         /\ DOMAIN Mapped[f] = 1 .. Len(Mapped[f]) /\ Len(Mapped[f]) \in Nat
         /\ \A i \in 1 .. Len(Mapped[f]) : Mapped[f][i] \in Blocks /\ owner[Mapped[f][i]] = f
         /\ \A i, j \in 1 .. Len(Mapped[f]) : Mapped[f][i] = Mapped[f][j] => i = j

Sane == Inv /\ misfreed = {}

\* As long as no wrong block was freed, the sequences are as said above.
LEMMA MappedIs ==
    Sane => MappedFine
<1> SUFFICES ASSUME Inv, misfreed = {}
             PROVE  MappedFine
  BY DEF Sane
<1>1. Mapped = [f \in Files |-> Mapped[f]]
  BY DEF Mapped
<1>2. ASSUME NEW f \in Files
      PROVE  /\ inodes[f] \in Inodes /\ inodes[f].num_blocks <= Capacity
             /\ Mapped[f] = Numbers(words, inodes[f])
             /\ Mapped[f] \in Seq(Blocks) /\ Len(Mapped[f]) = inodes[f].num_blocks
             /\ DOMAIN Mapped[f] = 1 .. Len(Mapped[f]) /\ Len(Mapped[f]) \in Nat
             /\ \A i \in 1 .. Len(Mapped[f]) : Mapped[f][i] \in Blocks /\ owner[Mapped[f][i]] = f
             /\ \A i, j \in 1 .. Len(Mapped[f]) : Mapped[f][i] = Mapped[f][j] => i = j
  <2> DEFINE V == Scope(f, shrunk, inodes[f])
             exact == ~ failed /\ ~ shrunk
             s == Mapped[f]
  <2>1. /\ Device(f) \in Devices /\ Device(f).words = words /\ Device(f).owner = owner
        /\ Device(f).file = f /\ inodes[f] \in Inodes /\ Ordered(Device(f), inodes[f], V, exact)
    BY FileInv
  <2>2. s = Numbers(words, inodes[f])
    BY DEF Mapped, Numbers
  <2>3. inodes[f].num_blocks <= Capacity
    BY <2>1 DEF Ordered
  <2> HIDE DEF V, exact, s
  <2>4. s = Numbers(Device(f).words, inodes[f])
    BY <2>1, <2>2
  <2>5. /\ s \in Seq(Blocks) /\ Len(s) = inodes[f].num_blocks /\ DOMAIN s = 1 .. Len(s)
        /\ Len(s) \in Nat
        /\ \A i \in 1 .. Len(s) : s[i] \in Blocks /\ Device(f).owner[s[i]] = Device(f).file
        /\ \A i, j \in 1 .. Len(s) : s[i] = s[j] => i = j
    BY <2>1, <2>4, NumbersOrdered
  <2>6. \A i \in 1 .. Len(s) : s[i] \in Blocks /\ owner[s[i]] = f
    BY <2>1, <2>5
  <2> QED
    BY <2>1, <2>2, <2>3, <2>5, <2>6 DEF s
<1> QED
  BY <1>1, <1>2 DEF MappedFine

\* Two sequences of the same inode.
LEMMA NumbersSame ==
    ASSUME NEW inode \in Inodes, inode.num_blocks <= Capacity, NEW wds, NEW wds2,
           \A k \in Live(inode.num_blocks) : At(wds2, inode, k) = At(wds, inode, k)
    PROVE  Numbers(wds2, inode) = Numbers(wds, inode)
<1>1. \A i \in 1 .. inode.num_blocks : Numbers(wds2, inode)[i] = Numbers(wds, inode)[i]
  BY NumbersAre
<1> QED
  BY <1>1 DEF Numbers
\* A sequence that agrees with another up to its own end.
LEMMA PrefixIs ==
    ASSUME NEW S, NEW s \in Seq(S), NEW t \in Seq(S), NEW m \in 0 .. Len(s), Len(t) = m,
           \A i \in 1 .. m : t[i] = s[i]
    PROVE  t = SubSeq(s, 1, m)
<1>1. Len(s) \in Nat /\ m \in Nat
  OBVIOUS
<1>2. \A i \in 1 .. m : s[i] \in S
  <2>1. \A i \in 1 .. Len(s) : s[i] \in S
    OBVIOUS
  <2> QED
    BY <1>1, <2>1
<1> DEFINE u == SubSeq(s, 1, m)
<1>3. u \in Seq(S) /\ Len(u) = (IF 1 <= m THEN m - 1 + 1 ELSE 0)
      /\ \A i \in 1 .. m - 1 + 1 : u[i] = s[1 + i - 1]
  BY <1>1, <1>2, SubSeqProperties
<1> HIDE DEF u
<1>4. Len(u) = m
  BY <1>1, <1>3
<1>5. \A i \in 1 .. m : u[i] = s[i]
  BY <1>1, <1>3
<1>6. \A i \in 1 .. Len(t) : t[i] = u[i]
  BY <1>5
<1>7. t = u
  BY <1>3, <1>4, <1>6, SeqEqual
<1> QED
  BY <1>7 DEF u

\* A file the step did not touch.
LEMMA KeptMapped ==
    ASSUME Inv, Inv', misfreed = {}, misfreed' = {}, NEW g \in Files, FileKept(g)
    PROVE  Mapped'[g] = Mapped[g]
<1>1. /\ inodes[g] \in Inodes /\ inodes[g].num_blocks <= Capacity
      /\ Mapped[g] = Numbers(words, inodes[g])
  BY MappedIs DEF MappedFine, Sane
<1>2. Mapped'[g] = Numbers(words', inodes'[g])
  BY DEF Mapped, Numbers
<1>3. inodes'[g] = inodes[g]
      /\ \A k \in Live(inodes[g].num_blocks) : At(words', inodes[g], k) = At(words, inodes[g], k)
  BY DEF FileKept
<1> QED
  BY <1>1, <1>2, <1>3, NumbersSame

\* The same after a step.
LEMMA MappedThen ==
    Sane' => MappedFine'
  BY MappedIs, PTL

\* The steps of FileMap in terms of Mapped.
Grown2(f) ==
    /\ Len(Mapped'[f]) > Len(Mapped[f])
    /\ SubSeq(Mapped'[f], 1, Len(Mapped[f])) = Mapped[f]
    /\ Map!Distinct(Mapped'[f])
    /\ \A i \in Len(Mapped[f]) + 1 .. Len(Mapped'[f]) :
          Mapped'[f][i] \in Blocks \ UNION {{Mapped[g][j] : j \in DOMAIN Mapped[g]} : g \in Files}
    /\ Mapped' = [Mapped EXCEPT ![f] = Mapped'[f]]

Cut2(f) == \E n \in 0 .. Len(Mapped[f]) : Mapped' = [Mapped EXCEPT ![f] = SubSeq(@, 1, n)]

Delete2(f, d) ==
    \E n \in 1 .. Len(Mapped[d]) :
       Mapped' = [Mapped EXCEPT ![f] = <<>>,
                     ![d] = SubSeq([Mapped[d] EXCEPT ![n] = Mapped[d][Len(Mapped[d])]],
                                   1, Len(Mapped[d]) - 1)]

\* They are the steps of FileMap.
LEMMA MapSteps ==
    ASSUME NEW f \in Files
    PROVE  /\ Grown2(f) => Map!Grow(f)
           /\ Cut2(f) => Map!Cut(f)
           /\ \A d : Delete2(f, d) => Map!Delete(f, d)
<1>1. Grown2(f) => Map!Grow(f)
  BY DEF Grown2, Mapped, Map!Grow, Map!Used
<1>2. Cut2(f) => Map!Cut(f)
  BY DEF Cut2, Mapped, Map!Cut
<1>3. \A d : Delete2(f, d) => Map!Delete(f, d)
  BY DEF Delete2, Mapped, Map!Delete
<1> QED
  BY <1>1, <1>2, <1>3

\* A step that changes one file is Grow or Cut.
LEMMA OneMaps ==
    ASSUME Sane, Sane', NEW f \in Files, OneChanges(f)
    PROVE  Map!Grow(f) \/ Map!Cut(f)
<1> DEFINE s == Mapped[f]
           t == Mapped'[f]
           nb == inodes[f].num_blocks
           nb2 == inodes'[f].num_blocks
<1>1. MappedFine /\ MappedFine' /\ Inv /\ Inv' /\ misfreed = {} /\ misfreed' = {}
  BY MappedIs, MappedThen DEF Sane
<1>2. /\ inodes[f] \in Inodes /\ nb <= Capacity /\ s = Numbers(words, inodes[f])
      /\ s \in Seq(Blocks) /\ Len(s) = nb /\ nb \in Nat
      /\ inodes'[f] \in Inodes /\ nb2 <= Capacity /\ t = Numbers(words', inodes'[f])
      /\ t \in Seq(Blocks) /\ Len(t) = nb2 /\ DOMAIN t = 1 .. nb2 /\ nb2 \in Nat
  BY <1>1 DEF MappedFine
<1>3. \A i \in 1 .. nb2 : t[i] \in Blocks /\ owner'[t[i]] = f
  BY <1>1 DEF MappedFine
<1>4. \A i, j \in 1 .. nb2 : t[i] = t[j] => i = j
  BY <1>1 DEF MappedFine
<1>5. \A g \in Files \ {f} : Mapped'[g] = Mapped[g]
  BY <1>1, KeptMapped DEF OneChanges
<1>6. Mapped' = [Mapped EXCEPT ![f] = t]
  <2>1. Mapped' = [g \in Files |-> Mapped'[g]] /\ Mapped = [g \in Files |-> Mapped[g]]
    BY <1>1 DEF MappedFine
  <2> QED
    BY <1>5, <2>1
<1>7. ASSUME NEW i \in 1 .. nb, i <= nb2
      PROVE  t[i] = s[i]
  <2>1. i \in 1 .. nb2
    BY <1>2, <1>7
  <2>2. Leaf(i - 1) \in Live(nb) /\ s[i] = At(words, inodes[f], Leaf(i - 1))
    BY <1>2, NumbersAre
  <2>3. Leaf(i - 1) \in Live(nb2) /\ t[i] = At(words', inodes'[f], Leaf(i - 1))
    BY <1>2, <2>1, NumbersAre
  <2> QED
    BY <2>2, <2>3 DEF OneChanges, FileLasts
<1> HIDE DEF s, t, nb, nb2
<1>8. CASE nb2 > nb
  <2>1. SubSeq(t, 1, nb) = s
    <3>1. nb \in 0 .. Len(t) /\ Len(s) = nb
      BY <1>2, <1>8
    <3>2. \A i \in 1 .. nb : s[i] = t[i]
      BY <1>2, <1>7, <1>8
    <3> QED
      BY <1>2, <3>1, <3>2, PrefixIs
  <2>2. Map!Distinct(t)
    BY <1>2, <1>4 DEF Map!Distinct
  <2>3. ASSUME NEW i \in nb + 1 .. nb2, NEW g \in Files, NEW j \in DOMAIN Mapped[g],
               t[i] = Mapped[g][j]
        PROVE  FALSE
    <3>1. i \in 1 .. nb2 /\ i > nb
      BY <1>2
    <3>2. CASE g = f
      <4>1. j \in 1 .. nb /\ Mapped[g][j] = s[j]
        BY <1>1, <2>3, <3>2 DEF MappedFine, s, nb
      <4>2. t[j] = s[j] /\ j \in 1 .. nb2
        BY <1>2, <1>7, <1>8, <4>1
      <4>3. i = j
        BY <1>4, <2>3, <3>1, <4>1, <4>2
      <4> QED
        BY <1>2, <3>1, <4>1, <4>3
    <3>3. CASE g # f
      <4>1. Mapped'[g] = Mapped[g]
        BY <1>5, <3>3
      <4>2. j \in 1 .. Len(Mapped[g])
        BY <1>1 DEF MappedFine
      <4>3. owner'[Mapped'[g][j]] = g
        BY <1>1, <4>1, <4>2 DEF MappedFine
      <4>4. owner'[t[i]] = g
        BY <2>3, <4>1, <4>3
      <4> QED
        BY <1>3, <3>1, <3>3, <4>4
    <3> QED
      BY <3>2, <3>3
  <2>4. \A i \in nb + 1 .. nb2 :
          t[i] \in Blocks \ UNION {{Mapped[g][j] : j \in DOMAIN Mapped[g]} : g \in Files}
    <3>1. \A i \in nb + 1 .. nb2 : t[i] \in Blocks
      BY <1>2, <1>3
    <3> QED
      BY <2>3, <3>1
  <2>5. Grown2(f)
    BY <1>2, <1>6, <1>8, <2>1, <2>2, <2>4 DEF Grown2, s, t
  <2> QED
    BY <2>5, MapSteps
<1>9. CASE nb2 <= nb
  <2>1. nb2 \in 0 .. Len(s)
    BY <1>2, <1>9
  <2>2. \A i \in 1 .. nb2 : t[i] = s[i]
    BY <1>2, <1>7, <1>9
  <2>3. t = SubSeq(s, 1, nb2)
    BY <1>2, <2>1, <2>2, PrefixIs
  <2>4. Mapped' = [Mapped EXCEPT ![f] = SubSeq(@, 1, nb2)]
    BY <1>6, <2>3 DEF s
  <2>5. Cut2(f)
    BY <2>1, <2>4 DEF Cut2, s
  <2> QED
    BY <2>5, MapSteps
<1> QED
  BY <1>2, <1>8, <1>9

\* A step that deletes a file and a block of its directory is Delete.
LEMMA AloneMaps ==
    ASSUME Sane, Sane', NEW f \in Files, NEW d \in Dirs \ {f}, GoesAlone(f, d)
    PROVE  Map!Delete(f, d)
<1> DEFINE s == Mapped[d]
           t == Mapped'[d]
           nb == inodes[d].num_blocks
           last == nb - 1
<1>1. MappedFine /\ MappedFine' /\ Inv /\ Inv' /\ misfreed = {} /\ misfreed' = {} /\ d \in Files
  BY MappedIs, MappedThen DEF Sane, Files
<1>2. PICK n \in 1 .. last : BlockDropped(d, n)
  BY DEF GoesAlone
<1>3. /\ inodes[d] \in Inodes /\ nb <= Capacity /\ s = Numbers(words, inodes[d])
      /\ s \in Seq(Blocks) /\ Len(s) = nb /\ nb \in Nat
      /\ inodes'[d] \in Inodes /\ t = Numbers(words', inodes'[d])
      /\ t \in Seq(Blocks) /\ Len(t) = inodes'[d].num_blocks
      /\ inodes'[d].num_blocks <= Capacity
  BY <1>1 DEF MappedFine
<1>4. /\ inodes'[d].num_blocks = last
      /\ \A k \in Live(last) : At(words', inodes'[d], k) =
            IF k = Leaf(n) THEN At(words, inodes[d], Leaf(last)) ELSE At(words, inodes[d], k)
  BY <1>2 DEF BlockDropped
<1>5. /\ n + 1 \in 1 .. nb /\ n \in Nat /\ last \in Nat /\ nb = last + 1 /\ nb \in 1 .. nb
      /\ n <= last /\ n < Capacity
  <2>1. Capacity \in Nat
    BY ShapeFacts DEF Capacity
  <2> HIDE DEF nb
  <2> QED
    BY <1>2, <1>3, <2>1
<1>6. Mapped'[f] = <<>>
  <2>1. Mapped'[f] \in Seq(Blocks) /\ Len(Mapped'[f]) = inodes'[f].num_blocks
    BY <1>1 DEF MappedFine
  <2>2. inodes'[f].num_blocks = 0
    BY DEF GoesAlone, FreshInode
  <2> QED
    BY <2>1, <2>2, EmptySeq
<1>7. \A g \in Files \ {f, d} : Mapped'[g] = Mapped[g]
  BY <1>1, KeptMapped DEF GoesAlone
<1> HIDE DEF s, t
<1>8. ASSUME NEW i \in 1 .. last
      PROVE  t[i] = IF i = n + 1 THEN s[nb] ELSE s[i]
  <2>1. i \in 1 .. nb /\ i \in Nat
    BY <1>5
  <2>2. /\ i - 1 \in Nat /\ i - 1 < Capacity /\ s[i] = At(words, inodes[d], Leaf(i - 1))
    BY <1>3, <2>1, NumbersAre
  <2>3. s[nb] = At(words, inodes[d], Leaf(nb - 1))
    BY <1>3, <1>5, NumbersAre
  <2>4. Leaf(i - 1) \in Live(last) /\ t[i] = At(words', inodes'[d], Leaf(i - 1))
    BY <1>3, <1>4, NumbersAre
  <2>5. Leaf(i - 1) = Leaf(n) <=> i = n + 1
    <3>1. Leaf(i - 1) = Leaf(n) => i - 1 = n
      BY <1>5, <2>2, LeavesDiffer
    <3> QED
      BY <1>5, <2>1, <3>1
  <2> QED
    BY <1>4, <2>2, <2>3, <2>4, <2>5
<1> DEFINE moved == [s EXCEPT ![n + 1] = s[nb]]
<1>9. /\ moved \in Seq(Blocks) /\ Len(moved) = nb
      /\ \A i \in 1 .. nb : moved[i] = IF i = n + 1 THEN s[nb] ELSE s[i]
  <2>1. s[nb] \in Blocks
    BY <1>3, <1>5, ElementOfSeq
  <2> HIDE DEF nb
  <2> QED
    BY <1>3, <1>5, <2>1, ExceptSeq
<1>10. t = SubSeq(moved, 1, last)
  <2>1. last \in 0 .. Len(moved) /\ Len(t) = last
    BY <1>3, <1>4, <1>5, <1>9
  <2>2. \A i \in 1 .. last : t[i] = moved[i]
    BY <1>5, <1>8, <1>9
  <2> HIDE DEF moved, last
  <2> QED
    BY <1>3, <1>9, <2>1, <2>2, PrefixIs
<1>11. Mapped' = [Mapped EXCEPT ![f] = <<>>, ![d] = t]
  <2>1. Mapped' = [g \in Files |-> Mapped'[g]] /\ Mapped = [g \in Files |-> Mapped[g]]
    BY <1>1 DEF MappedFine
  <2> QED
    BY <1>6, <1>7, <2>1 DEF t
<1>12. Delete2(f, d)
  <2>1. Len(Mapped[d]) = nb
    BY <1>3 DEF s
  <2>2. Mapped' = [Mapped EXCEPT ![f] = <<>>,
                     ![d] = SubSeq([Mapped[d] EXCEPT ![n + 1] = Mapped[d][nb]], 1, nb - 1)]
    BY <1>10, <1>11 DEF s
  <2> HIDE DEF nb
  <2> QED
    BY <1>5, <2>1, <2>2 DEF Delete2
<1> QED
  BY <1>12, MapSteps

\* Every step is a step of FileMap, or none.
LEMMA MapStep ==
    ASSUME DirectCuts, NoTriple, Inv, [Next]_vars
    PROVE  [Map!Next]_(Map!vars)
<1>1. CASE UNCHANGED vars
  BY <1>1 DEF vars, Map!vars
<1>2. CASE Next
  <2>1. Inv' /\ misfreed = {} /\ (misfreed' = {} => Changes)
    BY <1>2, StepInv
  <2>2. overrun = FALSE /\ overrun' = FALSE /\ ~ emptied
    BY <1>2, <2>1 DEF Inv, Typed, Next
  <2>3. CASE misfreed' # {} \/ emptied'
    BY <2>3 DEF Map!Next, Map!Broken
  <2>4. CASE misfreed' = {} /\ ~ emptied'
    <3>1. Sane /\ Sane' /\ Changes
      BY <2>1, <2>4 DEF Sane
    <3>2. \E f \in Files : Map!Grow(f) \/ Map!Cut(f) \/ \E d \in Dirs \ {f} : Map!Delete(f, d)
      BY <3>1, OneMaps, AloneMaps DEF Changes
    <3>3. (misfreed' = {} /\ ~ emptied' /\ ~ overrun') = (misfreed = {} /\ ~ emptied /\ ~ overrun)
      BY <2>1, <2>2, <2>4
    <3> QED
      BY <3>2, <3>3 DEF Map!Next
  <2> QED
    BY <2>3, <2>4
<1> QED
  BY <1>1, <1>2

(* FileBlocks implements FileMap: to the callers of fblock_num_to_dblock_num*)
(* each file is a sequence of blocks that grows and is cut at its end and  *)
(* shares none, and a deletion takes at most one block of the directory;   *)
(* files being cut in their direct blocks only, and until a block is given *)
(* back when none is free, or that the file did not hold.                  *)
THEOREM FileMapImplemented ==
    ASSUME DirectCuts, NoTriple
    PROVE  Spec => ImplementsFileMap
<1>1. Init => Map!Init
  <2> SUFFICES ASSUME Init
               PROVE  Map!Init
    OBVIOUS
  <2>1. \A f \in Files : inodes[f].num_blocks = 0
    BY DEF Init, FreshInode
  <2>2. \A f \in Files : [n \in 1 .. inodes[f].num_blocks |-> Lookup(words, inodes[f], n - 1)] = <<>>
    BY <2>1
  <2> QED
    BY <2>2 DEF Init, Map!Init
<1> QED
  BY <1>1, MapStep, InvHolds, PTL DEF Spec, ImplementsFileMap, Map!Spec

-----------------------------------------------------------------------------
(* The number of blocks follows the size, wherever files are cut and       *)
(* however deep they are: the blocks themselves play no part in it.        *)

InodeFields == {"direct", "single", "double", "triple", "num_blocks", "file_size"}

\* r holds an inode in memory that says n blocks.
Carries(r, n) ==
    /\ DOMAIN r = {"dev", "inode", "ok"}
    /\ DOMAIN r.inode = InodeFields /\ r.inode.num_blocks = n

\* The way down with three slots.
LEMMA DescendThrice ==
    ASSUME NEW r
    PROVE  Each(Descend, r, [k \in 1 .. 3 |-> k]) = Descend(Descend(Descend(r, 1), 2), 3)
<1> DEFINE s == [k \in 1 .. 3 |-> k]
           Is(f) == f = [k \in 0 .. Len(s) |-> IF k = 0 THEN r ELSE Descend(f[k - 1], s[k])]
           done == CHOOSE f : Is(f)
<1>1. Each(Descend, r, s) = done[Len(s)]
  BY DEF Each
<1>2. Len(s) = 3 /\ s[1] = 1 /\ s[2] = 2 /\ s[3] = 3
  <2>1. s \in [1 .. 3 -> Nat]
    OBVIOUS
  <2> HIDE DEF s
  <2>2. Len(s) = 3
    BY <2>1, FcnIsSeq
  <2> QED
    BY <2>2 DEF s
<1>3. \E f : Is(f)
  <2> DEFINE g == [k \in 0 .. 3 |-> IF k = 0 THEN r ELSE IF k = 1 THEN Descend(r, 1)
                                    ELSE IF k = 2 THEN Descend(Descend(r, 1), 2)
                                    ELSE Descend(Descend(Descend(r, 1), 2), 3)]
  <2>1. \A k \in 0 .. 3 : g[k] = IF k = 0 THEN r ELSE Descend(g[k - 1], s[k])
    <3>1. g[0] = r /\ g[1] = Descend(r, 1) /\ g[2] = Descend(Descend(r, 1), 2)
          /\ g[3] = Descend(Descend(Descend(r, 1), 2), 3)
      OBVIOUS
    <3>2. \A k \in 0 .. 3 : k = 0 \/ (k = 1 /\ k - 1 = 0) \/ (k = 2 /\ k - 1 = 1) \/ (k = 3 /\ k - 1 = 2)
      OBVIOUS
    <3> HIDE DEF g, s
    <3> QED
      BY <1>2, <3>1, <3>2
  <2>2. Is(g)
    <3> HIDE DEF s
    <3> QED
      BY <1>2, <2>1
  <2> QED
    BY <2>2
<1>4. Is(done)
  <2> HIDE DEF Is
  <2> QED
    BY <1>3
<1>5. \A k \in 0 .. 3 : done[k] = IF k = 0 THEN r ELSE Descend(done[k - 1], s[k])
  <2> HIDE DEF done, s
  <2> QED
    BY <1>2, <1>4
<1>6. done[3] = Descend(Descend(Descend(r, 1), 2), 3)
  <2>1. 0 \in 0 .. 3 /\ 1 \in 0 .. 3 /\ 2 \in 0 .. 3 /\ 3 \in 0 .. 3 /\ 1 - 1 = 0 /\ 2 - 1 = 1 /\ 3 - 1 = 2
    OBVIOUS
  <2> HIDE DEF done, s, Is
  <2>2. done[0] = r
    BY <1>5, <2>1
  <2>3. done[1] = Descend(done[0], s[1])
    BY <1>5, <2>1
  <2>4. done[2] = Descend(done[1], s[2])
    BY <1>5, <2>1
  <2>5. done[3] = Descend(done[2], s[3])
    BY <1>5, <2>1
  <2> QED
    BY <1>2, <2>2, <2>3, <2>4, <2>5
<1> QED
  BY <1>1, <1>2, <1>6

\* Every block has a path of one slot to three.
LEMMA PathShape ==
    ASSUME NEW n \in Nat
    PROVE  /\ Path(n).root \in {"direct", "single", "double", "triple"}
           /\ n >= D => Len(Path(n).at) \in 1 .. 3
<1> DEFINE q == P * P
           s == n - D
           d == s - P
           t == d - q
<1>1. s \in Int /\ d \in Int /\ t \in Int
  BY ShapeFacts
<1>2. \/ s < 0 /\ Path(n) = [root |-> "direct", at |-> <<n>>]
      \/ s >= 0 /\ d < 0 /\ Path(n) = [root |-> "single", at |-> <<s>>]
      \/ d >= 0 /\ t < 0 /\ Path(n) = [root |-> "double", at |-> <<d \div P, d % P>>]
      \/ t >= 0 /\ Path(n) = [root |-> "triple", at |-> <<t \div q, (t \div P) % P, t % P>>]
  <2>1. CASE s < 0
    BY <1>1, <2>1, ShapeFacts DEF Path
  <2>2. CASE s >= 0 /\ d < 0
    BY <1>1, <2>2, ShapeFacts DEF Path
  <2>3. CASE d >= 0 /\ t < 0
    BY <1>1, <2>3, ShapeFacts DEF Path
  <2>4. CASE t >= 0
    BY <1>1, <2>4, ShapeFacts DEF Path
  <2> QED
    BY <1>1, <2>1, <2>2, <2>3, <2>4
<1>3. n >= D => ~ (s < 0)
  BY ShapeFacts
<1> HIDE DEF s, d, t, q
<1> QED
  BY <1>2, <1>3

\* A step on the way down leaves the number of blocks.
LEMMA DescendCarries ==
    ASSUME NEW n \in Nat, NEW r, Carries(r, n), NEW level \in 1 .. 3
    PROVE  Carries(Descend(r, level), n)
<1> DEFINE root == Path(r.inode.num_blocks).root
           b == NextFree(r.dev)
           new == \A j \in level .. Len(Path(r.inode.num_blocks).at) : Path(r.inode.num_blocks).at[j] = 0
           spare == FreeOf(r.dev) # {}
<1>1. root \in {"direct", "single", "double", "triple"}
  BY PathShape DEF Carries
<1>2. \A x : Carries([r EXCEPT !.dev = x], n) /\ Carries([r EXCEPT !.ok = x], n)
  BY DEF Carries
<1>3. \A x : Carries([r EXCEPT !.dev = x, !.inode[root] = b], n)
  <2> HIDE DEF root, b
  <2> QED
    BY <1>1 DEF Carries, InodeFields
<1>4. CASE ~ r.ok \/ ~ new
  BY <1>4 DEF Descend
<1>5. CASE r.ok /\ new /\ ~ spare
  <2>1. Descend(r, level) = [r EXCEPT !.ok = FALSE]
    BY <1>5 DEF Descend
  <2> QED
    BY <1>2, <2>1
<1>6. CASE r.ok /\ new /\ spare /\ level = 1
  <2>1. Descend(r, level) = [r EXCEPT !.dev = Take(@), !.inode[root] = b]
    BY <1>6 DEF Descend
  <2> QED
    BY <1>3, <2>1
<1>7. CASE r.ok /\ new /\ spare /\ level > 1
  <2> DEFINE p == Path(r.inode.num_blocks)
             above == SubSeq(p.at, 1, level - 1)
             dev == Store(Take(r.dev),
                          Follow(r.dev.words, r.inode, p.root, SubSeq(above, 1, level - 2)),
                          above[level - 1], b)
             still == ~ r.ok \/ ~ new
             full == r.ok /\ new /\ FreeOf(r.dev) = {}
             top == r.ok /\ new /\ FreeOf(r.dev) # {} /\ level = 1
             deep == r.ok /\ new /\ FreeOf(r.dev) # {} /\ level > 1
             stopped == [r EXCEPT !.ok = FALSE]
             topped == [r EXCEPT !.dev = Take(@), !.inode[root] = b]
             gone == [r EXCEPT !.dev = dev]
  <2>1. Descend(r, level) = CASE still -> r [] full -> stopped [] top -> topped [] deep -> gone
    BY Zenon DEF Descend
  <2>2. ~ still /\ ~ full /\ ~ top /\ deep
    BY <1>7, ~ (level = 1)
  <2>3. Carries(gone, n)
    <3> HIDE DEF dev
    <3> QED
      BY <1>2
  <2> HIDE DEF still, full, top, deep, stopped, topped, gone
  <2>4. Descend(r, level) = gone
    BY <2>1, <2>2
  <2> QED
    BY <2>3, <2>4
<1> QED
  BY <1>4, <1>5, <1>6, <1>7

\* So does the whole way.
LEMMA DownCarries ==
    ASSUME NEW n \in Nat, n >= D, NEW r, Carries(r, n)
    PROVE  Carries(Each(Descend, r, [k \in 1 .. Len(Path(n).at) |-> k]), n)
<1>1. Carries(Descend(r, 1), n)
  BY DescendCarries
<1>2. Carries(Descend(Descend(r, 1), 2), n)
  BY <1>1, DescendCarries
<1>3. Carries(Descend(Descend(Descend(r, 1), 2), 3), n)
  BY <1>2, DescendCarries
<1>4. CASE Len(Path(n).at) = 1
  BY <1>1, <1>4, DescendOnce
<1>5. CASE Len(Path(n).at) = 2
  BY <1>2, <1>5, DescendTwice
<1>6. CASE Len(Path(n).at) = 3
  BY <1>3, <1>6, DescendThrice
<1>7. Len(Path(n).at) \in 1 .. 3
  BY PathShape
<1> QED
  BY <1>4, <1>5, <1>6, <1>7

\* A block that is added raises the number of blocks by one.
LEMMA AddDblockCarries ==
    ASSUME NEW n \in Nat, NEW r, Carries(r, n), NEW b, NEW s, s = AddDblock(r, b)
    PROVE  (Carries(s, n) /\ ~ s.ok) \/ Carries(s, n + 1)
<1> DEFINE down == IF n < D THEN r ELSE Each(Descend, r, [k \in 1 .. Len(Path(n).at) |-> k])
           set == SetBlock(down, n, b)
<1>1. Carries(down, n)
  BY DownCarries, ShapeFacts
<1>2. s = IF ~ down.ok THEN down ELSE [set EXCEPT !.inode.num_blocks = @ + 1]
  BY DEF AddDblock, Carries
<1> HIDE DEF down
<1>3. Carries(set, n)
  <2>1. (\A x : Carries([down EXCEPT !.dev = x], n)) /\ Carries([down EXCEPT !.inode.direct[n] = b], n)
    BY <1>1 DEF Carries, InodeFields
  <2>2. set = [down EXCEPT !.inode.direct[n] = b] \/ \E x : set = [down EXCEPT !.dev = x]
    BY DEF SetBlock
  <2> HIDE DEF set
  <2> QED
    BY <2>1, <2>2
<1> HIDE DEF set
<1>4. Carries([set EXCEPT !.inode.num_blocks = @ + 1], n + 1)
  BY <1>3 DEF Carries, InodeFields
<1> QED
  BY <1>1, <1>2, <1>4

LEMMA AddNewBlockCarries ==
    ASSUME NEW n \in Nat, NEW r, Carries(r, n), NEW s, s = AddNewBlock(r)
    PROVE  (Carries(s, n) /\ ~ s.ok) \/ (r.ok /\ Carries(s, n + 1))
<1>1. CASE ~ r.ok
  BY <1>1 DEF AddNewBlock
<1>2. CASE r.ok /\ FreeOf(r.dev) = {}
  BY <1>2 DEF AddNewBlock, Carries
<1>3. CASE r.ok /\ FreeOf(r.dev) # {}
  <2> DEFINE q == [r EXCEPT !.dev = Take(@)]
  <2>1. Carries(q, n)
    BY DEF Carries
  <2>2. s = AddDblock(q, NextFree(r.dev))
    BY <1>3 DEF AddNewBlock
  <2> HIDE DEF q
  <2> QED
    BY <1>3, <2>1, <2>2, AddDblockCarries
<1> QED
  BY <1>1, <1>2, <1>3

\* A loop that adds blocks has results, whatever the blocks are.
LEMMA LoopExists ==
    ASSUME NEW r0, NEW k \in Nat
    PROVE  Looped(r0, k)
<1> DEFINE E == {i \in 0 .. k : Looped(r0, i)}
<1>1. 0 \in E
  <2>1. WriteLoop(r0, 0, [j \in 0 .. 0 |-> r0])
    <3> DEFINE g == [j \in 0 .. 0 |-> r0]
    <3>1. \A j \in 0 .. 0 : g[j] = IF j = 0 THEN r0 ELSE AddNewBlock(g[j - 1])
      OBVIOUS
    <3> QED
      BY <3>1 DEF WriteLoop
  <2> QED
    BY <2>1 DEF Looped
<1>2. ASSUME NEW i \in 1 .. k, i - 1 \in E
      PROVE  i \in E
  <2>1. PICK f : WriteLoop(r0, i - 1, f)
    BY <1>2 DEF Looped
  <2> DEFINE g == [j \in 0 .. i |-> IF j = 0 THEN r0 ELSE AddNewBlock(f[j - 1])]
  <2>2. \A j \in 0 .. i - 1 : f[j] = IF j = 0 THEN r0 ELSE AddNewBlock(f[j - 1])
    BY <2>1 DEF WriteLoop
  <2>3. \A j \in 0 .. i : g[j] = IF j = 0 THEN r0 ELSE AddNewBlock(f[j - 1])
    OBVIOUS
  <2>4. \A j \in 0 .. i - 1 : g[j] = f[j]
    <3> HIDE DEF g
    <3> QED
      BY <2>2, <2>3
  <2>5. \A j \in 1 .. i : j - 1 \in 0 .. i - 1
    OBVIOUS
  <2>6. \A j \in 0 .. i : j = 0 \/ j \in 1 .. i
    OBVIOUS
  <2>7. \A j \in 0 .. i : g[j] = IF j = 0 THEN r0 ELSE AddNewBlock(g[j - 1])
    <3> HIDE DEF g
    <3> QED
      BY <2>3, <2>4, <2>5, <2>6
  <2>8. g = [j \in 0 .. i |-> IF j = 0 THEN r0 ELSE AddNewBlock(g[j - 1])]
    <3>1. g = [j \in 0 .. i |-> g[j]]
      OBVIOUS
    <3> HIDE DEF g
    <3> QED
      BY <2>7, <3>1
  <2> HIDE DEF g
  <2> QED
    BY <2>8 DEF WriteLoop, Looped
<1>3. \A i \in 0 .. k : i \in E
  <2> HIDE DEF E
  <2> QED
    BY <1>1, <1>2, RangeInduction
<1> QED
  BY <1>3

\* A write that finds enough blocks adds as many as it lacks.
LEMMA WriteCarries ==
    ASSUME NEW r0, NEW n \in Nat, Carries(r0, n), NEW k \in Nat, NEW s, s = WriteGrown(r0, k), s.ok
    PROVE  Carries(s, n + k)
<1>1. PICK f : WriteLoop(r0, k, f)
  BY LoopExists DEF Looped
<1>2. s = f[k]
  BY <1>1, LoopEnds
<1>3. f[0] = r0 /\ \A i \in 1 .. k : f[i] = AddNewBlock(f[i - 1])
  <2>1. \A j \in 1 .. k : j \in 0 .. k /\ j # 0
    OBVIOUS
  <2> QED
    BY <1>1, <2>1 DEF WriteLoop
<1> DEFINE E == {i \in 0 .. k : \E m \in Nat : Carries(f[i], m) /\ (f[i].ok => m = n + i)}
<1>4. 0 \in E
  BY <1>3
<1>5. ASSUME NEW i \in 1 .. k, i - 1 \in E
      PROVE  i \in E
  <2>1. PICK m \in Nat : Carries(f[i - 1], m) /\ (f[i - 1].ok => m = n + (i - 1))
    BY <1>5
  <2>2. \/ Carries(f[i], m) /\ ~ f[i].ok
        \/ f[i - 1].ok /\ Carries(f[i], m + 1)
    BY <1>3, <2>1, AddNewBlockCarries
  <2>3. m + 1 \in Nat /\ (m = n + (i - 1) => m + 1 = n + i)
    OBVIOUS
  <2> QED
    BY <2>1, <2>2, <2>3
<1>6. \A i \in 0 .. k : i \in E
  <2> HIDE DEF E
  <2> QED
    BY <1>4, <1>5, RangeInduction
<1>7. k \in E
  BY <1>6
<1> QED
  BY <1>2, <1>7

\* A cut leaves the number of blocks it was called with.
LEMMA CutCarries ==
    ASSUME NEW r, NEW curr, Carries(r, curr), curr \in Nat, NEW n \in Nat,
           NEW inode, inode = RemoveDblocks(r, n).inode
    PROVE  DOMAIN inode = InodeFields /\ inode.num_blocks = n
<1> DEFINE s == [r EXCEPT !.inode.num_blocks = n]
           q == P * P
           Fine(i) == DOMAIN i = InodeFields /\ i.num_blocks = n
<1>1. Fine(s.inode)
  BY DEF Carries, InodeFields
<1>2. D \in Nat /\ P \in Nat /\ q \in Nat
  BY ShapeFacts
<1>3. RemoveDblocks(r, n) \in {RemoveFromDirect(s, n, curr), RemoveFromSingle(s, n, curr),
                              RemoveFromDouble(s, n, curr), RemoveFromTriple(s, n, curr)}
  <2> HIDE DEF s
  <2> QED
    BY <1>2 DEF RemoveDblocks, Carries, s
<1> HIDE DEF s
<1>4. Fine(RemoveFromDirect(s, n, curr).inode)
  <2>1. /\ \A x : Fine([s.inode EXCEPT !.direct = x])
        /\ \A i, x : Fine(i) => /\ Fine([i EXCEPT !.single = x]) /\ Fine([i EXCEPT !.double = x])
                               /\ Fine([i EXCEPT !.triple = x])
    BY <1>1 DEF InodeFields
  <2> HIDE DEF Fine, q
  <2> DEFINE last == IF curr < D THEN curr ELSE D
             direct == [s.inode EXCEPT !.direct = Cleared(@, n, last)]
             single == [direct EXCEPT !.single = 0]
             double == [single EXCEPT !.double = 0]
             triple == [double EXCEPT !.triple = 0]
  <2>2. Fine(direct) /\ Fine(single) /\ Fine(double) /\ Fine(triple)
    BY <2>1
  <2> HIDE DEF direct, single, double, triple
  <2>3. RemoveFromDirect(s, n, curr).inode \in {direct, single, double, triple}
    BY <1>2 DEF RemoveFromDirect, direct, single, double, triple, q
  <2> QED
    BY <2>2, <2>3
<1>5. Fine(RemoveFromSingle(s, n, curr).inode)
  <2>1. Fine([s.inode EXCEPT !.double = 0])
    BY <1>1 DEF InodeFields
  <2> HIDE DEF Fine
  <2> QED
    BY <1>1, <2>1 DEF RemoveFromSingle
<1>6. RemoveFromDouble(s, n, curr).inode = s.inode /\ RemoveFromTriple(s, n, curr).inode = s.inode
  BY DEF RemoveFromDouble, RemoveFromTriple
<1> HIDE DEF Fine
<1>7. Fine(inode)
  BY <1>1, <1>3, <1>4, <1>5, <1>6
<1> QED
  BY <1>7 DEF Fine

\* What the inode of a regular file says of its size.
SizedFile(inode) ==
    /\ DOMAIN inode = InodeFields /\ inode.num_blocks \in Nat /\ inode.file_size \in Nat
    /\ inode.file_size = 0 => inode.num_blocks <= 1
    /\ inode.file_size # 0 => inode.num_blocks = inode.file_size \div BLOCK_SIZE + 1

SizeInv == DOMAIN inodes = Files /\ \A f \in RegFiles : SizedFile(inodes[f])

\* Writing the inode of one file.
LEMMA SizeKept ==
    ASSUME SizeInv, NEW f \in RegFiles, NEW inode2, SizedFile(inode2),
           inodes' = [inodes EXCEPT ![f] = inode2]
    PROVE  SizeInv'
<1>1. DOMAIN inodes' = Files
  BY DEF SizeInv
<1>2. \A g \in RegFiles : inodes'[g] = IF g = f THEN inode2 ELSE inodes[g]
  BY DEF SizeInv, Files
<1>3. \A g \in RegFiles : SizedFile(inodes'[g])
  BY <1>2 DEF SizeInv
<1> QED
  BY <1>1, <1>3 DEF SizeInv, SizedFile

\* What custom_write and custom_truncate begin with.
LEMMA SizeOpened ==
    ASSUME SizeInv, NEW f \in RegFiles
    PROVE  /\ Carries(Opened(f), inodes[f].num_blocks) /\ Opened(f).inode = inodes[f]
           /\ SizedFile(inodes[f])
           /\ inodes[f].num_blocks \in Nat /\ inodes[f].file_size \in Nat
  BY DEF SizeInv, SizedFile, Carries, Opened

\* A number of blocks and a size that fit.
LEMMA SizeSet ==
    ASSUME NEW inode, DOMAIN inode = InodeFields, NEW size \in Nat,
           inode.num_blocks = size \div BLOCK_SIZE + 1
    PROVE  SizedFile([inode EXCEPT !.file_size = size])
<1> DEFINE inode2 == [inode EXCEPT !.file_size = size]
<1>1. size \div BLOCK_SIZE \in Nat
  BY BlockOf, ShapeAssumption
<1>2. DOMAIN inode2 = InodeFields /\ inode2.file_size = size /\ inode2.num_blocks = inode.num_blocks
  BY DEF InodeFields
<1>3. size = 0 => size \div BLOCK_SIZE = 0
  BY ShapeAssumption
<1> HIDE DEF inode2
<1> QED
  BY <1>1, <1>2, <1>3 DEF SizedFile

\* custom_write
LEMMA WriteSizes ==
    ASSUME SizeInv, NEW f \in Files, NEW from \in Offsets, NEW to \in Offsets, Write(f, from, to)
    PROVE  SizeInv'
<1> DEFINE nb == inodes[f].num_blocks
           missing == to \div BLOCK_SIZE - nb + 1
           grown == WriteGrown(Opened(f), missing)
           inode2 == [grown.inode EXCEPT !.file_size = to]
<1>1. f \in RegFiles /\ to > inodes[f].file_size /\ to \in Nat /\ BLOCK_SIZE \in Nat \ {0}
  <2>1. f \in RegFiles /\ to > inodes[f].file_size
    BY Zenon DEF Write
  <2> QED
    BY <2>1, ShapeAssumption
<1>2. Carries(Opened(f), nb) /\ SizedFile(inodes[f]) /\ nb \in Nat /\ inodes[f].file_size \in Nat
  BY <1>1, SizeOpened
<1>3. inodes[f].file_size \div BLOCK_SIZE <= to \div BLOCK_SIZE
      /\ to \div BLOCK_SIZE \in Nat /\ inodes[f].file_size \div BLOCK_SIZE \in Nat
  BY <1>1, <1>2, BlockOf
<1>4. missing \in Nat /\ nb + missing = to \div BLOCK_SIZE + 1
  <2>1. nb <= to \div BLOCK_SIZE + 1
    BY <1>2, <1>3 DEF SizedFile
  <2> HIDE DEF nb
  <2> QED
    BY <1>2, <1>3, <2>1
<1> HIDE DEF missing
<1>5. (grown.ok /\ inodes' = [inodes EXCEPT ![f] = inode2]) \/ UNCHANGED inodes
  BY Zenon DEF Write, WriteGrown, missing
<1>6. CASE UNCHANGED inodes
  BY <1>6 DEF SizeInv, SizedFile
<1>7. CASE grown.ok /\ inodes' = [inodes EXCEPT ![f] = inode2]
  <2>1. Carries(grown, nb + missing)
    <3> HIDE DEF nb, missing
    <3> QED
      BY <1>2, <1>4, <1>7, WriteCarries
  <2>2. DOMAIN grown.inode = InodeFields /\ grown.inode.num_blocks = to \div BLOCK_SIZE + 1
    BY <1>4, <2>1 DEF Carries
  <2> HIDE DEF grown
  <2>3. SizedFile(inode2)
    BY <1>1, <2>2, SizeSet
  <2> QED
    BY <1>1, <1>7, <2>3, SizeKept
<1> QED
  BY <1>5, <1>6, <1>7

\* custom_truncate
LEMMA TruncateSizes ==
    ASSUME SizeInv, NEW f \in Files, NEW cut \in Cuts, Truncate(f, cut)
    PROVE  SizeInv'
<1> DEFINE nb == inodes[f].num_blocks
           last == cut \div BLOCK_SIZE
           kept == IF nb > last + 1 THEN RemoveDblocks(Opened(f), last + 1) ELSE Opened(f)
           inode2 == [kept.inode EXCEPT !.file_size = cut]
<1>1. f \in RegFiles /\ cut <= inodes[f].file_size /\ cut \in Nat /\ BLOCK_SIZE \in Nat \ {0}
      /\ inodes[f].file_size # 0
  BY ShapeAssumption DEF Truncate
<1>2. Carries(Opened(f), nb) /\ SizedFile(inodes[f]) /\ nb \in Nat /\ inodes[f].file_size \in Nat
  BY <1>1, SizeOpened
<1>3. last \in Nat /\ last <= inodes[f].file_size \div BLOCK_SIZE
      /\ inodes[f].file_size \div BLOCK_SIZE \in Nat
  BY <1>1, <1>2, BlockOf
<1>4. nb >= last + 1 /\ last + 1 \in Nat
  <2>1. nb = inodes[f].file_size \div BLOCK_SIZE + 1
    BY <1>1, <1>2 DEF SizedFile
  <2> HIDE DEF last, nb
  <2> QED
    BY <1>3, <2>1
<1>5. inodes' = [inodes EXCEPT ![f] = inode2] \/ UNCHANGED inodes
  BY DEF Truncate
<1>6. CASE UNCHANGED inodes
  BY <1>6 DEF SizeInv, SizedFile
<1>7. CASE inodes' = [inodes EXCEPT ![f] = inode2]
  <2>1. DOMAIN kept.inode = InodeFields /\ kept.inode.num_blocks = last + 1
    <3>1. CASE nb > last + 1
      <4>1. kept = RemoveDblocks(Opened(f), last + 1)
        BY <3>1
      <4> HIDE DEF kept, last, nb
      <4> QED
        BY <1>2, <1>4, <4>1, CutCarries
    <3>2. CASE ~ (nb > last + 1)
      <4>1. kept = Opened(f) /\ nb = last + 1
        BY <1>2, <1>3, <1>4, <3>2
      <4> HIDE DEF kept, last, nb
      <4> QED
        BY <1>2, <4>1 DEF Carries
    <3> QED
      BY <3>1, <3>2
  <2> HIDE DEF kept
  <2>2. SizedFile(inode2)
    BY <1>1, <2>1, SizeSet
  <2> QED
    BY <1>1, <1>7, <2>2, SizeKept
<1> QED
  BY <1>5, <1>6, <1>7

\* A file that is gone has the size of a fresh one.
LEMMA FreshSized ==
    SizedFile(FreshInode)
  BY DEF SizedFile, FreshInode, InodeFields

\* Every step keeps the sizes.
LEMMA SizeStep ==
    SizeInv /\ [Next]_vars => SizeInv'
<1> SUFFICES ASSUME SizeInv, [Next]_vars
             PROVE  SizeInv'
  OBVIOUS
<1>1. CASE UNCHANGED vars
  BY <1>1 DEF vars, SizeInv, SizedFile
<1>2. ASSUME NEW f \in Files, NEW from \in Offsets, NEW to \in Offsets, Write(f, from, to)
      PROVE  SizeInv'
  BY <1>2, WriteSizes
<1>3. ASSUME NEW f \in Files, NEW cut \in Cuts, Truncate(f, cut)
      PROVE  SizeInv'
  BY <1>3, TruncateSizes
<1>4. ASSUME NEW f \in Files, AddDirBlock(f)
      PROVE  SizeInv'
  <2>1. f \in Dirs /\ ((\E x : inodes' = [inodes EXCEPT ![f] = x]) \/ UNCHANGED inodes)
    BY <1>4 DEF AddDirBlock
  <2>2. \A g \in RegFiles : g # f /\ g \in Files
    BY <2>1, ShapeAssumption DEF Files
  <2> QED
    BY <2>1, <2>2 DEF SizeInv, SizedFile
<1>5. ASSUME NEW f \in Files, Unlink(f)
      PROVE  SizeInv'
  <2>1. inodes' = [inodes EXCEPT ![f] = FreshInode]
    BY <1>5 DEF Unlink
  <2>2. \A g \in RegFiles : inodes'[g] = IF g = f THEN FreshInode ELSE inodes[g]
    BY <2>1 DEF SizeInv, Files
  <2>3. DOMAIN inodes' = Files
    BY <2>1 DEF SizeInv
  <2>4. \A g \in RegFiles : SizedFile(inodes'[g])
    BY <2>2, FreshSized DEF SizeInv
  <2> QED
    BY <2>3, <2>4 DEF SizeInv, SizedFile
<1>6. ASSUME NEW f \in Files, NEW d \in Dirs \ {f}, NEW n \in 1 .. inodes[d].num_blocks - 1,
             UnlinkAlone(f, d, n)
      PROVE  SizeInv'
  <2>1. PICK x : inodes' = [inodes EXCEPT ![f] = FreshInode, ![d] = x]
    BY <1>6 DEF UnlinkAlone
  <2>2. \A g \in RegFiles : g # d /\ g \in Files
    BY ShapeAssumption DEF Files
  <2>3. \A g \in RegFiles : inodes'[g] = IF g = f THEN FreshInode ELSE inodes[g]
    BY <2>1, <2>2 DEF SizeInv
  <2>4. DOMAIN inodes' = Files
    BY <2>1 DEF SizeInv
  <2>5. \A g \in RegFiles : SizedFile(inodes'[g])
    BY <2>3, FreshSized DEF SizeInv
  <2> QED
    BY <2>4, <2>5 DEF SizeInv, SizedFile
<1> QED
  BY <1>1, <1>2, <1>3, <1>4, <1>5, <1>6 DEF Next

(* num_blocks is what the size of a file calls for, after every write and  *)
(* every truncation, of any size and at any offset: custom_write takes the *)
(* number of blocks to add, and custom_truncate the block to cut at, from  *)
(* file_size.                                                              *)
THEOREM SizesHold ==
    Spec => []BlocksMatchSize
<1>1. Init => SizeInv
  BY FreshSized DEF Init, SizeInv, Files
<1>2. SizeInv => BlocksMatchSize
  BY DEF SizeInv, SizedFile, BlocksMatchSize
<1> QED
  BY <1>1, <1>2, SizeStep, PTL DEF Spec
=============================================================================
