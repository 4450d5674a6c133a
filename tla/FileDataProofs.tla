--------------------------- MODULE FileDataProofs ---------------------------
(***************************************************************************)
(* Theorems about FileData, for every size of a block, every number of     *)
(* blocks and files, every payload and with failures or without.           *)
(*                                                                         *)
(* The first part is about one file: which bytes its blocks hold after a   *)
(* write, and which a read returns.  Byte i of a file is in block          *)
(* BlockOf(i) at PlaceOf(i), and block b begins behind byte Base(b).       *)
(***************************************************************************)
EXTENDS FileData, DataLemmas

Base(b) == (b - 1) * BLOCK_SIZE
BlockOf(i) == (i - 1) \div BLOCK_SIZE + 1
PlaceOf(i) == ((i - 1) % BLOCK_SIZE) + 1

Bytes == [1 .. BLOCK_SIZE -> Nat]
Positive == Nat \ {0}

\* A block has a byte.
LEMMA SizeFacts == BLOCK_SIZE \in Nat /\ BLOCK_SIZE >= 1
  BY DataAssumption

\* The bases of blocks are multiples of their size.
LEMMA BaseFacts ==
    /\ Base(1) = 0
    /\ \A b \in Positive : Base(b) \in Nat /\ Base(b + 1) = Base(b) + BLOCK_SIZE /\ Base(b + 1) = b * BLOCK_SIZE
    /\ \A b, c \in Positive : b < c => Base(b) + BLOCK_SIZE <= Base(c)
<1> USE SizeFacts DEF Base, Positive
<1>1. Base(1) = 0
  OBVIOUS
<1>2. ASSUME NEW b \in Positive
      PROVE  Base(b) \in Nat /\ Base(b + 1) = Base(b) + BLOCK_SIZE /\ Base(b + 1) = b * BLOCK_SIZE
  OBVIOUS
<1>3. ASSUME NEW b \in Positive, NEW c \in Positive, b < c
      PROVE  Base(b) + BLOCK_SIZE <= Base(c)
  <2>1. PICK d \in Nat : c = b + 1 + d
    <3>1. c - b - 1 \in Nat /\ c = b + 1 + (c - b - 1)
      BY <1>3
    <3> QED
      BY <3>1
  <2>2. Base(c) = Base(b) + BLOCK_SIZE + d * BLOCK_SIZE /\ d * BLOCK_SIZE \in Nat
    BY <2>1
  <2> QED
    BY <1>2, <2>2
<1> QED
  BY <1>1, <1>2, <1>3

(* Every byte has one place in one block.                                  *)
LEMMA ByteHasPlace ==
    ASSUME NEW i \in Positive
    PROVE  /\ BlockOf(i) \in Positive /\ PlaceOf(i) \in 1 .. BLOCK_SIZE
           /\ i = Base(BlockOf(i)) + PlaceOf(i)
<1> USE SizeFacts DEF Positive
<1>1. i - 1 \in Nat
  OBVIOUS
<1>2. /\ (i - 1) \div BLOCK_SIZE \in Nat /\ (i - 1) % BLOCK_SIZE \in 0 .. BLOCK_SIZE - 1
      /\ i - 1 = ((i - 1) \div BLOCK_SIZE) * BLOCK_SIZE + ((i - 1) % BLOCK_SIZE)
  BY <1>1
<1> QED
  BY <1>2 DEF BlockOf, PlaceOf, Base

\* A byte within a block has that block and that place.
LEMMA PlaceIsByte ==
    ASSUME NEW b \in Positive, NEW j \in 1 .. BLOCK_SIZE
    PROVE  Base(b) + j \in Positive /\ BlockOf(Base(b) + j) = b /\ PlaceOf(Base(b) + j) = j
<1> DEFINE i == Base(b) + j
           c == BlockOf(i)
           k == PlaceOf(i)
<1>1. i \in Positive /\ Base(b) \in Nat /\ j \in Nat /\ BLOCK_SIZE \in Nat /\ j >= 1 /\ j <= BLOCK_SIZE
  <2>1. Base(b) \in Nat
    BY BaseFacts
  <2> QED
    BY <2>1, SizeFacts DEF Positive
<1>2. c \in Positive /\ k \in 1 .. BLOCK_SIZE /\ i = Base(c) + k /\ Base(c) \in Nat
  BY <1>1, ByteHasPlace, BaseFacts
<1> HIDE DEF c, k
<1>3. b < c => Base(b) + BLOCK_SIZE <= Base(c)
  BY <1>2, BaseFacts
<1>4. c < b => Base(c) + BLOCK_SIZE <= Base(b)
  BY <1>2, BaseFacts
<1>5. b = c
  <2>1. ~ b < c
    BY <1>1, <1>2, <1>3
  <2>2. ~ c < b
    BY <1>1, <1>2, <1>4
  <2> QED
    BY <1>2, <2>1, <2>2 DEF Positive
<1>6. j = k
  BY <1>1, <1>2, <1>5
<1> QED
  BY <1>1, <1>5, <1>6 DEF c, k

-----------------------------------------------------------------------------
(* The parts of the blocks that a call works on                            *)

FirstBlock(offset) == offset \div BLOCK_SIZE
LastBlock(offset, n) == (offset + n) \div BLOCK_SIZE
Count(offset, n) == LastBlock(offset, n) - FirstBlock(offset) + 1

\* The bytes before the i-th part, and those up to its end.
From(offset, i) == IF i = 1 THEN offset ELSE Base(FirstBlock(offset) + i)
Upto(offset, n, i) == IF i = Count(offset, n) THEN offset + n ELSE Base(FirstBlock(offset) + i + 1)

\* An offset is the base of a block and a rest.
LEMMA QuotientFacts ==
    ASSUME NEW a \in Nat
    PROVE  /\ a \div BLOCK_SIZE \in Nat /\ a % BLOCK_SIZE \in 0 .. BLOCK_SIZE - 1
           /\ a = Base((a \div BLOCK_SIZE) + 1) + (a % BLOCK_SIZE)
  BY SizeFacts DEF Base

\* Blocks are in the order of the offsets.
LEMMA QuotientsOrdered ==
    ASSUME NEW a \in Nat, NEW b \in Nat, a <= b
    PROVE  a \div BLOCK_SIZE <= b \div BLOCK_SIZE
<1> DEFINE p == a \div BLOCK_SIZE
           q == b \div BLOCK_SIZE
<1>1. /\ p \in Nat /\ a % BLOCK_SIZE \in 0 .. BLOCK_SIZE - 1 /\ a = Base(p + 1) + (a % BLOCK_SIZE)
      /\ q \in Nat /\ b % BLOCK_SIZE \in 0 .. BLOCK_SIZE - 1 /\ b = Base(q + 1) + (b % BLOCK_SIZE)
  BY QuotientFacts
<1> HIDE DEF p, q
<1>2. q < p => Base(q + 1) + BLOCK_SIZE <= Base(p + 1)
  BY <1>1, BaseFacts DEF Positive
<1>3. Base(q + 1) \in Nat /\ Base(p + 1) \in Nat
  BY <1>1, BaseFacts DEF Positive
<1>4. ~ q < p
  BY <1>1, <1>2, <1>3, SizeFacts
<1> QED
  BY <1>1, <1>4 DEF p, q

\* Each part of a read or write lies within its block.
LEMMA PartFacts ==
    ASSUME NEW offset \in Nat, NEW n \in Nat, NEW i \in 1 .. Count(offset, n)
    PROVE  LET p == Parts(offset, n)[i]
           IN  /\ p.block = FirstBlock(offset) + i /\ p.block \in Positive
               /\ p.at \in Nat /\ p.len \in Nat /\ p.at + p.len <= BLOCK_SIZE
               /\ Base(p.block) + p.at = From(offset, i) /\ From(offset, i) + p.len = Upto(offset, n, i)
<1> DEFINE f == FirstBlock(offset)
           l == LastBlock(offset, n)
           r == offset % BLOCK_SIZE
           e == (offset + n) % BLOCK_SIZE
           p == Parts(offset, n)[i]
<1>1. /\ f \in Nat /\ r \in 0 .. BLOCK_SIZE - 1 /\ offset = Base(f + 1) + r
      /\ l \in Nat /\ e \in 0 .. BLOCK_SIZE - 1 /\ offset + n = Base(l + 1) + e
  BY QuotientFacts DEF FirstBlock, LastBlock
<1>2. f <= l
  BY QuotientsOrdered DEF FirstBlock, LastBlock
<1>3. /\ p.block = f + i
      /\ p.at = IF i = 1 THEN r ELSE 0
      /\ p.len = IF f = l THEN n ELSE IF i = 1 THEN BLOCK_SIZE - r ELSE IF i = l - f + 1 THEN e ELSE BLOCK_SIZE
      /\ From(offset, i) = (IF i = 1 THEN offset ELSE Base(f + i))
      /\ Upto(offset, n, i) = (IF i = l - f + 1 THEN offset + n ELSE Base(f + i + 1))
      /\ i \in 1 .. l - f + 1
  BY DEF FirstBlock, LastBlock, Count, Parts, From, Upto
<1> HIDE DEF f, l, r, e, p
<1>4. f + i \in Positive /\ Base(f + i) \in Nat /\ Base(f + i + 1) = Base(f + i) + BLOCK_SIZE
  BY <1>1, <1>3, BaseFacts DEF Positive
<1>5. Base(f + 1) \in Nat /\ Base(l + 1) \in Nat
  BY <1>1, BaseFacts DEF Positive
<1>6. CASE f = l
  <2>1. i = 1 /\ Count(offset, n) = 1
    BY <1>1, <1>3, <1>6 DEF Count, f, l
  <2>2. p.at = r /\ p.len = n /\ From(offset, i) = offset /\ Upto(offset, n, i) = offset + n /\ e = r + n
    BY <1>1, <1>3, <1>5, <1>6, <2>1
  <2> QED
    BY <1>1, <1>3, <1>4, <1>5, <2>1, <2>2, SizeFacts DEF f, p
<1>7. CASE f # l /\ i = 1
  <2>1. p.at = r /\ p.len = BLOCK_SIZE - r /\ From(offset, i) = offset /\ Upto(offset, n, i) = Base(f + i + 1)
    BY <1>1, <1>2, <1>3, <1>7
  <2> QED
    BY <1>1, <1>3, <1>4, <1>7, <2>1, SizeFacts DEF f, p
<1>8. CASE f # l /\ i # 1 /\ i = l - f + 1
  <2>1. f + i = l + 1
    BY <1>1, <1>3, <1>8
  <2> QED
    BY <1>1, <1>3, <1>4, <1>8, <2>1, SizeFacts DEF f, p
<1>9. CASE f # l /\ i # 1 /\ i # l - f + 1
  BY <1>1, <1>3, <1>4, <1>9, SizeFacts DEF f, p
<1> QED
  BY <1>6, <1>7, <1>8, <1>9

(* One part begins where the one before it ends.                           *)
LEMMA PartsJoin ==
    ASSUME NEW offset \in Nat, NEW n \in Nat
    PROVE  /\ Count(offset, n) \in Positive
           /\ DOMAIN Parts(offset, n) = 1 .. Count(offset, n)
           /\ From(offset, 1) = offset /\ Upto(offset, n, Count(offset, n)) = offset + n
           /\ \A i \in 2 .. Count(offset, n) : From(offset, i) = Upto(offset, n, i - 1)
<1>1. FirstBlock(offset) \in Nat /\ LastBlock(offset, n) \in Nat /\ FirstBlock(offset) <= LastBlock(offset, n)
  BY QuotientFacts, QuotientsOrdered DEF FirstBlock, LastBlock
<1>2. Count(offset, n) \in Positive
  BY <1>1 DEF Count, Positive
<1>3. DOMAIN Parts(offset, n) = 1 .. Count(offset, n)
  BY DEF Parts, Count, FirstBlock, LastBlock
<1>4. ASSUME NEW i \in 2 .. Count(offset, n)
      PROVE  From(offset, i) = Upto(offset, n, i - 1)
  <2>1. i # 1 /\ i - 1 # Count(offset, n) /\ FirstBlock(offset) + (i - 1) + 1 = FirstBlock(offset) + i
    BY <1>1, <1>2 DEF Positive
  <2> QED
    BY <2>1 DEF From, Upto
<1> QED
  BY <1>2, <1>3, <1>4 DEF From, Upto

\* The parts lie between the offset and the end.
LEMMA PartsInOrder ==
    ASSUME NEW offset \in Nat, NEW n \in Nat, NEW i \in 1 .. Count(offset, n)
    PROVE  /\ offset <= From(offset, i) /\ From(offset, i) <= Upto(offset, n, i)
           /\ Upto(offset, n, i) <= offset + n
           /\ From(offset, i) \in Nat /\ Upto(offset, n, i) \in Nat
<1> DEFINE f == FirstBlock(offset)
           l == LastBlock(offset, n)
<1>1. /\ f \in Nat /\ offset % BLOCK_SIZE \in 0 .. BLOCK_SIZE - 1 /\ offset = Base(f + 1) + (offset % BLOCK_SIZE)
      /\ l \in Nat /\ (offset + n) % BLOCK_SIZE \in 0 .. BLOCK_SIZE - 1
      /\ offset + n = Base(l + 1) + ((offset + n) % BLOCK_SIZE)
  BY QuotientFacts DEF FirstBlock, LastBlock
<1>2. From(offset, i) = (IF i = 1 THEN offset ELSE Base(f + i))
  BY DEF From
<1>3. Upto(offset, n, i) = (IF i = l - f + 1 THEN offset + n ELSE Base(f + i + 1))
  BY DEF Upto, Count
<1>4. i \in Nat /\ i >= 1 /\ i <= l - f + 1
  BY <1>1 DEF Count
<1>5. From(offset, i) <= Upto(offset, n, i) /\ From(offset, i) \in Nat /\ Upto(offset, n, i) \in Nat
  <2> DEFINE p == Parts(offset, n)[i]
  <2>1. /\ p.block \in Positive /\ p.at \in Nat /\ p.len \in Nat
        /\ From(offset, i) = Base(p.block) + p.at /\ Upto(offset, n, i) = From(offset, i) + p.len
    BY PartFacts
  <2>2. Base(p.block) \in Nat
    BY <2>1, BaseFacts
  <2> HIDE DEF p
  <2> QED
    BY <2>1, <2>2
<1> HIDE DEF f, l
<1>6. Base(f + 1) \in Nat /\ Base(l + 1) \in Nat
  BY <1>1, BaseFacts DEF Positive
<1>7. offset <= From(offset, i)
  <2>1. CASE i = 1
    BY <1>2, <2>1
  <2>2. CASE i # 1
    <3>1. Base(f + 1) + BLOCK_SIZE <= Base(f + i)
      BY <1>1, <1>4, <2>2, BaseFacts DEF Positive
    <3> QED
      BY <1>1, <1>2, <1>5, <1>6, <2>2, <3>1, SizeFacts
  <2> QED
    BY <2>1, <2>2
<1>8. Upto(offset, n, i) <= offset + n
  <2>1. CASE i = l - f + 1
    BY <1>3, <2>1
  <2>2. CASE i # l - f + 1
    <3>1. f + i + 1 <= l + 1 /\ f + i + 1 \in Positive /\ l + 1 \in Positive
      BY <1>1, <1>4, <2>2 DEF Positive
    <3>2. Base(f + i + 1) <= Base(l + 1)
      <4>1. CASE f + i + 1 = l + 1
        BY <1>6, <4>1
      <4>2. CASE f + i + 1 < l + 1
        <5>1. Base(f + i + 1) + BLOCK_SIZE <= Base(l + 1) /\ Base(f + i + 1) \in Nat
          BY <3>1, <4>2, BaseFacts
        <5> QED
          BY <1>6, <5>1, SizeFacts
      <4> QED
        BY <3>1, <4>1, <4>2 DEF Positive
    <3> QED
      BY <1>1, <1>3, <1>5, <1>6, <2>2, <3>2
  <2> QED
    BY <2>1, <2>2
<1> QED
  BY <1>5, <1>7, <1>8

(* When the last part has a block, all parts have.                         *)
LEMMA PartsThere ==
    ASSUME NEW offset \in Nat, NEW n \in Nat, NEW blocks \in Seq(Bytes)
    PROVE  There(Parts(offset, n), blocks) <=> LastBlock(offset, n) + 1 <= Len(blocks)
<1>1. /\ Count(offset, n) \in Positive /\ DOMAIN Parts(offset, n) = 1 .. Count(offset, n)
      /\ FirstBlock(offset) \in Nat /\ LastBlock(offset, n) \in Nat /\ Len(blocks) \in Nat
  <2>1. offset + n \in Nat
    OBVIOUS
  <2>2. FirstBlock(offset) \in Nat /\ LastBlock(offset, n) \in Nat
    BY <2>1, QuotientFacts DEF FirstBlock, LastBlock
  <2> QED
    BY <2>2, PartsJoin, LenProperties
<1>2. \A i \in 1 .. Count(offset, n) : Parts(offset, n)[i].block = FirstBlock(offset) + i
  BY PartFacts
<1>3. Count(offset, n) = LastBlock(offset, n) - FirstBlock(offset) + 1
  BY DEF Count
<1>4. Count(offset, n) \in 1 .. Count(offset, n)
  BY <1>1 DEF Positive
<1>5. There(Parts(offset, n), blocks) <=> \A i \in 1 .. Count(offset, n) : FirstBlock(offset) + i <= Len(blocks)
  BY <1>1, <1>2 DEF There
<1> QED
  BY <1>1, <1>3, <1>4, <1>5 DEF Positive

-----------------------------------------------------------------------------
(* What a write puts into the blocks                                       *)

\* The bytes of the file up to the end of the k-th part.
Done(offset, n, k) == IF k = 0 THEN offset ELSE Upto(offset, n, k)

Patch(blocks, offset, bytes, end) ==
    [b \in 1 .. Len(blocks) |-> [j \in 1 .. BLOCK_SIZE |->
        IF Base(b) + j > offset /\ Base(b) + j <= end THEN bytes[Base(b) + j - offset] ELSE blocks[b][j]]]

\* Where the first k parts end.
LEMMA DoneFacts ==
    ASSUME NEW offset \in Nat, NEW n \in Nat, NEW k \in 1 .. Count(offset, n)
    PROVE  LET p == Parts(offset, n)[k]
           IN  /\ Done(offset, n, k - 1) \in Nat /\ Done(offset, n, k) \in Nat
               /\ offset <= Done(offset, n, k - 1) /\ Done(offset, n, k - 1) <= Done(offset, n, k)
               /\ Done(offset, n, k) <= offset + n
               /\ Done(offset, n, k - 1) = Base(p.block) + p.at
               /\ Done(offset, n, k) = Done(offset, n, k - 1) + p.len
<1> DEFINE p == Parts(offset, n)[k]
<1>1. k \in Nat /\ k >= 1 /\ k <= Count(offset, n)
  <2>1. Count(offset, n) \in Positive
    BY PartsJoin
  <2> QED
    BY <2>1 DEF Positive
<1>2. Done(offset, n, k) = Upto(offset, n, k)
  BY <1>1 DEF Done
<1>3. Done(offset, n, k - 1) = From(offset, k)
  <2>1. CASE k = 1
    BY <2>1 DEF Done, From
  <2>2. CASE k # 1
    <3>1. k \in 2 .. Count(offset, n) /\ k - 1 # 0
      BY <1>1, <2>2
    <3> QED
      BY <3>1, PartsJoin DEF Done
  <2> QED
    BY <2>1, <2>2
<1>4. /\ offset <= From(offset, k) /\ From(offset, k) <= Upto(offset, n, k) /\ Upto(offset, n, k) <= offset + n
      /\ From(offset, k) \in Nat /\ Upto(offset, n, k) \in Nat
  BY PartsInOrder
<1>5. Base(p.block) + p.at = From(offset, k) /\ From(offset, k) + p.len = Upto(offset, n, k)
  BY PartFacts
<1> QED
  BY <1>2, <1>3, <1>4, <1>5

\* One turn of the loop: the part p of the blocks is overwritten, after n bytes were.
PutPart(blocks, p, bytes, n) ==
    [blocks EXCEPT ![p.block] =
       [j \in 1 .. BLOCK_SIZE |-> IF j > p.at /\ j <= p.at + p.len THEN bytes[n + j - p.at] ELSE @[j]]]

\* Writing one more part to the patched blocks patches them up to its end.
LEMMA PatchGrows ==
    ASSUME NEW blocks \in Seq(Bytes), NEW offset \in Nat, NEW bytes \in Seq(Nat),
           There(Parts(offset, Len(bytes)), blocks), NEW k \in 1 .. Count(offset, Len(bytes))
    PROVE  LET n == Len(bytes)
               p == Parts(offset, n)[k]
               d == Done(offset, n, k - 1)
           IN  Patch(blocks, offset, bytes, Done(offset, n, k)) =
                 PutPart(Patch(blocks, offset, bytes, d), p, bytes, d - offset)
<1> DEFINE n == Len(bytes)
           p == Parts(offset, n)[k]
           d == Done(offset, n, k - 1)
           e == Done(offset, n, k)
           before == Patch(blocks, offset, bytes, d)
           after == Patch(blocks, offset, bytes, e)
           put == [j \in 1 .. BLOCK_SIZE |->
                     IF j > p.at /\ j <= p.at + p.len THEN bytes[(d - offset) + j - p.at] ELSE before[p.block][j]]
<1>1. n \in Nat /\ Len(blocks) \in Nat
  BY LenProperties
<1>2. /\ d \in Nat /\ e \in Nat /\ offset <= d /\ d <= e
      /\ d = Base(p.block) + p.at /\ e = d + p.len
  BY <1>1, DoneFacts
<1>3. /\ p.block \in Positive /\ p.at \in Nat /\ p.len \in Nat /\ p.at + p.len <= BLOCK_SIZE
      /\ p.block <= Len(blocks)
  <2>1. k \in DOMAIN Parts(offset, n)
    BY <1>1, PartsJoin
  <2> QED
    BY <1>1, <2>1, PartFacts DEF There
<1> HIDE DEF p, d, e, n
<1>4. p.block \in 1 .. Len(blocks) /\ Base(p.block) \in Nat
  <2>1. Base(p.block) \in Nat
    BY <1>3, BaseFacts
  <2> QED
    BY <1>1, <1>3, <2>1 DEF Positive
<1>5. ASSUME NEW b \in 1 .. Len(blocks), NEW j \in 1 .. BLOCK_SIZE
      PROVE  after[b][j] = IF b = p.block THEN put[j] ELSE before[b][j]
  <2>1. b \in Positive /\ Base(b) \in Nat /\ j \in Nat /\ j >= 1 /\ j <= BLOCK_SIZE
    <3>1. b \in Positive /\ j \in Nat /\ j >= 1 /\ j <= BLOCK_SIZE
      BY <1>1, SizeFacts DEF Positive
    <3> QED
      BY <3>1, BaseFacts
  <2>2. after[b][j] = IF Base(b) + j > offset /\ Base(b) + j <= e THEN bytes[Base(b) + j - offset] ELSE blocks[b][j]
    BY DEF Patch
  <2>3. before[b][j] = IF Base(b) + j > offset /\ Base(b) + j <= d THEN bytes[Base(b) + j - offset] ELSE blocks[b][j]
    BY DEF Patch
  <2> HIDE DEF after, before
  <2>4. CASE b = p.block
    <3>1. put[j] = IF j > p.at /\ j <= p.at + p.len THEN bytes[(d - offset) + j - p.at] ELSE before[b][j]
      BY <2>4
    <3> HIDE DEF put
    <3>2. (d - offset) + j - p.at = Base(b) + j - offset
      <4>1. d = Base(b) + p.at
        BY <1>2, <2>4
      <4>2. \A base, at, off, i \in Nat : (base + at - off) + i - at = base + i - off
        OBVIOUS
      <4> QED
        BY <1>3, <2>1, <4>1, <4>2
    <3>3. j > p.at /\ j <= p.at + p.len <=> Base(b) + j > d /\ Base(b) + j <= e
      BY <1>2, <1>3, <2>1, <2>4
    <3>4. CASE Base(b) + j > d /\ Base(b) + j <= e
      <4>1. Base(b) + j > offset
        BY <1>2, <2>1, <3>4
      <4> QED
        BY <2>2, <2>4, <3>1, <3>2, <3>3, <3>4, <4>1
    <3>5. CASE ~ (Base(b) + j > d /\ Base(b) + j <= e)
      <4>1. Base(b) + j <= d <=> Base(b) + j <= e
        BY <1>2, <2>1, <3>5
      <4> QED
        BY <2>2, <2>3, <2>4, <3>1, <3>3, <3>5, <4>1
    <3> QED
      BY <3>4, <3>5
  <2>5. CASE b # p.block
    <3>1. ~ (Base(b) + j > d /\ Base(b) + j <= e)
      <4> SUFFICES ASSUME Base(b) + j > d, Base(b) + j <= e
                   PROVE  FALSE
        OBVIOUS
      <4>1. PICK i \in 1 .. BLOCK_SIZE : Base(b) + j = Base(p.block) + i
        <5>1. \A x, base, at, len, size \in Nat :
                 x > base + at /\ x <= (base + at) + len /\ at + len <= size =>
                   x - base \in 1 .. size /\ x = base + (x - base)
          OBVIOUS
        <5> DEFINE x == Base(b) + j
                   base == Base(p.block)
                   at == p.at
                   len == p.len
        <5>2. x > base + at /\ x <= (base + at) + len
          BY <1>2
        <5>3. x \in Nat /\ base \in Nat /\ at \in Nat /\ len \in Nat /\ at + len <= BLOCK_SIZE /\ BLOCK_SIZE \in Nat
          BY <1>3, <1>4, <2>1, SizeFacts
        <5>4. x - base \in 1 .. BLOCK_SIZE /\ x = base + (x - base)
          <6> HIDE DEF x, base, at, len
          <6> QED
            BY <5>1, <5>2, <5>3
        <5> QED
          BY <5>4
      <4>2. b = BlockOf(Base(b) + j)
        BY <2>1, PlaceIsByte
      <4>3. p.block = BlockOf(Base(p.block) + i)
        BY <1>3, PlaceIsByte
      <4> QED
        BY <2>5, <4>1, <4>2, <4>3
    <3> QED
      BY <1>2, <2>1, <2>2, <2>3, <2>5, <3>1
  <2> QED
    BY <2>4, <2>5
<1>6. ASSUME NEW b \in 1 .. Len(blocks)
      PROVE  after[b] = [before EXCEPT ![p.block] = put][b]
  <2>1. after[b] = [j \in 1 .. BLOCK_SIZE |-> after[b][j]] /\ before[b] = [j \in 1 .. BLOCK_SIZE |-> before[b][j]]
    BY DEF Patch
  <2>2. [before EXCEPT ![p.block] = put][b] = IF b = p.block THEN put ELSE before[b]
    BY DEF Patch
  <2>3. put = [j \in 1 .. BLOCK_SIZE |-> put[j]]
    OBVIOUS
  <2> HIDE DEF put, after, before
  <2> QED
    BY <1>5, <2>1, <2>2, <2>3
<1>7. /\ after = [b \in 1 .. Len(blocks) |-> after[b]]
      /\ [before EXCEPT ![p.block] = put] = [b \in 1 .. Len(blocks) |-> [before EXCEPT ![p.block] = put][b]]
  BY DEF Patch
<1>8. after = [before EXCEPT ![p.block] = put]
  <2> HIDE DEF after, before, put
  <2> QED
    BY <1>6, <1>7
<1> QED
  BY <1>8 DEF n, p, d, e, PutPart

\* Patched blocks are as many blocks as before.
LEMMA PatchType ==
    ASSUME NEW blocks \in Seq(Bytes), NEW offset \in Nat, NEW bytes \in Seq(Nat),
           NEW end \in Nat, end <= offset + Len(bytes)
    PROVE  Patch(blocks, offset, bytes, end) \in Seq(Bytes) /\ Len(Patch(blocks, offset, bytes, end)) = Len(blocks)
<1>1. Len(blocks) \in Nat /\ blocks \in [1 .. Len(blocks) -> Bytes]
  BY LenProperties
<1>2. Len(bytes) \in Nat /\ bytes \in [1 .. Len(bytes) -> Nat]
  BY LenProperties
<1>3. ASSUME NEW b \in 1 .. Len(blocks), NEW j \in 1 .. BLOCK_SIZE
      PROVE  (IF Base(b) + j > offset /\ Base(b) + j <= end THEN bytes[Base(b) + j - offset] ELSE blocks[b][j]) \in Nat
  <2>1. b \in Positive /\ j \in Nat
    BY <1>1, SizeFacts DEF Positive
  <2>2. Base(b) \in Nat
    BY <2>1, BaseFacts
  <2>3. CASE Base(b) + j > offset /\ Base(b) + j <= end
    <3>1. Base(b) + j - offset \in 1 .. Len(bytes)
      BY <1>2, <2>1, <2>2, <2>3
    <3> QED
      BY <1>2, <2>3, <3>1
  <2>4. blocks[b][j] \in Nat
    BY <1>1 DEF Bytes
  <2> QED
    BY <2>3, <2>4
<1>4. Patch(blocks, offset, bytes, end) \in [1 .. Len(blocks) -> Bytes]
  BY <1>3 DEF Patch, Bytes
<1> QED
  BY <1>1, <1>4, FcnIsSeq

(* The loop of custom_write, unrolled.                                     *)
LEMMA FilledIsPatch ==
    ASSUME NEW blocks \in Seq(Bytes), NEW offset \in Nat, NEW bytes \in Seq(Nat),
           There(Parts(offset, Len(bytes)), blocks), NEW k \in 0 .. Count(offset, Len(bytes))
    PROVE  Filled(blocks, Parts(offset, Len(bytes)), k, bytes) =
             Patch(blocks, offset, bytes, Done(offset, Len(bytes), k))
<1> DEFINE n == Len(bytes)
           parts == Parts(offset, n)
           Put(done, p) ==
             [blocks |-> PutPart(done.blocks, p, bytes, done.n), n |-> done.n + p.len]
           Is(f) == f = [i \in 0 .. k |-> IF i = 0 THEN [blocks |-> blocks, n |-> 0] ELSE Put(f[i - 1], parts[i])]
           g == [i \in 0 .. k |-> [blocks |-> Patch(blocks, offset, bytes, Done(offset, n, i)),
                                  n |-> Done(offset, n, i) - offset]]
           f == CHOOSE f : Is(f)
<1>1. n \in Nat /\ Count(offset, n) \in Nat /\ k \in Nat /\ k <= Count(offset, n)
  <2>1. n \in Nat
    BY LenProperties
  <2>2. Count(offset, n) \in Positive
    BY <2>1, PartsJoin
  <2> QED
    BY <2>1, <2>2 DEF Positive
<1>2. g[0] = [blocks |-> blocks, n |-> 0]
  <2>1. Done(offset, n, 0) = offset
    BY DEF Done
  <2>2. g[0] = [blocks |-> Patch(blocks, offset, bytes, offset), n |-> offset - offset]
    BY <1>1, <2>1
  <2>3. offset - offset = 0
    OBVIOUS
  <2>4. Patch(blocks, offset, bytes, offset) = blocks
    <3>1. blocks \in [1 .. Len(blocks) -> Bytes] /\ Len(blocks) \in Nat
      BY LenProperties
    <3>2. ASSUME NEW b \in 1 .. Len(blocks), NEW j \in 1 .. BLOCK_SIZE
          PROVE  ~ (Base(b) + j > offset /\ Base(b) + j <= offset)
      <4>1. b \in Positive /\ j \in Nat
        BY <3>1, SizeFacts DEF Positive
      <4>2. Base(b) \in Nat
        BY <4>1, BaseFacts
      <4> QED
        BY <4>1, <4>2
    <3>3. \A b \in 1 .. Len(blocks) : blocks[b] = [j \in 1 .. BLOCK_SIZE |-> blocks[b][j]]
      BY <3>1 DEF Bytes
    <3> QED
      BY <3>1, <3>2, <3>3 DEF Patch
  <2> QED
    BY <2>2, <2>3, <2>4
<1>3. ASSUME NEW i \in 1 .. k
      PROVE  g[i] = Put(g[i - 1], parts[i])
  <2>1. i \in 1 .. Count(offset, n) /\ i - 1 \in 0 .. k /\ i \in 0 .. k
    BY <1>1
  <2> DEFINE d == Done(offset, n, i - 1)
             p == parts[i]
  <2>2. /\ g[i - 1] = [blocks |-> Patch(blocks, offset, bytes, d), n |-> d - offset]
        /\ g[i] = [blocks |-> Patch(blocks, offset, bytes, Done(offset, n, i)), n |-> Done(offset, n, i) - offset]
    BY <2>1
  <2>3. Patch(blocks, offset, bytes, Done(offset, n, i)) =
          PutPart(Patch(blocks, offset, bytes, d), p, bytes, d - offset)
    BY <2>1, PatchGrows
  <2>4. Done(offset, n, i) - offset = (d - offset) + p.len
    <3>1. d \in Nat /\ Done(offset, n, i) = d + p.len
      BY <1>1, <2>1, DoneFacts
    <3>2. p.len \in Nat
      BY <1>1, <2>1, PartFacts
    <3> HIDE DEF d, p
    <3> QED
      BY <3>1, <3>2
  <2> HIDE DEF g, d, p
  <2> QED
    BY <2>2, <2>3, <2>4 DEF p
<1>4. Is(g)
  <2>1. ASSUME NEW i \in 0 .. k
        PROVE  g[i] = IF i = 0 THEN [blocks |-> blocks, n |-> 0] ELSE Put(g[i - 1], parts[i])
    <3>1. i = 0 \/ i \in 1 .. k
      OBVIOUS
    <3> HIDE DEF g, Put
    <3> QED
      BY <1>2, <1>3, <3>1
  <2>2. g = [i \in 0 .. k |-> g[i]]
    OBVIOUS
  <2> HIDE DEF g, Put
  <2> QED
    BY <2>1, <2>2
<1>5. Is(f)
  <2> HIDE DEF Is, g
  <2> QED
    BY <1>4
<1>6. f[0] = [blocks |-> blocks, n |-> 0] /\ \A i \in 1 .. k : f[i] = Put(f[i - 1], parts[i])
  <2> HIDE DEF f, Put
  <2> QED
    BY <1>1, <1>5
<1> DEFINE S == {i \in Nat : i <= k => f[i] = g[i]}
<1>7. k \in S
  <2>1. 0 \in S
    BY <1>2, <1>6
  <2>2. ASSUME NEW i \in Nat, i \in S
        PROVE  i + 1 \in S
    <3> SUFFICES ASSUME i + 1 <= k
                 PROVE  f[i + 1] = g[i + 1]
      OBVIOUS
    <3>1. i + 1 \in 1 .. k /\ (i + 1) - 1 = i /\ f[i] = g[i]
      BY <1>1, <2>2
    <3> HIDE DEF f, g, Put
    <3> QED
      BY <1>3, <1>6, <3>1
  <2> HIDE DEF S
  <2> QED
    BY <1>1, <2>1, <2>2, SetInduction
<1>8. f[k].blocks = Patch(blocks, offset, bytes, Done(offset, n, k))
  <2>1. f[k] = g[k]
    <3> HIDE DEF f, g
    <3> QED
      BY <1>1, <1>7
  <2> HIDE DEF f
  <2> QED
    BY <1>1, <2>1
<1> QED
  BY <1>8 DEF Filled, PutPart

-----------------------------------------------------------------------------
(* What a read returns                                                     *)

\* How many bytes the blocks hold.
Room(blocks) == Base(Len(blocks) + 1)

\* The bytes that some blocks have room for.
LEMMA RoomFacts ==
    ASSUME NEW blocks \in Seq(Bytes)
    PROVE  /\ Room(blocks) \in Nat /\ Room(blocks) = Len(blocks) * BLOCK_SIZE
           /\ \A b \in 1 .. Len(blocks), j \in 1 .. BLOCK_SIZE : Base(b) + j <= Room(blocks)
<1>1. Len(blocks) \in Nat
  BY LenProperties
<1>2. Len(blocks) + 1 \in Positive
  BY <1>1 DEF Positive
<1>3. Room(blocks) \in Nat
  BY <1>2, BaseFacts DEF Room
<1>4. Room(blocks) = Len(blocks) * BLOCK_SIZE
  BY <1>1, SizeFacts DEF Room, Base
<1>5. ASSUME NEW b \in 1 .. Len(blocks), NEW j \in 1 .. BLOCK_SIZE
      PROVE  Base(b) + j <= Room(blocks)
  <2>1. b \in Positive /\ b < Len(blocks) + 1 /\ j \in Nat /\ j <= BLOCK_SIZE
    BY <1>1, SizeFacts DEF Positive
  <2>2. Base(b) \in Nat /\ Base(b) + BLOCK_SIZE <= Base(Len(blocks) + 1)
    BY <1>2, <2>1, BaseFacts
  <2> QED
    BY <1>3, <2>1, <2>2, SizeFacts DEF Room
<1> QED
  BY <1>3, <1>4, <1>5

\* Each of these bytes is a byte of one of the blocks.
LEMMA ByteInBlock ==
    ASSUME NEW blocks \in Seq(Bytes), NEW i \in Positive, i <= Room(blocks)
    PROVE  /\ BlockOf(i) \in 1 .. Len(blocks) /\ PlaceOf(i) \in 1 .. BLOCK_SIZE
           /\ i = Base(BlockOf(i)) + PlaceOf(i)
           /\ Byte(blocks, i) = blocks[BlockOf(i)][PlaceOf(i)] /\ Byte(blocks, i) \in Nat
<1>1. /\ BlockOf(i) \in Positive /\ PlaceOf(i) \in 1 .. BLOCK_SIZE
      /\ i = Base(BlockOf(i)) + PlaceOf(i)
  BY ByteHasPlace
<1>2. Len(blocks) \in Nat /\ blocks \in [1 .. Len(blocks) -> Bytes] /\ Room(blocks) \in Nat
  BY LenProperties, RoomFacts
<1>3. BlockOf(i) \in 1 .. Len(blocks)
  <2> DEFINE b == BlockOf(i)
             j == PlaceOf(i)
  <2>1. b \in Positive /\ j \in 1 .. BLOCK_SIZE /\ i = Base(b) + j
    BY <1>1
  <2> HIDE DEF b, j
  <2>2. Len(blocks) + 1 \in Positive
    BY <1>2 DEF Positive
  <2>3. Len(blocks) + 1 < b => Base(Len(blocks) + 1) + BLOCK_SIZE <= Base(b)
    BY <2>1, <2>2, BaseFacts
  <2>4. Base(b) \in Nat
    BY <2>1, BaseFacts
  <2>5. b <= Len(blocks)
    <3> SUFFICES ASSUME ~ b <= Len(blocks)
                 PROVE  FALSE
      OBVIOUS
    <3>1. b = Len(blocks) + 1 \/ Len(blocks) + 1 < b
      BY <1>2, <2>1 DEF Positive
    <3>2. Room(blocks) <= Base(b)
      BY <1>2, <2>3, <2>4, <3>1, SizeFacts DEF Room
    <3> QED
      BY <1>2, <2>1, <2>4, <3>2, SizeFacts
  <2> QED
    BY <1>2, <2>1, <2>5 DEF Positive, b
<1>4. Byte(blocks, i) = blocks[BlockOf(i)][PlaceOf(i)]
  BY DEF Byte, BlockOf, PlaceOf
<1>5. blocks[BlockOf(i)][PlaceOf(i)] \in Nat
  BY <1>1, <1>2, <1>3 DEF Bytes
<1> QED
  BY <1>1, <1>3, <1>4, <1>5

\* The byte at a place of a block.
LEMMA ByteAt ==
    ASSUME NEW blocks, NEW b \in Positive, NEW j \in 1 .. BLOCK_SIZE
    PROVE  Byte(blocks, Base(b) + j) = blocks[b][j]
<1>1. BlockOf(Base(b) + j) = b /\ PlaceOf(Base(b) + j) = j
  BY PlaceIsByte
<1>2. Byte(blocks, Base(b) + j) = blocks[BlockOf(Base(b) + j)][PlaceOf(Base(b) + j)]
  BY DEF Byte, BlockOf, PlaceOf
<1> QED
  BY <1>1, <1>2

\* The bytes behind the first from ones, up to the first to ones.
Slice(blocks, from, to) == [m \in 1 .. to - from |-> Byte(blocks, from + m)]

\* A slice is as long as it says, and made of the bytes between its ends.
LEMMA SliceType ==
    ASSUME NEW blocks \in Seq(Bytes), NEW from \in Nat, NEW to \in Nat, from <= to, to <= Room(blocks)
    PROVE  /\ Slice(blocks, from, to) \in Seq(Nat) /\ Len(Slice(blocks, from, to)) = to - from
           /\ \A m \in 1 .. to - from : Slice(blocks, from, to)[m] = Byte(blocks, from + m)
<1>1. to - from \in Nat /\ Room(blocks) \in Nat
  BY RoomFacts
<1>2. ASSUME NEW m \in 1 .. to - from
      PROVE  Byte(blocks, from + m) \in Nat
  <2>1. from + m \in Positive /\ from + m <= Room(blocks)
    BY <1>1 DEF Positive
  <2> QED
    BY <2>1, ByteInBlock
<1>3. Slice(blocks, from, to) \in [1 .. to - from -> Nat]
  BY <1>2 DEF Slice
<1> QED
  BY <1>1, <1>3, FcnIsSeq DEF Slice

\* Two slices that meet are one.
LEMMA SlicesJoin ==
    ASSUME NEW blocks \in Seq(Bytes), NEW a \in Nat, NEW b \in Nat, NEW c \in Nat,
           a <= b, b <= c, c <= Room(blocks)
    PROVE  Slice(blocks, a, b) \o Slice(blocks, b, c) = Slice(blocks, a, c)
<1> DEFINE s == Slice(blocks, a, b)
           t == Slice(blocks, b, c)
           u == Slice(blocks, a, c)
<1>1. Room(blocks) \in Nat /\ b <= Room(blocks) /\ a <= c
  BY RoomFacts
<1>2. /\ s \in Seq(Nat) /\ Len(s) = b - a /\ \A m \in 1 .. b - a : s[m] = Byte(blocks, a + m)
      /\ t \in Seq(Nat) /\ Len(t) = c - b /\ \A m \in 1 .. c - b : t[m] = Byte(blocks, b + m)
      /\ u \in Seq(Nat) /\ Len(u) = c - a /\ \A m \in 1 .. c - a : u[m] = Byte(blocks, a + m)
  BY <1>1, SliceType
<1> HIDE DEF s, t, u
<1>3. /\ s \o t \in Seq(Nat) /\ Len(s \o t) = (b - a) + (c - b)
      /\ \A m \in 1 .. (b - a) + (c - b) : (s \o t)[m] = IF m <= b - a THEN s[m] ELSE t[m - (b - a)]
  <2>1. /\ s \o t \in Seq(Nat) /\ Len(s \o t) = Len(s) + Len(t)
        /\ \A m \in 1 .. Len(s) + Len(t) : (s \o t)[m] = IF m <= Len(s) THEN s[m] ELSE t[m - Len(s)]
    BY <1>2, ConcatProperties
  <2>2. Len(s) = b - a /\ Len(t) = c - b
    BY <1>2
  <2> QED
    BY <2>1, <2>2, Zenon
<1>4. (b - a) + (c - b) = c - a
  OBVIOUS
<1>5. ASSUME NEW m \in 1 .. c - a
      PROVE  (s \o t)[m] = u[m]
  <2>1. CASE m <= b - a
    BY <1>2, <1>3, <1>4, <2>1
  <2>2. CASE ~ m <= b - a
    <3>1. m - (b - a) \in 1 .. c - b /\ b + (m - (b - a)) = a + m
      BY <2>2
    <3> QED
      BY <1>2, <1>3, <1>4, <2>2, <3>1
  <2> QED
    BY <2>1, <2>2
<1>6. s \o t = u
  BY <1>2, <1>3, <1>4, <1>5, SeqEqual
<1> QED
  BY <1>6 DEF s, t, u

(* FlattenSeq is the last element of the sequence of its partial results.  *)
LEMMA FlattenIs ==
    ASSUME NEW seqs, NEW g, Len(seqs) \in Positive,
           g = [i \in 1 .. Len(seqs) |-> IF i = 1 THEN seqs[i] ELSE g[i - 1] \o seqs[i]]
    PROVE  FlattenSeq(seqs) = g[Len(seqs)]
<1> DEFINE n == Len(seqs)
           Is(f) == f = [i \in 1 .. n |-> IF i = 1 THEN seqs[i] ELSE f[i - 1] \o seqs[i]]
           f == CHOOSE f : Is(f)
           S == {i \in Nat : i + 1 <= n => f[i + 1] = g[i + 1]}
<1> HIDE DEF n
<1>1. n \in Nat /\ n >= 1
  BY DEF Positive, n
<1>2. Is(f) /\ Is(g)
  <2>1. Is(g)
    BY DEF n
  <2> HIDE DEF Is
  <2> QED
    BY <2>1
<1> HIDE DEF f
<1>3. /\ \A i \in 1 .. n : f[i] = IF i = 1 THEN seqs[i] ELSE f[i - 1] \o seqs[i]
      /\ \A i \in 1 .. n : g[i] = IF i = 1 THEN seqs[i] ELSE g[i - 1] \o seqs[i]
  BY <1>2
<1>4. n - 1 \in S
  <2>1. 0 \in S
    <3>1. 1 \in 1 .. n /\ 0 + 1 = 1
      BY <1>1
    <3>2. f[1] = seqs[1] /\ g[1] = seqs[1]
      BY <1>3, <3>1
    <3> QED
      BY <3>1, <3>2
  <2>2. ASSUME NEW i \in Nat, i \in S
        PROVE  i + 1 \in S
    <3>1. ASSUME NEW j, j = (i + 1) + 1, j <= n
          PROVE  f[j] = g[j]
      <4>1. j \in 1 .. n /\ j # 1 /\ j - 1 = i + 1 /\ i + 1 <= n
        BY <1>1, <3>1
      <4>2. f[j - 1] = g[j - 1]
        BY <2>2, <4>1
      <4>3. f[j] = f[j - 1] \o seqs[j] /\ g[j] = g[j - 1] \o seqs[j]
        BY <1>3, <4>1
      <4> QED
        BY <4>2, <4>3
    <3>2. i + 1 \in Nat
      OBVIOUS
    <3> QED
      BY <3>1, <3>2
  <2> HIDE DEF S
  <2> QED
    BY <1>1, <2>1, <2>2, SetInduction
<1>5. f[n] = g[n]
  BY <1>1, <1>4
<1>6. FlattenSeq(seqs) = f[n]
  BY <1>1 DEF FlattenSeq, f, n
<1> QED
  BY <1>5, <1>6 DEF n

(* The loop of custom_read, unrolled.                                      *)
LEMMA ReadIsSlice ==
    ASSUME NEW blocks \in Seq(Bytes), NEW offset \in Nat, NEW n \in Nat, There(Parts(offset, n), blocks)
    PROVE  LET parts == Parts(offset, n)
           IN  /\ FlattenSeq([i \in DOMAIN parts |->
                      SubSeq(blocks[parts[i].block], parts[i].at + 1, parts[i].at + parts[i].len)])
                   = Slice(blocks, offset, offset + n)
               /\ offset + n <= Room(blocks)
<1> DEFINE parts == Parts(offset, n)
           seqs == [i \in DOMAIN parts |->
                      SubSeq(blocks[parts[i].block], parts[i].at + 1, parts[i].at + parts[i].len)]
           c == Count(offset, n)
           g == [i \in 1 .. c |-> Slice(blocks, offset, Upto(offset, n, i))]
<1>1. /\ c \in Positive /\ DOMAIN parts = 1 .. c /\ Len(seqs) = c
      /\ From(offset, 1) = offset /\ Upto(offset, n, c) = offset + n
      /\ \A i \in 2 .. c : From(offset, i) = Upto(offset, n, i - 1)
  <2>1. /\ c \in Positive /\ DOMAIN parts = 1 .. c
        /\ From(offset, 1) = offset /\ Upto(offset, n, c) = offset + n
        /\ \A i \in 2 .. c : From(offset, i) = Upto(offset, n, i - 1)
    BY PartsJoin
  <2>2. Len(seqs) = c
    <3>1. seqs \in [1 .. c -> {seqs[i] : i \in 1 .. c}] /\ c \in Nat
      BY <2>1 DEF Positive
    <3> HIDE DEF seqs
    <3> QED
      BY <3>1, FcnIsSeq
  <2> QED
    BY <2>1, <2>2
<1> HIDE DEF c
<1>2. offset + n <= Room(blocks)
  <2>1. /\ LastBlock(offset, n) \in Nat /\ (offset + n) % BLOCK_SIZE \in 0 .. BLOCK_SIZE - 1
        /\ offset + n = Base(LastBlock(offset, n) + 1) + ((offset + n) % BLOCK_SIZE)
    <3>1. offset + n \in Nat
      OBVIOUS
    <3> QED
      BY <3>1, QuotientFacts DEF LastBlock
  <2>2. LastBlock(offset, n) + 1 <= Len(blocks) /\ Len(blocks) \in Nat
    BY PartsThere, LenProperties
  <2>3. LastBlock(offset, n) + 1 \in 1 .. Len(blocks) /\ BLOCK_SIZE \in 1 .. BLOCK_SIZE
    BY <2>1, <2>2, SizeFacts
  <2>4. Base(LastBlock(offset, n) + 1) + BLOCK_SIZE <= Room(blocks) /\ Room(blocks) \in Nat
    BY <2>3, RoomFacts
  <2>5. Base(LastBlock(offset, n) + 1) \in Nat
    BY <2>1, BaseFacts DEF Positive
  <2> QED
    BY <2>1, <2>4, <2>5, SizeFacts
<1>3. ASSUME NEW i \in 1 .. c
      PROVE  /\ offset <= From(offset, i) /\ From(offset, i) <= Upto(offset, n, i) /\ Upto(offset, n, i) <= Room(blocks)
             /\ From(offset, i) \in Nat /\ Upto(offset, n, i) \in Nat
             /\ seqs[i] = Slice(blocks, From(offset, i), Upto(offset, n, i))
  <2> DEFINE p == parts[i]
             from == From(offset, i)
             to == Upto(offset, n, i)
  <2>1. /\ offset <= from /\ from <= to /\ to <= offset + n /\ from \in Nat /\ to \in Nat
    BY PartsInOrder DEF c
  <2>2. /\ p.block \in Positive /\ p.at \in Nat /\ p.len \in Nat /\ p.at + p.len <= BLOCK_SIZE
        /\ Base(p.block) + p.at = from /\ from + p.len = to
    BY PartFacts DEF c
  <2>3. p.block <= Len(blocks) /\ Len(blocks) \in Nat /\ blocks \in [1 .. Len(blocks) -> Bytes]
    BY <1>1, LenProperties DEF There
  <2>4. seqs[i] = SubSeq(blocks[p.block], p.at + 1, p.at + p.len)
    BY <1>1
  <2>5. to <= Room(blocks)
    BY <1>2, <2>1, RoomFacts
  <2>6. Slice(blocks, from, to) \in Seq(Nat) /\ Len(Slice(blocks, from, to)) = to - from
    BY <2>1, <2>5, SliceType
  <2> HIDE DEF p, from, to
  <2>7. blocks[p.block] \in Bytes /\ Base(p.block) \in Nat
    <3>1. p.block \in 1 .. Len(blocks)
      BY <2>2, <2>3 DEF Positive
    <3> QED
      BY <2>2, <2>3, <3>1, BaseFacts
  <2>8. /\ SubSeq(blocks[p.block], p.at + 1, p.at + p.len) \in Seq(Nat)
        /\ Len(SubSeq(blocks[p.block], p.at + 1, p.at + p.len)) = p.len
        /\ \A m \in 1 .. p.len : SubSeq(blocks[p.block], p.at + 1, p.at + p.len)[m] = blocks[p.block][p.at + m]
    <3> DEFINE q == p.at + 1
               r == p.at + p.len
    <3>0. p.at \in Nat /\ p.len \in Nat /\ p.at + p.len <= BLOCK_SIZE
      BY <2>2
    <3>1. q \in Int /\ r \in Int /\ \A m \in q .. r : blocks[p.block][m] \in Nat
      <4>1. \A m \in q .. r : m \in 1 .. BLOCK_SIZE
        BY <3>0, SizeFacts
      <4>2. \A m \in 1 .. BLOCK_SIZE : blocks[p.block][m] \in Nat
        BY <2>7 DEF Bytes
      <4> QED
        BY <3>0, <4>1, <4>2
    <3>2. r - q + 1 = p.len /\ (IF q <= r THEN r - q + 1 ELSE 0) = p.len /\ \A m \in 1 .. p.len : q + m - 1 = p.at + m
      <4>1. \A at, len \in Nat : /\ (at + len) - (at + 1) + 1 = len
                               /\ (IF at + 1 <= at + len THEN (at + len) - (at + 1) + 1 ELSE 0) = len
                               /\ \A m \in 1 .. len : (at + 1) + m - 1 = at + m
        OBVIOUS
      <4> QED
        BY <3>0, <4>1
    <3> HIDE DEF q, r
    <3>3. /\ SubSeq(blocks[p.block], q, r) \in Seq(Nat)
          /\ Len(SubSeq(blocks[p.block], q, r)) = IF q <= r THEN r - q + 1 ELSE 0
          /\ \A m \in 1 .. r - q + 1 : SubSeq(blocks[p.block], q, r)[m] = blocks[p.block][q + m - 1]
      BY <3>1, SubSeqProperties
    <3>4. /\ SubSeq(blocks[p.block], q, r) \in Seq(Nat)
          /\ Len(SubSeq(blocks[p.block], q, r)) = p.len
          /\ \A m \in 1 .. p.len : SubSeq(blocks[p.block], q, r)[m] = blocks[p.block][p.at + m]
      BY <3>2, <3>3
    <3> QED
      BY <3>4 DEF q, r
  <2>9. ASSUME NEW m \in 1 .. p.len
        PROVE  blocks[p.block][p.at + m] = Slice(blocks, from, to)[m]
    <3>1. p.at + m \in 1 .. BLOCK_SIZE /\ m \in 1 .. to - from /\ Base(p.block) + (p.at + m) = from + m
      <4> DEFINE base == Base(p.block)
                 at == p.at
                 len == p.len
      <4>1. /\ base \in Nat /\ at \in Nat /\ len \in Nat /\ at + len <= BLOCK_SIZE
            /\ from = base + at /\ to = (base + at) + len /\ m \in Nat /\ m >= 1 /\ m <= len
        BY <2>2, <2>7
      <4> HIDE DEF base, at, len
      <4>2. at + m \in 1 .. BLOCK_SIZE
        BY <4>1, SizeFacts
      <4>3. to - from = len
        BY <4>1
      <4>4. base + (at + m) = from + m
        BY <4>1
      <4>5. m \in 1 .. to - from
        BY <4>1, <4>3
      <4> QED
        BY <4>2, <4>4, <4>5 DEF base, at
    <3>2. Byte(blocks, Base(p.block) + (p.at + m)) = blocks[p.block][p.at + m]
      BY <2>2, <3>1, ByteAt
    <3> QED
      BY <3>1, <3>2 DEF Slice
  <2>10. to - from = p.len
    BY <2>1, <2>2
  <2>11. seqs[i] = Slice(blocks, from, to)
    BY <2>4, <2>6, <2>8, <2>9, <2>10, SeqEqual
  <2> QED
    BY <2>1, <2>5, <2>11 DEF from, to
<1> HIDE DEF seqs, parts
<1>4. g = [i \in 1 .. Len(seqs) |-> IF i = 1 THEN seqs[i] ELSE g[i - 1] \o seqs[i]]
  <2>1. ASSUME NEW i \in 1 .. c
        PROVE  g[i] = IF i = 1 THEN seqs[i] ELSE g[i - 1] \o seqs[i]
    <3>1. CASE i = 1
      BY <1>1, <1>3, <3>1
    <3>2. CASE i # 1
      <4>1. i \in 2 .. c /\ i - 1 \in 1 .. c
        BY <1>1, <3>2 DEF Positive
      <4>2. /\ g[i] = Slice(blocks, offset, Upto(offset, n, i))
            /\ g[i - 1] = Slice(blocks, offset, From(offset, i))
        BY <1>1, <4>1
      <4>3. Slice(blocks, offset, From(offset, i)) \o Slice(blocks, From(offset, i), Upto(offset, n, i))
              = Slice(blocks, offset, Upto(offset, n, i))
        BY <1>3, SlicesJoin
      <4> HIDE DEF g
      <4> QED
        BY <1>3, <3>2, <4>2, <4>3
    <3> QED
      BY <3>1, <3>2
  <2>2. g = [i \in 1 .. c |-> g[i]]
    OBVIOUS
  <2> HIDE DEF g
  <2> QED
    BY <1>1, <2>1, <2>2
<1>5. FlattenSeq(seqs) = g[c]
  <2> HIDE DEF g
  <2> QED
    BY <1>1, <1>4, FlattenIs
<1>6. g[c] = Slice(blocks, offset, offset + n)
  <2>1. c \in 1 .. c
    BY <1>1 DEF Positive
  <2> QED
    BY <1>1, <2>1
<1> QED
  BY <1>2, <1>5, <1>6 DEF seqs, parts

-----------------------------------------------------------------------------
(* The results of the calls                                                *)

Node == [file_size : Nat, blocks : Seq(Bytes)]

\* A file has a block for its next byte, unless it never had one.
Regular(node) ==
    /\ node \in Node
    /\ node.file_size = 0 => Len(node.blocks) <= 1
    /\ node.file_size # 0 => Len(node.blocks) = node.file_size \div BLOCK_SIZE + 1

\* The lesser and the greater of two numbers.
LEMMA MinMax ==
    ASSUME NEW a \in Int, NEW b \in Int
    PROVE  Min({a, b}) = (IF a <= b THEN a ELSE b) /\ Max({a, b}) = (IF a <= b THEN b ELSE a)
<1>1. Min({a, b}) \in {a, b} /\ \A y \in {a, b} : Min({a, b}) <= y
  <2>1. \E x \in {a, b} : \A y \in {a, b} : x <= y
    OBVIOUS
  <2> QED
    BY <2>1 DEF Min
<1>2. Max({a, b}) \in {a, b} /\ \A y \in {a, b} : Max({a, b}) >= y
  <2>1. \E x \in {a, b} : \A y \in {a, b} : x >= y
    OBVIOUS
  <2> QED
    BY <2>1 DEF Max
<1> QED
  BY <1>1, <1>2

\* The blocks of a file with bytes go up to the one of its next byte.
LEMMA RegularFacts ==
    ASSUME NEW node, Regular(node)
    PROVE  /\ node.file_size \in Nat /\ node.blocks \in Seq(Bytes) /\ Len(node.blocks) \in Nat
           /\ node.file_size <= Room(node.blocks)
           /\ \A end \in Nat : end <= node.file_size /\ node.file_size # 0 => end \div BLOCK_SIZE + 1 <= Len(node.blocks)
           /\ \A end \in Nat : end > node.file_size => Len(node.blocks) <= end \div BLOCK_SIZE + 1
<1> DEFINE size == node.file_size
           q == size \div BLOCK_SIZE
<1>1. size \in Nat /\ node.blocks \in Seq(Bytes) /\ Len(node.blocks) \in Nat
  BY LenProperties DEF Regular, Node
<1>2. q \in Nat /\ size % BLOCK_SIZE \in 0 .. BLOCK_SIZE - 1 /\ size = Base(q + 1) + (size % BLOCK_SIZE)
  BY <1>1, QuotientFacts
<1>3. size <= Room(node.blocks)
  <2>1. CASE size = 0
    BY <1>1, <2>1, RoomFacts
  <2>2. CASE size # 0
    <3>1. Room(node.blocks) = Base(q + 1 + 1)
      BY <2>2 DEF Room, Regular
    <3> HIDE DEF q, size
    <3>2. q + 1 \in Positive
      BY <1>2 DEF Positive
    <3>3. Base(q + 1) \in Nat /\ Base(q + 1 + 1) = Base(q + 1) + BLOCK_SIZE
      BY <3>2, BaseFacts
    <3> QED
      BY <1>1, <1>2, <3>1, <3>3, SizeFacts
  <2> QED
    BY <2>1, <2>2
<1>4. ASSUME NEW end \in Nat, end <= size, size # 0
      PROVE  end \div BLOCK_SIZE + 1 <= Len(node.blocks)
  <2>1. end \div BLOCK_SIZE <= q /\ end \div BLOCK_SIZE \in Nat
    BY <1>1, <1>4, QuotientsOrdered, QuotientFacts
  <2>2. Len(node.blocks) = q + 1
    BY <1>4 DEF Regular
  <2> HIDE DEF q
  <2> QED
    BY <1>2, <2>1, <2>2
<1>5. ASSUME NEW end \in Nat, end > size
      PROVE  Len(node.blocks) <= end \div BLOCK_SIZE + 1
  <2>1. q <= end \div BLOCK_SIZE /\ end \div BLOCK_SIZE \in Nat
    <3>1. size <= end
      BY <1>1, <1>5
    <3> QED
      BY <1>1, <3>1, QuotientsOrdered, QuotientFacts
  <2>2. CASE size = 0
    <3>1. Len(node.blocks) <= 1
      BY <2>2 DEF Regular
    <3> QED
      BY <1>1, <2>1, <3>1
  <2>3. CASE size # 0
    <3>1. Len(node.blocks) = q + 1
      BY <2>3 DEF Regular
    <3> HIDE DEF q
    <3> QED
      BY <1>1, <1>2, <2>1, <3>1
  <2> QED
    BY <2>2, <2>3
<1> QED
  BY <1>1, <1>3, <1>4, <1>5

\* The number of bytes that a read inside a file goes through.
LEMMA ReadLength ==
    ASSUME NEW node, node.file_size \in Nat, NEW n \in Nat, NEW offset \in Nat, offset <= node.file_size
    PROVE  LET size == node.file_size
               end == IF offset + n <= size THEN offset + n ELSE size
               m == Within(node, n, offset)
           IN  m = end - offset /\ end \in offset .. size /\ m \in Nat /\ offset + m = end
<1> DEFINE size == node.file_size
           m == Within(node, n, offset)
<1>1. m = IF n <= size - offset THEN n ELSE size - offset
  <2>1. n \in Int /\ size - offset \in Int
    OBVIOUS
  <2> QED
    BY <2>1, MinMax DEF Within
<1>2. size \in Nat
  OBVIOUS
<1>3. offset <= size
  OBVIOUS
<1> HIDE DEF m, size
<1>4. LET end == IF offset + n <= size THEN offset + n ELSE size
      IN  m = end - offset /\ end \in offset .. size /\ m \in Nat /\ offset + m = end
  BY <1>1, <1>2, <1>3
<1> QED
  BY <1>4 DEF m, size

\* Its blocks are there, the one behind a border at its end included.
LEMMA ReadThere ==
    ASSUME NEW node, Regular(node), node.file_size # 0, NEW n \in Nat, NEW offset \in Nat, offset <= node.file_size
    PROVE  There(Parts(offset, Within(node, n, offset)), node.blocks)
<1> DEFINE size == node.file_size
           end == IF offset + n <= size THEN offset + n ELSE size
           m == Within(node, n, offset)
<1>1. size \in Nat /\ node.blocks \in Seq(Bytes)
  BY RegularFacts
<1>2. end \in offset .. size /\ m \in Nat /\ offset + m = end
  BY <1>1, ReadLength
<1>3. end \div BLOCK_SIZE + 1 <= Len(node.blocks)
  <2>1. end \in Nat /\ end <= size
    BY <1>1, <1>2
  <2> HIDE DEF end
  <2> QED
    BY <2>1, RegularFacts
<1>4. There(Parts(offset, m), node.blocks) <=> LastBlock(offset, m) + 1 <= Len(node.blocks)
  <2> HIDE DEF m
  <2> QED
    BY <1>1, <1>2, PartsThere
<1>5. LastBlock(offset, m) = end \div BLOCK_SIZE
  BY <1>2 DEF LastBlock
<1> QED
  BY <1>3, <1>4, <1>5

(* A read of a file returns the bytes it asks for, as far as there are any.*)
LEMMA ReadGives ==
    ASSUME NEW node, Regular(node), NEW n \in Nat, NEW offset \in Nat \cup {Failed},
           NEW r \in ReadResults(node, n, offset)
    PROVE  LET size == node.file_size
               end == IF offset + n <= size THEN offset + n ELSE size
           IN  \/ r = NoBytes /\ size # 0 /\ (IOFaults \/ offset = Failed \/ offset > size)
               \/ size = 0 /\ r = Got(<<>>)
               \/ size # 0 /\ offset \in 0 .. size /\ end \in offset .. size /\ r = Got(Slice(node.blocks, offset, end))
<1> DEFINE size == node.file_size
           end == IF offset + n <= size THEN offset + n ELSE size
           m == Within(node, n, offset)
           parts == Parts(offset, m)
           bytes == FlattenSeq([i \in DOMAIN parts |->
                       SubSeq(node.blocks[parts[i].block], parts[i].at + 1, parts[i].at + parts[i].len)])
<1>1. size \in Nat /\ node.blocks \in Seq(Bytes)
  BY RegularFacts
<1>2. CASE size = 0
  BY <1>2 DEF ReadResults
<1>3. CASE size # 0 /\ Exceeds(offset, size)
  <2>1. r = NoBytes
    BY <1>3 DEF ReadResults
  <2> QED
    BY <1>1, <1>3, <2>1 DEF Exceeds
<1>4. CASE size # 0 /\ ~ Exceeds(offset, size)
  <2>1. offset \in Nat /\ offset \in 0 .. size
    BY <1>1, <1>4 DEF Exceeds
  <2>2. m = end - offset /\ end \in offset .. size /\ m \in Nat /\ offset + m = end
    <3>1. offset \in Nat /\ offset <= node.file_size /\ node.file_size \in Nat
      BY <1>1, <2>1
    <3> HIDE <2>1
    <3> QED
      BY <3>1, ReadLength
  <2>3. There(parts, node.blocks)
    BY <1>1, <1>4, <2>1, ReadThere
  <2>4. bytes = Slice(node.blocks, offset, end)
    <3> HIDE DEF m
    <3>1. bytes = Slice(node.blocks, offset, offset + m)
      BY <1>1, <2>1, <2>2, <2>3, ReadIsSlice
    <3> QED
      BY <2>2, <3>1
  <2>5. r \in {Got(bytes)} \cup (IF IOFaults THEN {NoBytes} ELSE {})
    BY <1>4, <2>3 DEF ReadResults
  <2>6. r = Got(bytes) \/ (r = NoBytes /\ IOFaults)
    <3> HIDE DEF bytes
    <3> QED
      BY <2>5
  <2> HIDE DEF bytes, end
  <2> QED
    BY <1>4, <2>1, <2>2, <2>4, <2>6 DEF end
<1> QED
  BY <1>2, <1>3, <1>4

\* A read that begins inside a file can succeed.
LEMMA ReadSucceeds ==
    ASSUME NEW node, Regular(node), NEW n \in Nat, NEW offset \in Nat, offset <= node.file_size
    PROVE  \E r \in ReadResults(node, n, offset) : r # NoBytes
<1>1. \A bytes : Got(bytes) # NoBytes
  <2> SUFFICES ASSUME NEW bytes, Got(bytes) = NoBytes
               PROVE  FALSE
    OBVIOUS
  <2>1. Got(bytes).n = Len(bytes) /\ Got(bytes).bytes = bytes /\ NoBytes.n = Failed /\ NoBytes.bytes = <<>>
    BY DEF Got, NoBytes
  <2>2. Len(<<>>) = Failed
    BY <2>1
  <2> QED
    BY <2>2 DEF Failed
<1>2. CASE node.file_size = 0
  BY <1>1, <1>2 DEF ReadResults
<1>3. CASE node.file_size # 0
  <2>1. There(Parts(offset, Within(node, n, offset)), node.blocks)
    BY <1>3, ReadThere
  <2>2. ~ Exceeds(offset, node.file_size)
    BY RegularFacts DEF Exceeds, Failed
  <2>3. \E bytes : Got(bytes) \in ReadResults(node, n, offset)
    BY <1>3, <2>1, <2>2 DEF ReadResults
  <2> QED
    BY <1>1, <2>3
<1> QED
  BY <1>2, <1>3

\* Blocks of zeros behind the others change no byte and bring zeros.
LEMMA ZeroBlocksAdded ==
    ASSUME NEW blocks \in Seq(Bytes), NEW m \in Nat
    PROVE  LET grown == blocks \o [i \in 1 .. m |-> ZeroBlock]
           IN  /\ grown \in Seq(Bytes) /\ Len(grown) = Len(blocks) + m
               /\ Room(blocks) \in Nat /\ Room(grown) \in Nat /\ Room(blocks) <= Room(grown)
               /\ \A i \in Positive : i <= Room(grown) =>
                     Byte(grown, i) = IF i <= Room(blocks) THEN Byte(blocks, i) ELSE 0
<1> DEFINE zeros == [i \in 1 .. m |-> ZeroBlock]
           grown == blocks \o zeros
<1>1. zeros \in Seq(Bytes) /\ Len(zeros) = m
  <2>1. zeros \in [1 .. m -> Bytes]
    BY DEF ZeroBlock, Bytes
  <2> HIDE DEF zeros
  <2> QED
    BY <2>1, FcnIsSeq
<1>2. \A i \in 1 .. m : zeros[i] = ZeroBlock
  OBVIOUS
<1> HIDE DEF zeros
<1>3. /\ grown \in Seq(Bytes) /\ Len(grown) = Len(blocks) + m /\ Len(blocks) \in Nat
      /\ \A b \in 1 .. Len(blocks) + m : grown[b] = IF b <= Len(blocks) THEN blocks[b] ELSE zeros[b - Len(blocks)]
  BY <1>1, ConcatProperties, LenProperties
<1> HIDE DEF grown
<1>4. Room(blocks) \in Nat /\ Room(grown) \in Nat
  BY <1>3, RoomFacts
<1>5. Room(blocks) <= Room(grown)
  <2>1. CASE m = 0
    <3>1. Len(grown) = Len(blocks)
      BY <1>3, <2>1
    <3> QED
      BY <1>4, <3>1 DEF Room
  <2>2. CASE m # 0
    <3>1. Len(blocks) + 1 \in Positive /\ Len(grown) + 1 \in Positive /\ Len(blocks) + 1 < Len(grown) + 1
      BY <1>3, <2>2 DEF Positive
    <3>2. Room(blocks) + BLOCK_SIZE <= Room(grown)
      BY <3>1, BaseFacts DEF Room
    <3> QED
      BY <1>4, <3>2, SizeFacts
  <2> QED
    BY <2>1, <2>2
<1>6. ASSUME NEW i \in Positive, i <= Room(grown)
      PROVE  Byte(grown, i) = IF i <= Room(blocks) THEN Byte(blocks, i) ELSE 0
  <2> DEFINE b == BlockOf(i)
             j == PlaceOf(i)
  <2>1. b \in 1 .. Len(grown) /\ j \in 1 .. BLOCK_SIZE /\ i = Base(b) + j /\ Byte(grown, i) = grown[b][j]
    BY <1>3, <1>6, ByteInBlock
  <2>2. CASE i <= Room(blocks)
    <3>1. b \in 1 .. Len(blocks) /\ Byte(blocks, i) = blocks[b][j]
      BY <2>2, ByteInBlock
    <3>2. grown[b] = blocks[b]
      BY <1>3, <2>1, <3>1
    <3> QED
      BY <2>1, <2>2, <3>1, <3>2
  <2>3. CASE ~ i <= Room(blocks)
    <3> HIDE DEF b, j
    <3>1. ~ b <= Len(blocks)
      <4>1. b \in 1 .. Len(blocks) => Base(b) + j <= Room(blocks)
        BY <2>1, RoomFacts
      <4> QED
        BY <1>3, <2>1, <2>3, <4>1
    <3>2. b - Len(blocks) \in 1 .. m
      BY <1>3, <2>1, <3>1
    <3>3. grown[b] = ZeroBlock
      BY <1>2, <1>3, <2>1, <3>1, <3>2
    <3> QED
      BY <2>1, <2>3, <3>3 DEF ZeroBlock
  <2> QED
    BY <2>2, <2>3
<1> QED
  BY <1>3, <1>4, <1>5, <1>6 DEF grown, zeros

\* A patched byte is that of the buffer, any other is as before.
LEMMA PatchBytes ==
    ASSUME NEW blocks \in Seq(Bytes), NEW offset \in Nat, NEW bytes \in Seq(Nat),
           NEW end \in Nat, end <= offset + Len(bytes), NEW i \in Positive, i <= Room(blocks)
    PROVE  Byte(Patch(blocks, offset, bytes, end), i) =
             IF i > offset /\ i <= end THEN bytes[i - offset] ELSE Byte(blocks, i)
<1> DEFINE b == BlockOf(i)
           j == PlaceOf(i)
           patch == Patch(blocks, offset, bytes, end)
<1>1. patch \in Seq(Bytes) /\ Len(patch) = Len(blocks)
  BY PatchType
<1>2. Room(patch) = Room(blocks)
  BY <1>1 DEF Room
<1>3. /\ b \in 1 .. Len(blocks) /\ j \in 1 .. BLOCK_SIZE /\ i = Base(b) + j
      /\ Byte(blocks, i) = blocks[b][j] /\ Byte(patch, i) = patch[b][j]
  <2> HIDE DEF patch
  <2> QED
    BY <1>1, <1>2, ByteInBlock
<1> HIDE DEF b, j
<1>4. patch[b][j] = IF Base(b) + j > offset /\ Base(b) + j <= end THEN bytes[Base(b) + j - offset] ELSE blocks[b][j]
  BY <1>3 DEF Patch
<1>5. patch[b][j] = IF i > offset /\ i <= end THEN bytes[i - offset] ELSE blocks[b][j]
  <2>1. Base(b) + j = i /\ Base(b) \in Nat /\ j \in Nat /\ i \in Nat
    <3>1. b \in Positive /\ j \in Nat
      BY <1>3, SizeFacts, LenProperties DEF Positive
    <3> QED
      BY <1>3, <3>1, BaseFacts DEF Positive
  <2> HIDE DEF patch
  <2> QED
    BY <1>4, <2>1
<1> HIDE DEF patch
<1>6. Byte(patch, i) = IF i > offset /\ i <= end THEN bytes[i - offset] ELSE Byte(blocks, i)
  BY <1>3, <1>5, Zenon
<1> QED
  BY <1>6 DEF patch

\* The blocks a truncation keeps are unchanged.
LEMMA KeptBytes ==
    ASSUME NEW blocks \in Seq(Bytes), NEW m \in 0 .. Len(blocks)
    PROVE  LET kept == SubSeq(blocks, 1, m)
           IN  /\ kept \in Seq(Bytes) /\ Len(kept) = m /\ Room(kept) \in Nat /\ Room(kept) <= Room(blocks)
               /\ \A b \in 1 .. m : kept[b] = blocks[b]
               /\ \A i \in Positive : i <= Room(kept) => Byte(kept, i) = Byte(blocks, i)
<1> DEFINE kept == SubSeq(blocks, 1, m)
<1>1. Len(blocks) \in Nat /\ blocks \in [1 .. Len(blocks) -> Bytes] /\ m \in Nat /\ m <= Len(blocks)
  BY LenProperties
<1>2. kept \in Seq(Bytes) /\ Len(kept) = m /\ \A b \in 1 .. m : kept[b] = blocks[b]
  <2>1. 1 \in Int /\ m \in Int /\ \A b \in 1 .. m : blocks[b] \in Bytes
    BY <1>1
  <2>2. /\ kept \in Seq(Bytes) /\ Len(kept) = IF 1 <= m THEN m - 1 + 1 ELSE 0
        /\ \A b \in 1 .. m - 1 + 1 : kept[b] = blocks[1 + b - 1]
    BY <2>1, SubSeqProperties
  <2> HIDE DEF kept
  <2>3. (IF 1 <= m THEN m - 1 + 1 ELSE 0) = m /\ m - 1 + 1 = m /\ \A b \in 1 .. m : 1 + b - 1 = b
    BY <1>1
  <2> QED
    BY <2>2, <2>3
<1> HIDE DEF kept
<1>3. Room(kept) \in Nat /\ Room(blocks) \in Nat
  BY <1>2, RoomFacts
<1>4. Room(kept) <= Room(blocks)
  <2>1. CASE m = Len(blocks)
    BY <1>2, <1>3, <2>1 DEF Room
  <2>2. CASE m # Len(blocks)
    <3>1. m + 1 \in Positive /\ Len(blocks) + 1 \in Positive /\ m + 1 < Len(blocks) + 1
      <4>1. \A k, l \in Nat : k <= l /\ k # l => k + 1 \in Nat \ {0} /\ l + 1 \in Nat \ {0} /\ k + 1 < l + 1
        OBVIOUS
      <4> QED
        BY <1>1, <2>2, <4>1 DEF Positive
    <3>2. Base(m + 1) + BLOCK_SIZE <= Base(Len(blocks) + 1)
      BY <3>1, BaseFacts
    <3> QED
      BY <1>2, <1>3, <3>2, SizeFacts DEF Room
  <2> QED
    BY <2>1, <2>2
<1>5. ASSUME NEW i \in Positive, i <= Room(kept)
      PROVE  Byte(kept, i) = Byte(blocks, i)
  <2>1. BlockOf(i) \in 1 .. m /\ Byte(kept, i) = kept[BlockOf(i)][PlaceOf(i)]
    BY <1>2, <1>5, ByteInBlock
  <2>2. Byte(blocks, i) = blocks[BlockOf(i)][PlaceOf(i)]
    BY DEF Byte, BlockOf, PlaceOf
  <2> QED
    BY <1>2, <2>1, <2>2
<1> QED
  BY <1>2, <1>3, <1>4, <1>5 DEF kept

\* The blocks new are old with the bytes written behind the first offset ones, as far as m of them.
Overwritten(old, new, offset, bytes, m) ==
    \A i \in Positive : i <= Room(new) =>
       Byte(new, i) = IF i > offset /\ i <= offset + m THEN bytes[i - offset]
                      ELSE IF i <= Room(old) THEN Byte(old, i) ELSE 0

Succeeded(node, r, offset, bytes) ==
    /\ r.n = Len(bytes)
    /\ r.node.file_size = (IF offset + Len(bytes) <= node.file_size THEN node.file_size ELSE offset + Len(bytes))
    /\ Room(node.blocks) <= Room(r.node.blocks)
    /\ Overwritten(node.blocks, r.node.blocks, offset, bytes, Len(bytes))

Missed(node, r, offset, bytes) ==
    /\ r.n = Failed /\ r.node.file_size = node.file_size /\ Len(r.node.blocks) = Len(node.blocks)
    /\ \E m \in 0 .. Len(bytes) : Overwritten(node.blocks, r.node.blocks, offset, bytes, m)

\* A write that got nowhere changed nothing.
LEMMA NothingOverwritten ==
    ASSUME NEW blocks, NEW offset \in Nat, NEW bytes
    PROVE  Overwritten(blocks, blocks, offset, bytes, 0)
<1>1. ASSUME NEW i \in Positive
      PROVE  ~ (i > offset /\ i <= offset + 0)
  BY DEF Positive
<1> QED
  BY <1>1 DEF Overwritten

(* A write succeeds, or it leaves some of its bytes and no other change.   *)
(* It takes as many blocks as the file gets, and perhaps loses some.       *)
LEMMA WriteGives ==
    ASSUME NEW node, Regular(node), NEW bytes \in Seq(Nat), Len(bytes) # 0, NEW offset \in Nat,
           room \in Nat, NEW r \in WriteResults(node, bytes, offset)
    PROVE  /\ Regular(r.node) /\ r.room \in Nat
           /\ Len(node.blocks) <= Len(r.node.blocks)
           /\ r.room + Len(r.node.blocks) <= room + Len(node.blocks)
           /\ Succeeded(node, r, offset, bytes) \/ Missed(node, r, offset, bytes)
<1> DEFINE n == Len(bytes)
           size == node.file_size
           old == node.blocks
           end == offset + n
           missing == MissingBlocks(node, end)
           grown == old \o [i \in 1 .. missing |-> ZeroBlock]
           parts == Parts(offset, n)
           after(k) == SubSeq(Filled(grown, parts, k, bytes), 1, Len(old))
           whole == [file_size |-> Max({end, size}), blocks |-> Filled(grown, parts, Len(parts), bytes)]
           Rest(k) == [n |-> Failed, room |-> room - missing, node |-> [node EXCEPT !.blocks = after(k)]]
<1>1. /\ n \in Nat /\ n > 0 /\ size \in Nat /\ old \in Seq(Bytes) /\ Len(old) \in Nat
      /\ end \in Nat /\ end > offset /\ end > 0 /\ end \div BLOCK_SIZE \in Nat
  <2>1. n \in Nat /\ n > 0
    BY LenProperties
  <2>2. end \in Nat /\ end > offset /\ end > 0
    BY <2>1
  <2>3. end \div BLOCK_SIZE \in Nat
    <3> HIDE DEF end
    <3> QED
      BY <2>2, QuotientFacts
  <2> QED
    BY <2>1, <2>2, <2>3, RegularFacts
<1>2. missing \in Nat /\ (end > size => Len(old) + missing = end \div BLOCK_SIZE + 1) /\ (~ end > size => missing = 0)
  <2>1. CASE end > size
    <3>1. Len(old) <= end \div BLOCK_SIZE + 1
      <4> HIDE DEF end
      <4> QED
        BY <1>1, <2>1, RegularFacts
    <3>2. missing = end \div BLOCK_SIZE - Len(old) + 1
      BY <2>1 DEF MissingBlocks
    <3> HIDE DEF missing, end, old
    <3> QED
      BY <1>1, <2>1, <3>1, <3>2
  <2>2. CASE ~ end > size
    <3>1. missing = 0
      BY <2>2 DEF MissingBlocks
    <3> QED
      BY <2>2, <3>1
  <2> QED
    BY <2>1, <2>2
<1>3. /\ grown \in Seq(Bytes) /\ Len(grown) = Len(old) + missing
      /\ Room(old) \in Nat /\ Room(grown) \in Nat /\ Room(old) <= Room(grown)
      /\ \A i \in Positive : i <= Room(grown) => Byte(grown, i) = IF i <= Room(old) THEN Byte(old, i) ELSE 0
  <2> HIDE DEF missing
  <2> QED
    BY <1>1, <1>2, ZeroBlocksAdded
<1>4. There(parts, grown)
  <2>1. end \div BLOCK_SIZE + 1 <= Len(grown)
    <3>1. CASE end > size
      BY <1>1, <1>2, <1>3, <3>1
    <3>2. CASE ~ end > size
      <4>1. end <= size /\ size # 0
        BY <1>1, <3>2
      <4>2. end \div BLOCK_SIZE + 1 <= Len(old)
        <5> HIDE DEF end
        <5> QED
          BY <1>1, <4>1, RegularFacts
      <4> HIDE DEF missing, grown, end
      <4> QED
        BY <1>1, <1>2, <1>3, <3>2, <4>2
    <3> QED
      BY <3>1, <3>2
  <2>2. There(parts, grown) <=> LastBlock(offset, n) + 1 <= Len(grown)
    <3> HIDE DEF grown
    <3> QED
      BY <1>1, <1>3, PartsThere
  <2> HIDE DEF grown, missing
  <2> QED
    BY <2>1, <2>2 DEF LastBlock
<1> HIDE DEF missing, grown
<1>5. Len(parts) = Count(offset, n) /\ Count(offset, n) \in Nat /\ Count(offset, n) > 0
  <2>1. Count(offset, n) \in Positive /\ DOMAIN parts = 1 .. Count(offset, n)
    BY <1>1, PartsJoin
  <2>2. parts \in [1 .. Count(offset, n) -> {parts[i] : i \in 1 .. Count(offset, n)}]
    BY <2>1 DEF Parts, Count, FirstBlock, LastBlock
  <2> HIDE DEF parts
  <2> QED
    BY <2>1, <2>2, FcnIsSeq DEF Positive
<1>6. ASSUME NEW k \in 0 .. Count(offset, n)
      PROVE  /\ Filled(grown, parts, k, bytes) = Patch(grown, offset, bytes, Done(offset, n, k))
             /\ Done(offset, n, k) \in offset .. end /\ Done(offset, n, k) \in Nat
             /\ Filled(grown, parts, k, bytes) \in Seq(Bytes) /\ Len(Filled(grown, parts, k, bytes)) = Len(grown)
             /\ Room(Filled(grown, parts, k, bytes)) = Room(grown)
             /\ \A i \in Positive : i <= Room(grown) =>
                  Byte(Filled(grown, parts, k, bytes), i) =
                    IF i > offset /\ i <= Done(offset, n, k) THEN bytes[i - offset]
                    ELSE IF i <= Room(old) THEN Byte(old, i) ELSE 0
  <2> DEFINE d == Done(offset, n, k)
             filled == Filled(grown, parts, k, bytes)
  <2>1. filled = Patch(grown, offset, bytes, d)
    BY <1>3, <1>4, FilledIsPatch
  <2>2. d \in Nat /\ offset <= d /\ d <= end
    <3>1. CASE k = 0
      BY <1>1, <3>1 DEF Done
    <3>2. CASE k # 0
      <4>1. k \in 1 .. Count(offset, n)
        BY <1>5, <3>2
      <4>2. d = Upto(offset, n, k)
        BY <3>2 DEF Done
      <4>3. /\ offset <= From(offset, k) /\ From(offset, k) <= Upto(offset, n, k)
            /\ Upto(offset, n, k) <= offset + n
            /\ From(offset, k) \in Nat /\ Upto(offset, n, k) \in Nat
        BY <1>1, <4>1, PartsInOrder
      <4> QED
        BY <4>2, <4>3
    <3> QED
      BY <3>1, <3>2
  <2> HIDE DEF d, filled
  <2>3. filled \in Seq(Bytes) /\ Len(filled) = Len(grown)
    BY <1>3, <2>1, <2>2, PatchType
  <2>4. Room(filled) = Room(grown)
    BY <2>3 DEF Room
  <2>5. ASSUME NEW i \in Positive, i <= Room(grown)
        PROVE  Byte(filled, i) = IF i > offset /\ i <= d THEN bytes[i - offset]
                                 ELSE IF i <= Room(old) THEN Byte(old, i) ELSE 0
    <3>1. Byte(filled, i) = IF i > offset /\ i <= d THEN bytes[i - offset] ELSE Byte(grown, i)
      BY <1>3, <2>1, <2>2, <2>5, PatchBytes
    <3> QED
      BY <1>3, <2>5, <3>1
  <2>6. d \in offset .. end
    BY <1>1, <2>2
  <2> QED
    BY <2>1, <2>2, <2>3, <2>4, <2>5, <2>6 DEF d, filled
<1>7. \/ missing > room /\ r = [n |-> Failed, node |-> node, room |-> 0]
      \/ ~ missing > room /\ r = [n |-> n, room |-> room - missing, node |-> whole]
      \/ ~ missing > room /\ \E k \in 0 .. Len(parts) : r = Rest(k)
  BY <1>4, Zenon DEF WriteResults, missing, grown
<1>8. CASE missing > room /\ r = [n |-> Failed, node |-> node, room |-> 0]
  <2>1. r.n = Failed /\ r.node = node /\ r.room = 0
    BY <1>8
  <2>2. 0 \in 0 .. n /\ Overwritten(old, old, offset, bytes, 0)
    BY <1>1, NothingOverwritten
  <2>3. Missed(node, r, offset, bytes)
    BY <2>1, <2>2 DEF Missed
  <2> QED
    BY <1>1, <2>1, <2>3
<1>9. CASE ~ missing > room /\ r = [n |-> n, room |-> room - missing, node |-> whole]
  <2> DEFINE filled == Filled(grown, parts, Len(parts), bytes)
             new == r.node.blocks
  <2>1. r.n = n /\ r.room = room - missing /\ r.node = whole
    BY <1>9
  <2>2. r.node.file_size = (IF end <= size THEN size ELSE end) /\ new = filled
    <3>1. Max({end, size}) = IF end <= size THEN size ELSE end
      <4> HIDE DEF end, size
      <4>1. end \in Int /\ size \in Int
        BY <1>1
      <4> QED
        BY <4>1, MinMax
    <3>2. r.node.file_size = Max({end, size}) /\ new = filled
      BY <2>1
    <3> QED
      BY <3>1, <3>2
  <2>3. /\ Len(parts) \in 0 .. Count(offset, n) /\ Done(offset, n, Len(parts)) = end
    <3>1. Upto(offset, n, Count(offset, n)) = end
      BY <1>1, PartsJoin
    <3> QED
      BY <1>5, <3>1 DEF Done
  <2>4. /\ new \in Seq(Bytes) /\ Len(new) = Len(grown) /\ Room(new) = Room(grown)
        /\ \A i \in Positive : i <= Room(grown) =>
              Byte(new, i) = IF i > offset /\ i <= end THEN bytes[i - offset]
                             ELSE IF i <= Room(old) THEN Byte(old, i) ELSE 0
    <3> HIDE DEF parts, filled, new, end
    <3> QED
      BY <1>6, <2>2, <2>3 DEF filled
  <2>5. Succeeded(node, r, offset, bytes)
    <3>1. Overwritten(old, new, offset, bytes, n)
      BY <2>4 DEF Overwritten
    <3> QED
      BY <1>3, <2>1, <2>2, <2>4, <3>1 DEF Succeeded
  <2>6. Regular(r.node)
    <3>1. r.node \in Node
      <4>1. r.node = [file_size |-> r.node.file_size, blocks |-> new]
        BY <2>1
      <4>2. r.node.file_size \in Nat
        BY <1>1, <2>2
      <4> HIDE DEF new
      <4> QED
        BY <2>4, <4>1, <4>2 DEF Node
    <3>2. CASE end > size
      <4>1. r.node.file_size = end /\ r.node.file_size # 0
        BY <1>1, <2>2, <3>2
      <4>2. Len(new) = end \div BLOCK_SIZE + 1
        BY <1>2, <1>3, <2>4, <3>2
      <4> HIDE DEF end, new
      <4> QED
        BY <3>1, <4>1, <4>2 DEF Regular, new
    <3>3. CASE ~ end > size
      <4>1. end <= size /\ r.node.file_size = size /\ size # 0
        BY <1>1, <2>2, <3>3
      <4>2. Len(new) = Len(old)
        BY <1>1, <1>2, <1>3, <2>4, <3>3
      <4> HIDE DEF end, new
      <4> QED
        BY <3>1, <4>1, <4>2 DEF Regular, new
    <3> QED
      BY <3>2, <3>3
  <2>7. Len(new) = Len(old) + missing
    BY <1>3, <2>4
  <2>8. r.room \in Nat /\ Len(old) <= Len(new) /\ r.room + Len(new) <= room + Len(old)
    <3> HIDE DEF new, old
    <3> QED
      BY <1>1, <1>2, <1>9, <2>1, <2>7
  <2> QED
    BY <2>5, <2>6, <2>8
<1>10. ASSUME ~ missing > room, NEW k \in 0 .. Len(parts), r = Rest(k)
       PROVE  /\ Regular(r.node) /\ r.room \in Nat
              /\ Len(node.blocks) <= Len(r.node.blocks)
              /\ r.room + Len(r.node.blocks) <= room + Len(node.blocks)
              /\ Missed(node, r, offset, bytes)
  <2> DEFINE filled == Filled(grown, parts, k, bytes)
             new == r.node.blocks
             m == Done(offset, n, k) - offset
  <2>1. r.n = Failed /\ r.room = room - missing /\ r.node = [node EXCEPT !.blocks = after(k)]
    BY <1>10
  <2>2. r.node.file_size = size /\ new = SubSeq(filled, 1, Len(old)) /\ r.node = [file_size |-> size, blocks |-> new]
    <3>1. node \in Node
      BY DEF Regular
    <3> QED
      BY <2>1, <3>1 DEF Node
  <2>3. k \in 0 .. Count(offset, n)
    BY <1>5
  <2>4. /\ filled \in Seq(Bytes) /\ Len(filled) = Len(grown) /\ Room(filled) = Room(grown)
        /\ Done(offset, n, k) \in offset .. end
        /\ \A i \in Positive : i <= Room(grown) =>
              Byte(filled, i) = IF i > offset /\ i <= Done(offset, n, k) THEN bytes[i - offset]
                                ELSE IF i <= Room(old) THEN Byte(old, i) ELSE 0
    BY <1>6, <2>3
  <2>5. Len(old) \in 0 .. Len(filled)
    <3> HIDE DEF old, filled
    <3> QED
      BY <1>1, <1>2, <1>3, <2>4
  <2> HIDE DEF filled
  <2>6. /\ new \in Seq(Bytes) /\ Len(new) = Len(old) /\ Room(new) \in Nat /\ Room(new) <= Room(filled)
        /\ \A i \in Positive : i <= Room(new) => Byte(new, i) = Byte(filled, i)
    <3> HIDE DEF old, new
    <3> QED
      BY <2>2, <2>4, <2>5, KeptBytes
  <2>7. m \in 0 .. n /\ offset + m = Done(offset, n, k)
    <3>1. \A d \in offset .. end : d - offset \in 0 .. n /\ offset + (d - offset) = d
      BY <1>1
    <3> QED
      BY <2>4, <3>1
  <2> HIDE DEF new, m
  <2>8. Overwritten(old, new, offset, bytes, m)
    <3> SUFFICES ASSUME NEW i \in Positive, i <= Room(new)
                 PROVE  Byte(new, i) = IF i > offset /\ i <= offset + m THEN bytes[i - offset]
                                       ELSE IF i <= Room(old) THEN Byte(old, i) ELSE 0
      BY DEF Overwritten
    <3>1. i <= Room(grown)
      BY <1>3, <2>4, <2>6 DEF Positive
    <3> HIDE DEF old
    <3>2. Byte(new, i) = Byte(filled, i)
      BY <2>6
    <3>3. Byte(filled, i) = IF i > offset /\ i <= Done(offset, n, k) THEN bytes[i - offset]
                            ELSE IF i <= Room(old) THEN Byte(old, i) ELSE 0
      BY <2>4, <3>1
    <3>4. offset + m = Done(offset, n, k)
      BY <2>7
    <3> HIDE DEF n
    <3> QED
      BY <3>2, <3>3, <3>4
  <2>9. Missed(node, r, offset, bytes)
    BY <2>1, <2>2, <2>6, <2>7, <2>8 DEF Missed, new
  <2>10. Regular(r.node)
    BY <1>1, <2>2, <2>6 DEF Regular, Node
  <2>11. r.room \in Nat /\ Len(old) <= Len(new) /\ r.room + Len(new) <= room + Len(old)
    <3>1. r.room = room - missing /\ Len(new) = Len(old)
      BY <2>1, <2>6
    <3>2. room \in Nat /\ missing \in Nat /\ ~ missing > room /\ Len(old) \in Nat
      BY <1>1, <1>2, <1>10
    <3> HIDE DEF old, missing
    <3> QED
      BY <3>1, <3>2
  <2> QED
    BY <2>9, <2>10, <2>11 DEF new
<1> QED
  BY <1>7, <1>8, <1>9, <1>10

(* A file that is cut keeps the bytes before the cut; when its last block  *)
(* is zeroed, nothing but zeros is behind it.                              *)
\* The two blocks that Truncate may leave.
Kept(old, offset) == SubSeq(old, 1, offset \div BLOCK_SIZE + 1)
Zeroed(old, offset) == [Kept(old, offset) EXCEPT ![offset \div BLOCK_SIZE + 1] = Cleared(@, offset % BLOCK_SIZE)]

\* What custom_truncate leaves: the bytes before the cut, and zeros behind it unless the zeroing
\* failed.
LEMMA CutGives ==
    ASSUME NEW node, Regular(node), NEW offset \in Nat, offset <= node.file_size, node.file_size # 0,
           NEW blocks, blocks = Zeroed(node.blocks, offset) \/ blocks = Kept(node.blocks, offset)
    PROVE  /\ Regular([file_size |-> offset, blocks |-> blocks])
           /\ Len(Kept(node.blocks, offset)) = Len(blocks) /\ Len(blocks) <= Len(node.blocks)
           /\ \A i \in 1 .. offset : Byte(blocks, i) = Byte(node.blocks, i)
           /\ blocks = Zeroed(node.blocks, offset) =>
                 \A i \in Positive : i > offset /\ i <= Room(blocks) => Byte(blocks, i) = 0
<1> DEFINE q == offset \div BLOCK_SIZE
           last == q + 1
           old == node.blocks
           kept == SubSeq(old, 1, last)
           r == offset % BLOCK_SIZE
           zeroed == [kept EXCEPT ![last] = Cleared(@, r)]
           new == [file_size |-> offset, blocks |-> blocks]
<1>1. /\ q \in Nat /\ r \in 0 .. BLOCK_SIZE - 1 /\ offset = Base(q + 1) + r
      /\ old \in Seq(Bytes) /\ Len(old) \in Nat /\ last <= Len(old)
  BY QuotientFacts, RegularFacts
<1>2. last \in 1 .. Len(old) /\ last \in Positive /\ last \in 0 .. Len(old)
  <2> HIDE DEF q
  <2> QED
    BY <1>1 DEF Positive
<1> HIDE DEF last, r, old
<1>3. /\ kept \in Seq(Bytes) /\ Len(kept) = last /\ Room(kept) \in Nat /\ Room(kept) <= Room(old)
      /\ \A b \in 1 .. last : kept[b] = old[b]
      /\ \A i \in Positive : i <= Room(kept) => Byte(kept, i) = Byte(old, i)
  BY <1>1, <1>2, KeptBytes
<1> HIDE DEF kept
<1>4. Cleared(kept[last], r) \in Bytes
  <2>1. last \in 1 .. Len(kept)
    BY <1>2, <1>3 DEF Positive
  <2>2. kept[last] \in Bytes
    BY <1>3, <2>1, ElementOfSeq
  <2> QED
    BY <2>2 DEF Bytes, Cleared
<1>5. /\ zeroed \in Seq(Bytes) /\ Len(zeroed) = last
      /\ \A b \in 1 .. last : zeroed[b] = IF b = last THEN Cleared(kept[last], r) ELSE kept[b]
  <2>1. last \in 1 .. Len(kept)
    BY <1>2, <1>3 DEF Positive
  <2> QED
    BY <1>3, <1>4, <2>1, ExceptSeq
<1> HIDE DEF zeroed
<1>6. offset <= Room(kept) /\ Room(kept) = Base(last) + BLOCK_SIZE /\ Base(last) \in Nat /\ offset = Base(last) + r
  <2>1. Base(last) \in Nat /\ Base(last + 1) = Base(last) + BLOCK_SIZE
    BY <1>2, BaseFacts
  <2>2. offset = Base(last) + r
    BY <1>1 DEF last
  <2> QED
    BY <1>1, <1>3, <2>1, <2>2, SizeFacts DEF Room
<1>7. ASSUME blocks \in Seq(Bytes), Len(blocks) = last
      PROVE  Regular(new)
  <2>1. new \in Node /\ new.file_size = offset /\ new.blocks = blocks
    BY <1>7 DEF Node
  <2>2. offset = 0 => q = 0
    <3>1. CASE offset = 0
      <4>1. Base(q + 1) \in Nat /\ Base(q + 1) = 0
        <5>1. q + 1 \in Positive
          BY <1>1 DEF Positive
        <5>2. Base(q + 1) \in Nat
          BY <5>1, BaseFacts
        <5> HIDE DEF q
        <5> QED
          BY <1>1, <3>1, <5>2
      <4>2. 1 < q + 1 => Base(1) + BLOCK_SIZE <= Base(q + 1)
        <5>1. q + 1 \in Positive /\ 1 \in Positive
          BY <1>1 DEF Positive
        <5> QED
          BY <5>1, BaseFacts
      <4> HIDE DEF q
      <4> QED
        BY <1>1, <4>1, <4>2, BaseFacts, SizeFacts
    <3> QED
      BY <3>1
  <2> QED
    BY <1>1, <1>7, <2>1, <2>2 DEF Regular, last
<1>8. ASSUME NEW i \in Positive, i <= Room(kept)
      PROVE  Byte(zeroed, i) = IF i <= offset THEN Byte(old, i) ELSE 0
  <2> DEFINE b == BlockOf(i)
             j == PlaceOf(i)
  <2>1. Room(zeroed) = Room(kept)
    BY <1>3, <1>5 DEF Room
  <2>2. /\ b \in 1 .. last /\ j \in 1 .. BLOCK_SIZE /\ i = Base(b) + j
        /\ Byte(zeroed, i) = zeroed[b][j] /\ Byte(kept, i) = kept[b][j] /\ Byte(kept, i) = Byte(old, i)
    BY <1>3, <1>5, <1>8, <2>1, ByteInBlock
  <2> HIDE DEF b, j
  <2>3. b \in Positive /\ j \in Nat /\ j >= 1 /\ j <= BLOCK_SIZE /\ i \in Nat
    BY <1>2, <2>2, SizeFacts DEF Positive
  <2>4. Base(b) \in Nat
    BY <2>3, BaseFacts
  <2>5. CASE b = last
    <3>1. Byte(zeroed, i) = IF j > r THEN 0 ELSE kept[b][j]
      BY <1>5, <2>2, <2>5 DEF Cleared
    <3>2. j > r <=> ~ i <= offset
      BY <1>1, <1>6, <2>2, <2>3, <2>5
    <3> QED
      BY <2>2, <3>1, <3>2
  <2>6. CASE b # last
    <3>1. Byte(zeroed, i) = Byte(old, i)
      BY <1>5, <2>2, <2>6
    <3>2. Base(b) + BLOCK_SIZE <= Base(last)
      <4>1. b < last
        BY <1>2, <2>2, <2>6 DEF Positive
      <4> QED
        BY <1>2, <2>3, <4>1, BaseFacts
    <3>3. i <= offset
      BY <1>1, <1>6, <2>2, <2>3, <2>4, <3>2, SizeFacts
    <3> QED
      BY <3>1, <3>3
  <2> QED
    BY <2>5, <2>6
<1>9. \A i \in 1 .. offset : i \in Positive /\ i <= Room(kept)
  BY <1>3, <1>6 DEF Positive
<1>10. ASSUME blocks = zeroed
       PROVE  /\ Regular(new) /\ Len(kept) = Len(blocks) /\ Len(blocks) <= Len(old)
              /\ \A i \in 1 .. offset : Byte(blocks, i) = Byte(old, i)
              /\ \A i \in Positive : i > offset /\ i <= Room(blocks) => Byte(blocks, i) = 0
  <2>1. Regular(new) /\ Len(kept) = Len(blocks) /\ Len(blocks) <= Len(old)
    BY <1>1, <1>2, <1>3, <1>5, <1>7, <1>10
  <2>2. \A i \in 1 .. offset : Byte(blocks, i) = Byte(old, i)
    BY <1>8, <1>9, <1>10
  <2>3. ASSUME NEW i \in Positive, i > offset, i <= Room(blocks)
        PROVE  Byte(blocks, i) = 0
    <3>1. Room(blocks) = Room(kept) /\ ~ i <= offset
      BY <1>3, <1>5, <1>10, <2>3 DEF Room, Positive
    <3> QED
      BY <1>8, <1>10, <2>3, <3>1
  <2> QED
    BY <2>1, <2>2, <2>3
<1>11. ASSUME blocks = kept
       PROVE  /\ Regular(new) /\ Len(kept) = Len(blocks) /\ Len(blocks) <= Len(old)
              /\ \A i \in 1 .. offset : Byte(blocks, i) = Byte(old, i)
  <2>1. Regular(new) /\ Len(kept) = Len(blocks) /\ Len(blocks) <= Len(old)
    BY <1>1, <1>2, <1>3, <1>7, <1>11
  <2>2. \A i \in 1 .. offset : Byte(blocks, i) = Byte(old, i)
    BY <1>3, <1>9, <1>11
  <2> QED
    BY <2>1, <2>2
<1> QED
  BY <1>10, <1>11 DEF old, kept, zeroed, last, r, Kept, Zeroed

-----------------------------------------------------------------------------
(* The invariant                                                           *)

Blocks(x) == IF x = Absent THEN 0 ELSE Len(x.blocks)

\* The places of blocks that files have.
Held == {p \in Files \X Positive : p[2] <= Blocks(nodes[p[1]])}

TypeInv ==
    /\ nodes = [p \in Files \cup Dirs |-> nodes[p]]
    /\ \A f \in Files : Exists(f) => Regular(nodes[f]) /\ nodes[f].file_size <= MaxSize
    /\ \A d \in Dirs : nodes[d] = Directory
    /\ room \in Nat /\ others \in 0 .. Elsewhere
    /\ IsFiniteSet(Held) /\ Cardinality(Held) + room + others <= BlockCount
    /\ broken \in BOOLEAN /\ rough \subseteq Files

Renames ==
    [pc : {"read", "write", "unlink"}, from : Files \cup Dirs, to : Files, offset : Nat \cup {Failed},
     buffer : [n : Nat \cup {Failed}, bytes : Seq(Nat)], misread : BOOLEAN, original : Node]

\* One file holds the first bytes of another one.
Begins(new, old) ==
    new.file_size <= old.file_size /\ \A i \in 1 .. new.file_size : Byte(new.blocks, i) = Byte(old.blocks, i)

\* The new file holds the first bytes of the old one, the buffer the next ones.
Copying(old, new) ==
    /\ rename \in Renames /\ rename.from # rename.to
    /\ old = rename.original /\ new # Absent
    /\ Begins(new, old)
    /\ rename.offset # Failed => rename.offset <= new.file_size
    /\ rename.from \in Dirs => new.file_size = 0
    /\ rename.pc = "write" /\ rename.buffer.n # Failed =>
          LET end == rename.offset + Len(rename.buffer.bytes)
          IN  /\ rename.from \in Files /\ rename.offset # Failed
              /\ Len(rename.buffer.bytes) # 0 /\ end <= old.file_size
              /\ rename.buffer = Got(Slice(old.blocks, rename.offset, end))
    /\ rename.pc = "unlink" => rename.from \in Files /\ new.file_size = old.file_size

RenameOK == rename = Idle \/ Copying(nodes[rename.from], nodes[rename.to])

\* Zeros behind the end.
Clean(node) == \A i \in Positive : i > node.file_size /\ i <= Room(node.blocks) => Byte(node.blocks, i) = 0

SlackOK == \A f \in Files \ rough : Exists(f) => Clean(nodes[f])

FileInv == TypeInv /\ RenameOK /\ SlackOK

\* An inode is not the mark of a file that is not there.
LEMMA NodeExists ==
    ASSUME NEW node \in Node
    PROVE  node # Absent
<1>1. Bytes \subseteq Seq(Nat)
  <2>1. ASSUME NEW b \in Bytes
        PROVE  b \in Seq(Nat)
    BY SizeFacts, FcnIsSeq DEF Bytes
  <2> QED
    BY <2>1
<1>2. node.blocks \in Seq(Seq(Nat))
  BY <1>1, SeqMonotonic DEF Node
<1>3. node \in [file_size : Nat, blocks : Seq(Seq(Nat))]
  BY <1>2 DEF Node
<1> QED
  BY <1>3, DataAssumption

\* A directory is one block of records.
LEMMA DirectoryNode == Directory \in Node /\ Directory.file_size = BLOCK_SIZE /\ Directory.blocks \in Seq(Bytes) /\ Len(Directory.blocks) = 1
<1>1. <<ZeroBlock>> \in [1 .. 1 -> Bytes]
  BY DEF ZeroBlock, Bytes
<1>2. <<ZeroBlock>> \in Seq(Bytes) /\ Len(<<ZeroBlock>>) = 1
  BY <1>1, FcnIsSeq
<1> QED
  BY <1>2, SizeFacts DEF Directory, Node

(* The places of one file's blocks are as many as the blocks.              *)
PlacesOf(f, n) == {p \in Files \X Positive : p[1] = f /\ p[2] <= n}

\* A file with n blocks holds n places.
LEMMA PlacesCounted ==
    ASSUME NEW f \in Files, NEW n \in Nat
    PROVE  IsFiniteSet(PlacesOf(f, n)) /\ Cardinality(PlacesOf(f, n)) = n
<1>1. IsFiniteSet(1 .. n) /\ Cardinality(1 .. n) = n
  <2>1. 1 \in Int /\ n \in Int
    OBVIOUS
  <2>2. (IF 1 > n THEN 0 ELSE n - 1 + 1) = n
    OBVIOUS
  <2> QED
    BY <2>1, <2>2, FS_Interval
<1> DEFINE F == [i \in 1 .. n |-> <<f, i>>]
<1>2. F \in [1 .. n -> PlacesOf(f, n)]
  BY DEF Positive, PlacesOf
<1>3. \A i, j \in 1 .. n : F[i] = F[j] => i = j
  OBVIOUS
<1>4. ASSUME NEW p \in PlacesOf(f, n)
      PROVE  \E i \in 1 .. n : F[i] = p
  <2>1. p[2] \in 1 .. n /\ p = <<f, p[2]>>
    BY DEF PlacesOf, Positive
  <2> QED
    BY <2>1
<1>5. ExistsBijection(1 .. n, PlacesOf(f, n))
  <2> HIDE DEF F
  <2>1. F \in Bijection(1 .. n, PlacesOf(f, n))
    BY <1>2, <1>3, <1>4 DEF Bijection, Injection, Surjection, IsInjective
  <2> QED
    BY <2>1 DEF ExistsBijection
<1> QED
  BY <1>1, <1>5, FS_Bijection

\* When one file changes, the number of places held changes by its blocks.
LEMMA HeldChanges ==
    ASSUME IsFiniteSet(Held), NEW f \in Files, Blocks(nodes[f]) \in Nat, Blocks(nodes'[f]) \in Nat,
           \A g \in Files \ {f} : nodes'[g] = nodes[g]
    PROVE  /\ IsFiniteSet(Held') /\ Cardinality(Held) \in Nat /\ Cardinality(Held') \in Nat
           /\ Cardinality(Held') + Blocks(nodes[f]) = Cardinality(Held) + Blocks(nodes'[f])
<1> DEFINE Rest == {p \in Held : p[1] # f}
<1>1. IsFiniteSet(Rest) /\ Cardinality(Rest) \in Nat
  BY FS_Subset, FS_CardinalityType
<1>2. ASSUME NEW n \in Nat
      PROVE  IsFiniteSet(Rest \cup PlacesOf(f, n)) /\ Cardinality(Rest \cup PlacesOf(f, n)) = Cardinality(Rest) + n
  <2>1. Rest \cap PlacesOf(f, n) = {}
    BY DEF PlacesOf
  <2>2. IsFiniteSet(PlacesOf(f, n)) /\ Cardinality(PlacesOf(f, n)) = n
    BY PlacesCounted
  <2> HIDE DEF Rest
  <2>3. Cardinality(Rest \cap PlacesOf(f, n)) = 0
    BY <2>1, FS_EmptySet
  <2>4. /\ IsFiniteSet(Rest \cup PlacesOf(f, n))
        /\ Cardinality(Rest \cup PlacesOf(f, n)) =
             Cardinality(Rest) + Cardinality(PlacesOf(f, n)) - Cardinality(Rest \cap PlacesOf(f, n))
    BY <1>1, <2>2, FS_Union
  <2> QED
    BY <1>1, <2>2, <2>3, <2>4
<1>3. Held = Rest \cup PlacesOf(f, Blocks(nodes[f]))
  BY DEF Held, PlacesOf
<1>4. Held' = Rest \cup PlacesOf(f, Blocks(nodes[f])')
  BY DEF Held, PlacesOf
<1> HIDE DEF Rest
<1>5. IsFiniteSet(Held) /\ Cardinality(Held) = Cardinality(Rest) + Blocks(nodes[f])
  BY <1>2, <1>3
<1>6. IsFiniteSet(Held') /\ Cardinality(Held') = Cardinality(Rest) + Blocks(nodes[f])'
  BY <1>2, <1>4
<1> QED
  BY <1>1, <1>5, <1>6

-----------------------------------------------------------------------------
(* What a change of one file leaves as it was                              *)

Changed(f, x) == nodes' = [nodes EXCEPT ![f] = x]

\* When one file changes, it is no directory, and the others stay.
LEMMA OthersSame ==
    ASSUME TypeInv, NEW f \in Files, NEW x, Changed(f, x)
    PROVE  /\ nodes'[f] = x /\ f \notin Dirs
           /\ \A p \in (Files \cup Dirs) \ {f} : nodes'[p] = nodes[p]
           /\ nodes' = [p \in Files \cup Dirs |-> nodes'[p]]
<1> DEFINE P == Files \cup Dirs
<1>1. nodes = [p \in P |-> nodes[p]] /\ f \in P
  BY DEF TypeInv
<1>2. nodes' = [p \in P |-> IF p = f THEN x ELSE nodes[p]]
  BY <1>1 DEF Changed
<1>3. f \notin Dirs
  BY DataAssumption
<1> QED
  BY <1>1, <1>2, <1>3

\* A file that stays regular and takes no more blocks than there are keeps types.
LEMMA FileChanged ==
    ASSUME TypeInv, NEW f \in Files, NEW x, Changed(f, x),
           x = Absent \/ (Regular(x) /\ x.file_size <= MaxSize),
           room' \in Nat, Blocks(x) + room' <= Blocks(nodes[f]) + room,
           UNCHANGED others, broken' \in BOOLEAN, rough' \subseteq Files
    PROVE  TypeInv'
<1>1. /\ nodes'[f] = x /\ f \notin Dirs
      /\ \A p \in (Files \cup Dirs) \ {f} : nodes'[p] = nodes[p]
      /\ nodes' = [p \in Files \cup Dirs |-> nodes'[p]]
  BY OthersSame
<1>2. ASSUME NEW y, y = Absent \/ Regular(y)
      PROVE  Blocks(y) \in Nat
  BY <1>2, RegularFacts DEF Blocks
<1>3. Blocks(nodes[f]) \in Nat /\ Blocks(x) \in Nat
  BY <1>2 DEF TypeInv, Exists
<1>4. Blocks(nodes'[f]) = Blocks(x)
  BY <1>1
<1>5. IsFiniteSet(Held) /\ Cardinality(Held) + room + others <= BlockCount /\ room \in Nat /\ others \in 0 .. Elsewhere
  BY DEF TypeInv
<1>6. /\ IsFiniteSet(Held') /\ Cardinality(Held) \in Nat /\ Cardinality(Held') \in Nat
      /\ Cardinality(Held') + Blocks(nodes[f]) = Cardinality(Held) + Blocks(nodes'[f])
  BY <1>1, <1>3, <1>4, <1>5, HeldChanges
<1>7. Cardinality(Held') + room' + others' <= BlockCount /\ others' \in 0 .. Elsewhere
  <2>1. BlockCount \in Nat /\ Elsewhere \in Nat
    BY DataAssumption
  <2>2. \A c, d, b, y, r, s, o, m \in Nat :
           d + b = c + y /\ y + s <= b + r /\ c + r + o <= m => d + s + o <= m
    OBVIOUS
  <2> QED
    BY <1>3, <1>4, <1>5, <1>6, <2>1, <2>2
<1>8. \A g \in Files : Exists(g)' => Regular(nodes'[g]) /\ nodes'[g].file_size <= MaxSize
  BY <1>1 DEF TypeInv, Exists
<1>9. \A d \in Dirs : nodes'[d] = Directory
  BY <1>1 DEF TypeInv
<1> QED
  BY <1>1, <1>6, <1>7, <1>8, <1>9 DEF TypeInv

\* What RenameKeepsData says of a step.
Safe ==
    rename.pc # "idle" /\ nodes'[rename.from] # rename.original =>
       nodes'[rename.from] = Absent /\ Contents(nodes'[rename.to]) = Contents(rename.original)

\* A call for a file that no rename has locked does not disturb the rename.
LEMMA RenameWaits ==
    ASSUME TypeInv, RenameOK, NEW f \in Files, NEW x, Changed(f, x), Unlocked(f), UNCHANGED rename
    PROVE  RenameOK' /\ Safe
<1>1. CASE rename = Idle
  BY <1>1 DEF RenameOK, Safe, Idle
<1>2. CASE rename # Idle
  <2>1. Copying(nodes[rename.from], nodes[rename.to])
    BY <1>2 DEF RenameOK
  <2>2. rename.from \in Files \cup Dirs /\ rename.to \in Files /\ rename.pc \in {"read", "write", "unlink"}
    BY <2>1 DEF Copying, Renames
  <2>3. rename.from # f /\ rename.to # f
    BY <2>2 DEF Unlocked
  <2>4. nodes'[rename.from] = nodes[rename.from] /\ nodes'[rename.to] = nodes[rename.to]
    BY <2>2, <2>3, OthersSame
  <2>5. nodes'[rename.from] = rename.original
    BY <2>1, <2>4 DEF Copying
  <2>6. Copying(nodes[rename.from], nodes[rename.to])'
    BY <2>1, <2>4 DEF Copying
  <2> QED
    BY <2>5, <2>6 DEF RenameOK, Safe
<1> QED
  BY <1>1, <1>2

\* A call for one file disturbs no other file's slack.
LEMMA SlackElsewhere ==
    ASSUME TypeInv, SlackOK, NEW f \in Files, NEW x, Changed(f, x), rough \ {f} \subseteq rough',
           f \notin rough' /\ x # Absent => Clean(x)
    PROVE  SlackOK'
<1>1. nodes'[f] = x /\ \A p \in (Files \cup Dirs) \ {f} : nodes'[p] = nodes[p]
  BY OthersSame
<1>2. ASSUME NEW g \in Files, g \notin rough', nodes'[g] # Absent
      PROVE  Clean(nodes'[g])
  <2>1. CASE g = f
    BY <1>1, <1>2, <2>1
  <2>2. CASE g # f
    BY <1>1, <1>2, <2>2 DEF SlackOK, Exists
  <2> QED
    BY <2>1, <2>2
<1> QED
  BY <1>2 DEF SlackOK, Exists, Clean

-----------------------------------------------------------------------------
(* The steps of ByteFiles                                                  *)

Image(x) == IF x = Absent THEN Absent ELSE Contents(x)
Data == [f \in Files |-> IF Exists(f) THEN Contents(nodes[f]) ELSE Absent]

\* The contents of a file are its first file_size bytes.
LEMMA ContentsFacts ==
    ASSUME NEW node, Regular(node)
    PROVE  /\ Contents(node) \in Seq(Nat) /\ Len(Contents(node)) = node.file_size /\ Contents(node) # Absent
           /\ node # Absent /\ node.file_size \in Nat
           /\ \A i \in 1 .. node.file_size : Contents(node)[i] = Byte(node.blocks, i)
<1>1. node.file_size \in Nat /\ node.blocks \in Seq(Bytes) /\ node.file_size <= Room(node.blocks)
  BY RegularFacts
<1>2. node # Absent
  BY NodeExists DEF Regular
<1>3. \A i \in 1 .. node.file_size : Byte(node.blocks, i) \in Nat
  <2>1. Room(node.blocks) \in Nat
    BY <1>1, RoomFacts
  <2>2. \A i \in 1 .. node.file_size : i \in Positive /\ i <= Room(node.blocks)
    BY <1>1, <2>1 DEF Positive
  <2> QED
    BY <1>1, <2>2, ByteInBlock
<1>4. Contents(node) \in [1 .. node.file_size -> Nat]
  BY <1>3 DEF Contents
<1>5. Contents(node) \in Seq(Nat) /\ Len(Contents(node)) = node.file_size
  BY <1>1, <1>4, FcnIsSeq
<1>6. Contents(node) # Absent
  BY <1>5, DataAssumption
<1>7. \A i \in 1 .. node.file_size : Contents(node)[i] = Byte(node.blocks, i)
  BY DEF Contents
<1> QED
  BY <1>1, <1>2, <1>5, <1>6, <1>7

\* When one file changes, the data of ByteFiles changes in its place only.
LEMMA DataChanged ==
    ASSUME TypeInv, NEW f \in Files, NEW x, Changed(f, x)
    PROVE  /\ Data' = [Data EXCEPT ![f] = Image(x)] /\ Data'[f] = Image(x) /\ Data[f] = Image(nodes[f])
           /\ \A g \in Files : Data[g] = Image(nodes[g])
<1>1. nodes'[f] = x /\ \A p \in (Files \cup Dirs) \ {f} : nodes'[p] = nodes[p]
  BY OthersSame
<1>2. \A g \in Files : Data[g] = Image(nodes[g])
  BY DEF Data, Image, Exists
<1>3. \A g \in Files : Data'[g] = Image(nodes'[g])
  BY DEF Data, Image, Exists
<1>4. DOMAIN Data = Files /\ DOMAIN Data' = Files
  BY DEF Data
<1>5. Data' = [g \in Files |-> Data'[g]] /\ Data = [g \in Files |-> Data[g]]
  BY DEF Data
<1>6. \A g \in Files : Data'[g] = IF g = f THEN Image(x) ELSE Data[g]
  BY <1>1, <1>2, <1>3
<1>7. Data' = [Data EXCEPT ![f] = Image(x)]
  BY <1>4, <1>5, <1>6
<1> QED
  BY <1>2, <1>6, <1>7

Refined == [BytesOf!Next]_(BytesOf!vars)

\* A step that leaves all files alone is a stutter of ByteFiles.
LEMMA NoChange ==
    ASSUME UNCHANGED <<nodes, rough>>
    PROVE  Refined
BY DEF Refined, BytesOf!vars, Exists

\* A new empty file is a step Create of ByteFiles.
LEMMA CreateMaps ==
    ASSUME NEW f \in Files, Data[f] = Absent, Data' = [Data EXCEPT ![f] = <<>>], UNCHANGED rough
    PROVE  Refined
<1>1. BytesOf!Create(f)
  BY DEF BytesOf!Create, BytesOf!Exists, Data
<1> QED
  BY <1>1 DEF Refined, BytesOf!Next

\* A file that goes is a step Delete of ByteFiles.
LEMMA DeleteMaps ==
    ASSUME NEW f \in Files, Data[f] # Absent, Data' = [Data EXCEPT ![f] = Absent], rough' = rough \ {f}
    PROVE  Refined
<1>1. BytesOf!Delete(f)
  BY DEF BytesOf!Delete, BytesOf!Exists, Data
<1> QED
  BY <1>1 DEF Refined, BytesOf!Next

\* A file cut short is a step Cut of ByteFiles.
LEMMA CutMaps ==
    ASSUME NEW f \in Files, Data[f] # Absent, rough' \in {rough, rough \cup {f}},
           NEW n \in 0 .. Len(Data[f]), Data' = [Data EXCEPT ![f] = SubSeq(Data[f], 1, n)]
    PROVE  Refined
<1>1. BytesOf!Cut(f)
  BY DEF BytesOf!Cut, BytesOf!Exists, Data
<1> QED
  BY <1>1 DEF Refined, BytesOf!Next

\* What a failed truncation leaves is a step FailedCut of ByteFiles.
LEMMA FailedCutMaps ==
    ASSUME NEW f \in Files, Data[f] # Absent, UNCHANGED rough, NEW n \in 0 .. Len(Data[f]),
           Data' = [Data EXCEPT ![f] = [i \in DOMAIN Data[f] |-> IF i <= n THEN Data[f][i] ELSE 0]]
    PROVE  Refined
<1>1. BytesOf!FailedCut(f)
  BY DEF BytesOf!FailedCut, BytesOf!Exists, Data
<1> QED
  BY <1>1 DEF Refined, BytesOf!Next

\* A longer piece of another file is a step Copy of ByteFiles.
LEMMA CopyMaps ==
    ASSUME NEW f \in Files, NEW g \in Files \ {f}, Data[f] # Absent, Data[g] # Absent,
           rough' \in {rough, rough \cup {f}},
           NEW n \in Len(Data[f]) .. Len(Data[g]), Data' = [Data EXCEPT ![f] = SubSeq(Data[g], 1, n)]
    PROVE  Refined
<1>1. BytesOf!Copy(f, g)
  BY DEF BytesOf!Copy, BytesOf!Exists, Data
<1> QED
  BY <1>1 DEF Refined, BytesOf!Next

\* A write that is complete is a step Write of ByteFiles.
LEMMA WriteMaps ==
    ASSUME NEW f \in Files, Data[f] # Absent, NEW new, new # Absent, Data' = [Data EXCEPT ![f] = new],
           UNCHANGED rough, NEW offset \in Offsets, NEW w \in Payloads,
           Len(new) = IF offset + Len(w) > Len(Data[f]) THEN offset + Len(w) ELSE Len(Data[f]),
           \A i \in DOMAIN new :
              IF i > offset /\ i <= offset + Len(w) THEN new[i] = w[i - offset]
              ELSE IF i <= Len(Data[f]) THEN new[i] = Data[f][i]
              ELSE f \notin rough => new[i] = 0
    PROVE  Refined
<1>1. Data'[f] = new
  BY DEF Data
<1>2. BytesOf!Patched(Data[f], new, offset, w, f \notin rough)
  BY DEF BytesOf!Patched
<1>3. /\ Data' = [Data EXCEPT ![f] = Data'[f]] /\ Data'[f] # Absent
      /\ \E o \in Offsets, v \in Payloads : BytesOf!Patched(Data[f], Data'[f], o, v, f \notin rough)
  BY <1>1, <1>2
<1>4. BytesOf!Write(f)
  BY <1>3 DEF BytesOf!Write, BytesOf!Exists, BytesOf!Changes, Data
<1> QED
  BY <1>4 DEF Refined, BytesOf!Next

\* Some of the first bytes of a payload were written into old.
PartlyWritten(old, new) ==
    \E o \in Offsets, v \in Payloads : \E m \in 0 .. Len(v) :
       \A i \in DOMAIN old : new[i] = IF i > o /\ i <= o + m THEN v[i - o] ELSE old[i]

\* A write that fails is a step FailedWrite of ByteFiles.
LEMMA FailedWriteMaps ==
    ASSUME NEW f \in Files, Data[f] # Absent, NEW new, new # Absent, Data' = [Data EXCEPT ![f] = new],
           rough' = rough \cup {f}, Len(new) = Len(Data[f]),
           PartlyWritten(Data[f], new)
    PROVE  Refined
<1>1. Data'[f] = new
  BY DEF Data
<1>2. /\ Data' = [Data EXCEPT ![f] = Data'[f]] /\ Data'[f] # Absent /\ Len(Data'[f]) = Len(Data[f])
      /\ PartlyWritten(Data[f], Data'[f])
  BY <1>1
<1>3. BytesOf!FailedWrite(f)
  BY <1>2 DEF PartlyWritten, BytesOf!FailedWrite, BytesOf!Exists, BytesOf!Changes, Data
<1> QED
  BY <1>3 DEF Refined, BytesOf!Next

-----------------------------------------------------------------------------
(* The steps                                                               *)

Holds == FileInv' /\ Refined /\ Safe

\* A step that leaves all files alone keeps all but what it says of the rename.
LEMMA FilesUntouched ==
    ASSUME FileInv, UNCHANGED <<nodes, rough>>, room' \in Nat, others' \in 0 .. Elsewhere,
           room' + others' <= room + others, broken' \in BOOLEAN
    PROVE  TypeInv' /\ SlackOK' /\ Refined /\ Safe /\ (UNCHANGED rename => RenameOK')
<1>1. TypeInv'
  <2>1. Held' = Held
    BY DEF Held
  <2>2. Cardinality(Held) \in Nat
    BY FS_CardinalityType DEF FileInv, TypeInv
  <2>3. room \in Nat /\ others \in Nat /\ room' \in Nat /\ others' \in Nat /\ BlockCount \in Nat
    BY DataAssumption DEF FileInv, TypeInv
  <2>4. Cardinality(Held') + room' + others' <= BlockCount
    BY <2>1, <2>2, <2>3 DEF FileInv, TypeInv
  <2> QED
    BY <2>1, <2>4 DEF FileInv, TypeInv, Exists
<1>2. SlackOK'
  BY DEF FileInv, SlackOK, Exists
<1>3. Safe
  BY DEF FileInv, RenameOK, Copying, Safe, Idle
<1>4. UNCHANGED rename => RenameOK'
  BY DEF FileInv, RenameOK, Copying
<1> QED
  BY <1>1, <1>2, <1>3, <1>4, NoChange

\* A new file is regular, clean and empty.
LEMMA EmptyFileFacts == Regular(EmptyFile) /\ Blocks(EmptyFile) = 0 /\ Clean(EmptyFile) /\ Image(EmptyFile) = <<>>
<1>1. EmptyFile.file_size = 0 /\ EmptyFile.blocks = <<>> /\ <<>> \in Seq(Bytes) /\ Len(<<>>) = 0
  BY DEF EmptyFile
<1>2. Regular(EmptyFile)
  BY <1>1 DEF Regular, Node, EmptyFile
<1>3. EmptyFile # Absent /\ Contents(EmptyFile) \in Seq(Nat) /\ Len(Contents(EmptyFile)) = 0
  BY <1>1, <1>2, ContentsFacts
<1>4. Contents(EmptyFile) = <<>>
  BY <1>3, EmptySeq
<1>5. Room(<<>>) = 0
  BY <1>1, BaseFacts DEF Room
<1>6. Clean(EmptyFile)
  BY <1>1, <1>5 DEF Clean, Positive
<1> QED
  BY <1>1, <1>2, <1>3, <1>4, <1>6 DEF Blocks, Image

\* create_new_file of a free name.
LEMMA FileCreated ==
    ASSUME FileInv, NEW f \in Files, ~ Exists(f), Changed(f, EmptyFile), UNCHANGED <<room, others, broken, rough>>
    PROVE  TypeInv' /\ SlackOK' /\ Refined
<1>1. Regular(EmptyFile) /\ Blocks(EmptyFile) = 0 /\ Clean(EmptyFile) /\ Image(EmptyFile) = <<>>
  BY EmptyFileFacts
<1>2. Blocks(nodes[f]) = 0 /\ room \in Nat /\ TypeInv /\ SlackOK /\ nodes[f] = Absent
  BY DEF Blocks, Exists, FileInv, TypeInv
<1>3. TypeInv'
  <2>1. EmptyFile.file_size <= MaxSize
    BY DataAssumption DEF EmptyFile
  <2>2. broken' \in BOOLEAN /\ rough' \subseteq Files
    BY <1>2 DEF TypeInv
  <2>3. room' \in Nat /\ Blocks(EmptyFile) + room' <= Blocks(nodes[f]) + room
    BY <1>1, <1>2
  <2> QED
    BY <1>1, <1>2, <2>1, <2>2, <2>3, FileChanged
<1>4. SlackOK'
  <2>1. rough \ {f} \subseteq rough'
    OBVIOUS
  <2> QED
    BY <1>1, <1>2, <2>1, SlackElsewhere
<1>5. Data' = [Data EXCEPT ![f] = <<>>] /\ Data[f] = Absent
  BY <1>1, <1>2, DataChanged DEF Image
<1> QED
  BY <1>3, <1>4, <1>5, CreateMaps

\* charm_create keeps FileInv and is a step of ByteFiles.
LEMMA CreateStep ==
    ASSUME FileInv, NEW f \in Files, Create(f)
    PROVE  Holds
<1>1. Changed(f, EmptyFile) /\ ~ Exists(f) /\ Unlocked(f) /\ UNCHANGED <<room, others, rename, broken, rough>>
  BY DEF Create, Changed
<1>2. TypeInv' /\ SlackOK' /\ Refined
  BY <1>1, FileCreated
<1>3. RenameOK' /\ Safe
  BY <1>1, RenameWaits DEF FileInv
<1> QED
  BY <1>2, <1>3 DEF Holds, FileInv

\* Blocks that go back to the free list.
LEMMA ReleaseGives ==
    ASSUME FileInv, NEW n, Release(n)
    PROVE  room' = room + n /\ broken' \in BOOLEAN
  BY DEF FileInv, TypeInv, Release

\* custom_unlink of a file.
LEMMA FileErased ==
    ASSUME FileInv, NEW f \in Files, Exists(f), Erase(f), UNCHANGED others
    PROVE  TypeInv' /\ SlackOK' /\ Refined /\ Changed(f, Absent)
<1>1. /\ Changed(f, Absent) /\ room' = room + Len(nodes[f].blocks) /\ rough' = rough \ {f}
      /\ broken' \in BOOLEAN
  BY ReleaseGives DEF Erase, Changed
<1>2. TypeInv /\ SlackOK /\ nodes[f] # Absent /\ Regular(nodes[f]) /\ room \in Nat
  BY DEF FileInv, TypeInv, Exists
<1>3. Len(nodes[f].blocks) \in Nat
  BY <1>2, RegularFacts
<1>4. TypeInv'
  <2>1. Blocks(Absent) = 0 /\ Blocks(nodes[f]) = Len(nodes[f].blocks)
    BY <1>2 DEF Blocks
  <2>2. room' \in Nat /\ Blocks(Absent) + room' <= Blocks(nodes[f]) + room
    BY <1>1, <1>2, <1>3, <2>1
  <2>3. broken' \in BOOLEAN /\ rough' \subseteq Files
    BY <1>1, <1>2 DEF TypeInv
  <2> QED
    BY <1>1, <1>2, <2>2, <2>3, FileChanged
<1>5. SlackOK'
  BY <1>1, <1>2, SlackElsewhere
<1>6. Data' = [Data EXCEPT ![f] = Absent] /\ Data[f] # Absent
  <2>1. Contents(nodes[f]) # Absent
    BY <1>2, ContentsFacts
  <2> QED
    BY <1>1, <1>2, <2>1, DataChanged DEF Image
<1> QED
  BY <1>1, <1>4, <1>5, <1>6, DeleteMaps

\* charm_unlink keeps FileInv and is a step of ByteFiles.
LEMMA UnlinkStep ==
    ASSUME FileInv, NEW f \in Files, Unlink(f)
    PROVE  Holds
<1>1. Unlocked(f) /\ Exists(f) /\ Erase(f) /\ UNCHANGED <<others, rename>>
  BY DEF Unlink
<1>2. TypeInv' /\ SlackOK' /\ Refined /\ Changed(f, Absent)
  BY <1>1, FileErased
<1>3. RenameOK' /\ Safe
  BY <1>1, <1>2, RenameWaits DEF FileInv
<1> QED
  BY <1>2, <1>3 DEF Holds, FileInv

\* What a write makes of a file: r is one of its results, written an offset and its bytes.
Written(f, r, offset, bytes) ==
    /\ Changed(f, r.node) /\ room' = r.room
    /\ rough' = IF r.n = Failed /\ r.node # nodes[f] THEN rough \cup {f} ELSE rough

\* custom_write: it succeeds as ByteFiles says, or misses a part of the bytes.
LEMMA FileWritten ==
    ASSUME FileInv, NEW f \in Files, Exists(f), NEW offset \in Nat, NEW bytes \in Seq(Nat), Len(bytes) # 0,
           offset + Len(bytes) <= MaxSize, NEW r \in WriteResults(nodes[f], bytes, offset),
           Written(f, r, offset, bytes), UNCHANGED <<others, broken>>
    PROVE  /\ TypeInv' /\ SlackOK' /\ Regular(nodes[f]) /\ Regular(r.node) /\ rough' \in {rough, rough \cup {f}}
           /\ (Succeeded(nodes[f], r, offset, bytes) /\ rough' = rough) \/ Missed(nodes[f], r, offset, bytes)
<1> DEFINE node == nodes[f]
<1>1. TypeInv /\ SlackOK /\ Regular(node) /\ node.file_size <= MaxSize /\ room \in Nat
  BY DEF FileInv, TypeInv, Exists
<1>2. /\ Regular(r.node) /\ r.room \in Nat
      /\ Len(node.blocks) <= Len(r.node.blocks)
      /\ r.room + Len(r.node.blocks) <= room + Len(node.blocks)
      /\ Succeeded(node, r, offset, bytes) \/ Missed(node, r, offset, bytes)
  BY <1>1, WriteGives
<1>3. Changed(f, r.node) /\ room' = r.room /\ rough' \in {rough, rough \cup {f}}
  BY DEF Written
<1>4. Len(bytes) \in Nat /\ node.file_size \in Nat /\ MaxSize \in Nat
  BY <1>1, RegularFacts, DataAssumption
<1>5. r.node.file_size <= MaxSize
  BY <1>1, <1>2, <1>4 DEF Succeeded, Missed
<1>6. TypeInv'
  <2>1. node # Absent /\ r.node # Absent
    BY <1>1, <1>2, NodeExists DEF Regular
  <2>2. Blocks(r.node) + room' <= Blocks(node) + room
    <3>1. Len(r.node.blocks) \in Nat /\ Len(node.blocks) \in Nat
      BY <1>1, <1>2, RegularFacts
    <3> QED
      BY <1>1, <1>2, <1>3, <2>1, <3>1 DEF Blocks
  <2>3. broken' \in BOOLEAN /\ rough' \subseteq Files
    BY <1>1, <1>3 DEF TypeInv
  <2> QED
    BY <1>1, <1>2, <1>3, <1>5, <2>2, <2>3, FileChanged
<1>7. Succeeded(node, r, offset, bytes) => rough' = rough
  <2>1. \A n \in Nat : n # Failed
    BY DEF Failed
  <2> QED
    BY <1>4, <2>1 DEF Written, Succeeded
<1>8. ASSUME Succeeded(node, r, offset, bytes), Clean(node)
      PROVE  Clean(r.node)
  <2>1. ASSUME NEW i \in Positive, i > r.node.file_size, i <= Room(r.node.blocks)
        PROVE  Byte(r.node.blocks, i) = 0
    <3>1. i > node.file_size /\ ~ i <= offset + Len(bytes)
      BY <1>4, <1>8, <2>1 DEF Succeeded, Positive
    <3>2. Byte(r.node.blocks, i) = IF i <= Room(node.blocks) THEN Byte(node.blocks, i) ELSE 0
      BY <1>8, <2>1, <3>1 DEF Succeeded, Overwritten
    <3> QED
      BY <1>8, <3>1, <3>2 DEF Clean
  <2> QED
    BY <2>1 DEF Clean
<1>9. f \notin rough' => Clean(r.node)
  <2>1. CASE Succeeded(node, r, offset, bytes)
    BY <1>1, <1>7, <1>8, <2>1 DEF SlackOK, Exists
  <2>2. CASE Missed(node, r, offset, bytes)
    <3>1. f \notin rough' => r.node = node /\ f \notin rough
      BY <2>2 DEF Written, Missed
    <3> QED
      BY <1>1, <3>1 DEF SlackOK, Exists
  <2> QED
    BY <1>2, <2>1, <2>2
<1>10. SlackOK'
  BY <1>1, <1>3, <1>9, SlackElsewhere
<1> QED
  BY <1>1, <1>2, <1>3, <1>6, <1>7, <1>10

\* charm_write keeps FileInv and is a step of ByteFiles.
LEMMA WriteStep ==
    ASSUME FileInv, NEW f \in Files, NEW offset \in Offsets, NEW bytes \in Payloads, Write(f, offset, bytes)
    PROVE  Holds
<1> DEFINE node == nodes[f]
<1>1. PICK r \in WriteResults(node, bytes, offset) : Written(f, r, offset, bytes)
  BY DEF Write, Written, Changed
<1>2. /\ offset \in Nat /\ bytes \in Seq(Nat) /\ bytes # <<>> /\ Len(bytes) \in Nat
      /\ offset + Len(bytes) <= MaxSize /\ Exists(f) /\ Unlocked(f)
      /\ UNCHANGED <<others, rename, broken>>
  BY DataAssumption DEF Write
<1>3. Len(bytes) # 0
  BY <1>2, EmptySeq
<1>4. /\ TypeInv' /\ SlackOK' /\ Regular(node) /\ Regular(r.node) /\ rough' \in {rough, rough \cup {f}}
      /\ (Succeeded(node, r, offset, bytes) /\ rough' = rough) \/ Missed(node, r, offset, bytes)
  BY <1>1, <1>2, <1>3, FileWritten
<1>5. Changed(f, r.node) /\ TypeInv /\ SlackOK
  BY <1>1 DEF Written, FileInv
<1>6. RenameOK' /\ Safe
  BY <1>2, <1>5, RenameWaits DEF FileInv
<1>7. /\ Contents(node) # Absent /\ node # Absent /\ node.file_size \in Nat /\ Len(Contents(node)) = node.file_size
      /\ \A i \in 1 .. node.file_size : Contents(node)[i] = Byte(node.blocks, i)
      /\ Contents(node) \in Seq(Nat)
  BY <1>4, ContentsFacts
<1> DEFINE new == Contents(r.node)
<1>8. /\ new # Absent /\ r.node # Absent /\ r.node.file_size \in Nat /\ Len(new) = r.node.file_size
      /\ \A i \in 1 .. r.node.file_size : new[i] = Byte(r.node.blocks, i)
      /\ new \in Seq(Nat)
  BY <1>4, ContentsFacts
<1>9. Data' = [Data EXCEPT ![f] = new] /\ Data[f] = Contents(node)
  BY <1>5, <1>7, <1>8, DataChanged DEF Image
<1>10. DOMAIN new = 1 .. r.node.file_size /\ DOMAIN Contents(node) = 1 .. node.file_size
  BY DEF Contents
<1>11. /\ Room(node.blocks) \in Nat /\ node.file_size <= Room(node.blocks)
       /\ Room(r.node.blocks) \in Nat /\ r.node.file_size <= Room(r.node.blocks)
  BY <1>4, RegularFacts, RoomFacts
<1> HIDE DEF node, new
<1>12. CASE Succeeded(node, r, offset, bytes) /\ rough' = rough
  <2>1. Len(new) = IF offset + Len(bytes) > Len(Data[f]) THEN offset + Len(bytes) ELSE Len(Data[f])
    BY <1>2, <1>7, <1>8, <1>9, <1>12 DEF Succeeded
  <2>2. ASSUME NEW i \in DOMAIN new
        PROVE  IF i > offset /\ i <= offset + Len(bytes) THEN new[i] = bytes[i - offset]
               ELSE IF i <= Len(Data[f]) THEN new[i] = Data[f][i]
               ELSE f \notin rough => new[i] = 0
    <3>1. i \in Positive /\ i \in 1 .. r.node.file_size
      BY <1>8, <1>10, <2>2 DEF Positive
    <3>2. i <= Room(r.node.blocks)
      BY <1>8, <1>11, <3>1
    <3>3. new[i] = IF i > offset /\ i <= offset + Len(bytes) THEN bytes[i - offset]
                   ELSE IF i <= Room(node.blocks) THEN Byte(node.blocks, i) ELSE 0
      BY <1>8, <1>12, <3>1, <3>2 DEF Succeeded, Overwritten
    <3>4. i <= Len(Data[f]) => i <= Room(node.blocks) /\ Data[f][i] = Byte(node.blocks, i)
      BY <1>7, <1>9, <1>11, <3>1
    <3>5. ~ i <= Len(Data[f]) /\ f \notin rough /\ i <= Room(node.blocks) => Byte(node.blocks, i) = 0
      <4>1. f \notin rough => Clean(node)
        BY <1>5, <1>7 DEF SlackOK, Exists, node
      <4> QED
        BY <1>7, <1>9, <3>1, <4>1 DEF Clean, Positive
    <3> QED
      BY <3>3, <3>4, <3>5
  <2>3. Refined
    BY <1>7, <1>8, <1>9, <1>12, <2>1, <2>2, WriteMaps
  <2> QED
    BY <1>4, <1>6, <2>3 DEF Holds, FileInv
<1>13. CASE Missed(node, r, offset, bytes)
  <2>1. CASE rough' = rough \cup {f}
    <3>1. PICK m \in 0 .. Len(bytes) : Overwritten(node.blocks, r.node.blocks, offset, bytes, m)
      BY <1>13 DEF Missed
    <3>2. r.node.file_size = node.file_size
      BY <1>13 DEF Missed
    <3>3. ASSUME NEW i \in DOMAIN Data[f]
          PROVE  new[i] = IF i > offset /\ i <= offset + m THEN bytes[i - offset] ELSE Data[f][i]
      <4>1. i \in Positive /\ i \in 1 .. node.file_size
        BY <1>7, <1>9, <1>10, <3>3 DEF Positive
      <4>2. i <= Room(r.node.blocks) /\ i <= Room(node.blocks)
        BY <1>7, <1>11, <3>2, <4>1
      <4> QED
        BY <1>7, <1>8, <1>9, <3>1, <3>2, <4>1, <4>2 DEF Overwritten
    <3>4. Len(new) = Len(Data[f]) /\ Data[f] # Absent /\ new # Absent
      BY <1>7, <1>8, <1>9, <3>2
    <3>5. Data' = [Data EXCEPT ![f] = new]
      BY <1>9
    <3>6. PartlyWritten(Data[f], new)
      BY <3>3 DEF PartlyWritten
    <3>7. Refined
      BY <2>1, <3>4, <3>5, <3>6, FailedWriteMaps
    <3> QED
      BY <1>4, <1>6, <3>7 DEF Holds, FileInv
  <2>2. CASE rough' # rough \cup {f}
    <3>1. rough' = rough
      BY <1>4, <2>2
    <3>2. r.node = node \/ f \in rough
      <4>1. r.n = Failed
        BY <1>13 DEF Missed
      <4> QED
        BY <1>1, <2>2, <4>1 DEF Written, node
    <3>3. f \notin rough
      BY <2>2, <3>1
    <3>4. UNCHANGED nodes
      <4>1. DOMAIN nodes = Files \cup Dirs /\ nodes = [p \in Files \cup Dirs |-> nodes[p]]
        BY <1>5 DEF TypeInv
      <4> QED
        BY <1>5, <3>2, <3>3, <4>1 DEF Changed, node
    <3>5. Refined
      BY <3>1, <3>4, NoChange
    <3> QED
      BY <1>4, <1>6, <3>5 DEF Holds, FileInv
  <2> QED
    BY <2>1, <2>2
<1> QED
  BY <1>4, <1>12, <1>13

\* The contents of a file that was cut are the first bytes of what they were.
LEMMA ContentsCut ==
    ASSUME NEW old, Regular(old), NEW new, Regular(new), new.file_size <= old.file_size,
           \A i \in 1 .. new.file_size : Byte(new.blocks, i) = Byte(old.blocks, i)
    PROVE  Contents(new) = SubSeq(Contents(old), 1, new.file_size) /\ new.file_size \in 0 .. Len(Contents(old))
<1>1. /\ old.file_size \in Nat /\ Len(Contents(old)) = old.file_size /\ Contents(old) \in Seq(Nat)
      /\ \A i \in 1 .. old.file_size : Contents(old)[i] = Byte(old.blocks, i)
  BY ContentsFacts
<1>2. /\ new.file_size \in Nat /\ Len(Contents(new)) = new.file_size /\ Contents(new) \in Seq(Nat)
      /\ \A i \in 1 .. new.file_size : Contents(new)[i] = Byte(new.blocks, i)
  BY ContentsFacts
<1> DEFINE cut == SubSeq(Contents(old), 1, new.file_size)
<1>3. cut \in Seq(Nat) /\ Len(cut) = new.file_size /\ \A i \in 1 .. new.file_size : cut[i] = Contents(old)[i]
  BY <1>1, <1>2
<1>4. \A i \in 1 .. new.file_size : Contents(new)[i] = cut[i]
  BY <1>1, <1>2, <1>3
<1> HIDE DEF cut
<1>5. Contents(new) = cut
  BY <1>2, <1>3, <1>4, SeqEqual
<1> QED
  BY <1>1, <1>2, <1>5 DEF cut

\* The contents of a file whose size a failed truncation left, with zeros from the cut on.
LEMMA ContentsZeroed ==
    ASSUME NEW old, Regular(old), NEW new, Regular(new), NEW offset \in Nat, offset <= old.file_size,
           new.file_size = old.file_size, Len(new.blocks) = Len(old.blocks),
           \A i \in 1 .. offset : Byte(new.blocks, i) = Byte(old.blocks, i),
           \A i \in Positive : i > offset /\ i <= Room(new.blocks) => Byte(new.blocks, i) = 0
    PROVE  /\ Contents(new) = [i \in DOMAIN Contents(old) |-> IF i <= offset THEN Contents(old)[i] ELSE 0]
           /\ offset \in 0 .. Len(Contents(old))
<1>1. /\ old.file_size \in Nat /\ Len(Contents(old)) = old.file_size
      /\ \A i \in 1 .. old.file_size : Contents(old)[i] = Byte(old.blocks, i)
  BY ContentsFacts
<1>2. new.file_size <= Room(new.blocks) /\ new.blocks \in Seq(Bytes) /\ Room(new.blocks) \in Nat
  BY RegularFacts, RoomFacts
<1>3. ASSUME NEW i \in 1 .. old.file_size
      PROVE  Byte(new.blocks, i) = IF i <= offset THEN Contents(old)[i] ELSE 0
  <2>1. i \in Positive /\ i <= Room(new.blocks)
    BY <1>1, <1>2 DEF Positive
  <2>2. i <= offset => i \in 1 .. offset
    BY <1>1
  <2> QED
    BY <1>1, <2>1, <2>2
<1>4. /\ Contents(new) = [i \in 1 .. old.file_size |-> Byte(new.blocks, i)]
      /\ DOMAIN Contents(old) = 1 .. old.file_size
  BY DEF Contents
<1> QED
  BY <1>1, <1>3, <1>4

\* A cut behind the last block keeps all of them.
LEMMA KeptWhole ==
    ASSUME NEW old \in Seq(Bytes), NEW offset \in Nat, Len(Kept(old, offset)) = Len(old)
    PROVE  Kept(old, offset) = old
<1> DEFINE n == offset \div BLOCK_SIZE + 1
<1>1. n \in Nat /\ Len(old) \in Nat
  <2>1. offset \div BLOCK_SIZE \in Nat
    BY QuotientFacts
  <2> QED
    BY <2>1
<1> HIDE DEF n
<1>2. Kept(old, offset) = SubSeq(old, 1, n)
  BY DEF Kept, n
<1>3. Len(SubSeq(old, 1, n)) = n
  BY <1>1
<1>4. SubSeq(old, 1, n) \in Seq(Bytes) /\ \A i \in 1 .. n : SubSeq(old, 1, n)[i] = old[i]
  BY <1>1, <1>2, <1>3
<1> QED
  BY <1>1, <1>2, <1>3, <1>4, SeqEqual

\* A step that changes nothing.
LEMMA Untouched ==
    ASSUME FileInv, UNCHANGED <<nodes, room, others, rename, broken, rough>>
    PROVE  Holds
<1>1. RenameOK'
  BY DEF FileInv, RenameOK, Copying
<1>2. room' \in Nat /\ others' \in 0 .. Elsewhere /\ room' + others' <= room + others /\ broken' \in BOOLEAN
  <2>1. room \in Nat /\ others \in Int /\ others \in 0 .. Elsewhere /\ broken \in BOOLEAN
    BY DataAssumption DEF FileInv, TypeInv
  <2> QED
    BY <2>1
<1> QED
  BY <1>1, <1>2, FilesUntouched DEF Holds, FileInv

\* charm_truncate keeps FileInv and is a step of ByteFiles.
LEMMA TruncateStep ==
    ASSUME FileInv, NEW f \in Files, NEW offset \in Offsets, Truncate(f, offset)
    PROVE  Holds
<1> DEFINE node == nodes[f]
           kept == Kept(node.blocks, offset)
           zeroed == Zeroed(node.blocks, offset)
<1>1. /\ Unlocked(f) /\ Exists(f) /\ offset <= node.file_size /\ node.file_size # 0
      /\ UNCHANGED <<others, rename>>
  BY DEF Truncate
<1>2. TypeInv /\ SlackOK /\ Regular(node) /\ node.file_size <= MaxSize /\ room \in Nat /\ broken \in BOOLEAN
  BY <1>1 DEF FileInv, TypeInv, Exists
<1>3. offset \in Nat
  BY DataAssumption
<1>4. /\ node.file_size \in Nat /\ Contents(node) # Absent /\ node # Absent
      /\ Len(node.blocks) \in Nat
  BY <1>2, ContentsFacts, RegularFacts
<1>5. CASE /\ \E blocks \in {zeroed} \cup (IF IOFaults THEN {kept} ELSE {}) :
                 /\ nodes' = [nodes EXCEPT ![f] = [file_size |-> offset, blocks |-> blocks]]
                 /\ rough' = (IF blocks = zeroed THEN rough ELSE rough \cup {f})
           /\ Release(Len(node.blocks) - Len(kept))
  <2>1. PICK blocks \in {zeroed, kept} :
              /\ nodes' = [nodes EXCEPT ![f] = [file_size |-> offset, blocks |-> blocks]]
              /\ rough' = (IF blocks = zeroed THEN rough ELSE rough \cup {f})
    <3> HIDE DEF zeroed, kept, node
    <3> QED
      BY <1>5
  <2> DEFINE new == [file_size |-> offset, blocks |-> blocks]
  <2>2. /\ Regular(new) /\ Len(kept) = Len(blocks) /\ Len(blocks) <= Len(node.blocks)
        /\ \A i \in 1 .. offset : Byte(blocks, i) = Byte(node.blocks, i)
        /\ blocks = zeroed => \A i \in Positive : i > offset /\ i <= Room(blocks) => Byte(blocks, i) = 0
    <3>1. blocks = zeroed \/ blocks = kept
      BY <2>1
    <3>2. Regular(node) /\ offset <= node.file_size /\ node.file_size # 0
      BY <1>1, <1>2
    <3> QED
      BY <1>3, <3>1, <3>2, CutGives
  <2>3. /\ Changed(f, new) /\ room' = room + (Len(node.blocks) - Len(blocks)) /\ broken' \in BOOLEAN
        /\ rough' = (IF blocks = zeroed THEN rough ELSE rough \cup {f})
    BY <1>5, <2>1, <2>2, ReleaseGives DEF Changed
  <2>4. new.file_size = offset /\ new.blocks = blocks
    OBVIOUS
  <2> HIDE DEF zeroed, kept, node, new
  <2>5. Len(blocks) \in Nat /\ new # Absent /\ Contents(new) # Absent
    BY <2>2, <2>4, RegularFacts, ContentsFacts
  <2>6. TypeInv'
    <3>1. new.file_size <= MaxSize
      <4>1. MaxSize \in Nat
        BY DataAssumption
      <4> QED
        BY <1>1, <1>2, <1>3, <1>4, <2>4, <4>1
    <3>2. Blocks(new) = Len(blocks) /\ Blocks(nodes[f]) = Len(node.blocks)
      BY <1>4, <2>4, <2>5 DEF Blocks, node
    <3>3. room' \in Nat /\ Blocks(new) + room' <= Blocks(nodes[f]) + room
      BY <1>2, <1>4, <2>2, <2>3, <2>5, <3>2
    <3>4. broken' \in BOOLEAN /\ rough' \subseteq Files
      BY <1>2, <2>1, <2>3 DEF TypeInv
    <3> QED
      BY <1>1, <1>2, <2>2, <2>3, <3>1, <3>3, <3>4, FileChanged
  <2>7. SlackOK'
    <3>1. f \notin rough' => Clean(new)
      BY <2>2, <2>3, <2>4 DEF Clean
    <3> QED
      BY <1>2, <2>3, <3>1, SlackElsewhere
  <2>8. RenameOK' /\ Safe
    BY <1>1, <1>2, <2>3, RenameWaits DEF FileInv
  <2>9. Refined
    <3>1. Contents(new) = SubSeq(Contents(node), 1, offset) /\ offset \in 0 .. Len(Contents(node))
      BY <1>1, <1>2, <2>2, <2>4, ContentsCut
    <3>2. Data[f] = Contents(node) /\ Data' = [Data EXCEPT ![f] = Contents(new)]
      BY <1>2, <1>4, <2>3, <2>5, DataChanged DEF Image, node
    <3>3. rough' \in {rough, rough \cup {f}}
      BY <2>3
    <3> QED
      BY <1>4, <3>1, <3>2, <3>3, CutMaps
  <2> QED
    BY <2>6, <2>7, <2>8, <2>9 DEF Holds, FileInv
<1>6. CASE /\ Len(kept) = Len(node.blocks)
           /\ \E blocks \in {zeroed} \cup (IF IOFaults THEN {kept} ELSE {}) :
                 nodes' = [nodes EXCEPT ![f].blocks = blocks]
           /\ UNCHANGED <<room, broken, rough>>
  <2>1. PICK blocks \in {zeroed, kept} : nodes' = [nodes EXCEPT ![f].blocks = blocks]
    <3> HIDE DEF zeroed, kept, node
    <3> QED
      BY <1>6
  <2> DEFINE new == [node EXCEPT !.blocks = blocks]
             cut == [file_size |-> offset, blocks |-> blocks]
  <2>2. Changed(f, new) /\ UNCHANGED <<room, others, rename, broken, rough>>
    BY <1>1, <1>6, <2>1 DEF Changed
  <2>3. CASE blocks = kept
    <3>1. blocks = node.blocks
      BY <1>2, <1>3, <1>6, <2>3, KeptWhole, RegularFacts
    <3>2. node \in Node
      BY <1>2 DEF Regular
    <3>3. new = node
      <4> HIDE DEF kept, zeroed, node
      <4> QED
        BY <3>1, <3>2 DEF Node
    <3>4. nodes' = [nodes EXCEPT ![f] = node] /\ nodes = [p \in Files \cup Dirs |-> nodes[p]]
      BY <1>2, <2>2, <3>3 DEF Changed, TypeInv
    <3>5. UNCHANGED nodes
      BY <3>4
    <3> QED
      BY <2>2, <3>5, Untouched
  <2>4. CASE blocks = zeroed
    <3>1. /\ Regular(cut) /\ Len(blocks) = Len(node.blocks)
          /\ \A i \in 1 .. offset : Byte(blocks, i) = Byte(node.blocks, i)
          /\ \A i \in Positive : i > offset /\ i <= Room(blocks) => Byte(blocks, i) = 0
      BY <1>1, <1>2, <1>3, <1>6, <2>4, CutGives
    <3>2. Regular(new) /\ new.file_size = node.file_size /\ new.blocks = blocks
      BY <1>2, <3>1 DEF Regular, Node
    <3> HIDE DEF zeroed, kept, new, cut
    <3>3. TypeInv'
      <4>1. Blocks(new) = Len(blocks) /\ Blocks(nodes[f]) = Len(node.blocks)
        BY <1>4, <3>2, ContentsFacts DEF Blocks
      <4>2. room' \in Nat /\ Blocks(new) + room' <= Blocks(nodes[f]) + room
        BY <1>2, <1>4, <2>2, <3>1, <4>1
      <4>3. broken' \in BOOLEAN /\ rough' \subseteq Files /\ new.file_size <= MaxSize
        BY <1>2, <2>2, <3>2 DEF TypeInv
      <4> QED
        BY <1>2, <2>2, <3>2, <4>2, <4>3, FileChanged
    <3>4. SlackOK'
      <4>1. Clean(new)
        BY <1>1, <1>3, <1>4, <3>1, <3>2 DEF Clean, Positive
      <4> QED
        BY <1>2, <2>2, <4>1, SlackElsewhere
    <3>5. RenameOK' /\ Safe
      BY <1>1, <1>2, <2>2, RenameWaits DEF FileInv
    <3>6. Refined
      <4>1. /\ Contents(new) = [i \in DOMAIN Contents(node) |-> IF i <= offset THEN Contents(node)[i] ELSE 0]
            /\ offset \in 0 .. Len(Contents(node))
        BY <1>1, <1>2, <1>3, <3>1, <3>2, ContentsZeroed
      <4>2. Data[f] = Contents(node) /\ Data' = [Data EXCEPT ![f] = Contents(new)] /\ UNCHANGED rough
        BY <1>2, <1>4, <2>2, <3>2, DataChanged, ContentsFacts DEF Image
      <4> QED
        BY <1>4, <4>1, <4>2, FailedCutMaps
    <3> QED
      BY <3>3, <3>4, <3>5, <3>6 DEF Holds, FileInv
  <2> QED
    BY <2>1, <2>3, <2>4
<1>7. CASE broken' = TRUE /\ UNCHANGED <<nodes, room, rough>>
  <2>1. room' \in Nat /\ others' \in 0 .. Elsewhere /\ room' + others' <= room + others
    <3>1. others \in 0 .. Elsewhere /\ Elsewhere \in Nat
      BY <1>2, DataAssumption DEF TypeInv
    <3> QED
      BY <1>1, <1>2, <1>7, <3>1
  <2> QED
    BY <1>1, <1>7, <2>1, FilesUntouched DEF Holds, FileInv
<1> QED
  BY <1>5, <1>6, <1>7 DEF Truncate, Kept, Zeroed

\* The first call of charm_rename keeps FileInv and is a step of ByteFiles.
LEMMA RenameStarts ==
    ASSUME FileInv, NEW from \in Files \cup Dirs, NEW to \in Files, RenameBegins(from, to)
    PROVE  Holds
<1>1. /\ rename.pc = "idle" /\ nodes[from] # Absent /\ ~ Exists(to) /\ Changed(to, EmptyFile)
      /\ rename' = [pc |-> "read", from |-> from, to |-> to, offset |-> 0, buffer |-> NoBytes, misread |-> FALSE,
                    original |-> nodes[from]]
      /\ UNCHANGED <<room, others, broken, rough>>
  BY DEF RenameBegins, Changed, Exists
<1>2. TypeInv' /\ SlackOK' /\ Refined
  BY <1>1, FileCreated
<1>3. Safe
  BY <1>1 DEF Safe
<1>4. nodes[from] \in Node /\ nodes[from].file_size \in Nat
  <2>1. CASE from \in Files
    BY <1>1, <2>1 DEF FileInv, TypeInv, Exists, Regular, Node
  <2>2. CASE from \in Dirs
    BY <2>2, DirectoryNode DEF FileInv, TypeInv, Node
  <2> QED
    BY <2>1, <2>2
<1>5. from # to
  BY <1>1 DEF Exists
<1>6. nodes'[from] = nodes[from] /\ nodes'[to] = EmptyFile
  BY <1>1, <1>5, OthersSame DEF FileInv
<1>7. rename' \in Renames
  <2>1. "read" \in {"read", "write", "unlink"} /\ 0 \in Nat \cup {Failed} /\ FALSE \in BOOLEAN
    OBVIOUS
  <2>2. NoBytes \in [n : Nat \cup {Failed}, bytes : Seq(Nat)]
    BY DEF NoBytes
  <2> QED
    BY <1>1, <1>4, <2>1, <2>2 DEF Renames
<1>8. /\ rename'.pc = "read" /\ rename'.from = from /\ rename'.to = to /\ rename'.offset = 0
      /\ rename'.original = nodes[from]
  BY <1>1
<1>9. EmptyFile # Absent /\ EmptyFile.file_size = 0
  BY EmptyFileFacts, ContentsFacts DEF EmptyFile
<1>10. Copying(nodes[rename.from], nodes[rename.to])'
  <2>1. "read" # "write" /\ "read" # "unlink"
    OBVIOUS
  <2> QED
    BY <1>4, <1>5, <1>6, <1>7, <1>8, <1>9, <2>1 DEF Copying, Begins
<1> QED
  BY <1>2, <1>3, <1>10 DEF Holds, FileInv, RenameOK

\* Blocks taken and given back elsewhere keep FileInv.
LEMMA OthersStep ==
    ASSUME FileInv, (OthersTake /\ UNCHANGED broken) \/ OthersGive, UNCHANGED <<nodes, rename, rough>>
    PROVE  Holds
<1>1. room \in Nat /\ others \in 0 .. Elsewhere /\ broken \in BOOLEAN /\ Elsewhere \in Nat
  BY DataAssumption DEF FileInv, TypeInv
<1>2. CASE OthersTake /\ UNCHANGED broken
  <2>1. room' \in Nat /\ others' \in 0 .. Elsewhere /\ room' + others' <= room + others
    BY <1>1, <1>2 DEF OthersTake
  <2> QED
    BY <1>1, <1>2, <2>1, FilesUntouched DEF Holds, FileInv
<1>3. CASE OthersGive
  <2>1. room' = room + 1 /\ broken' \in BOOLEAN
    BY <1>3, ReleaseGives DEF OthersGive
  <2>2. room' \in Nat /\ others' \in 0 .. Elsewhere /\ room' + others' <= room + others
    BY <1>1, <1>3, <2>1 DEF OthersGive
  <2> QED
    BY <2>1, <2>2, FilesUntouched DEF Holds, FileInv
<1> QED
  BY <1>2, <1>3

\* custom_read reads nothing from a directory.
LEMMA DirectoryReads ==
    ASSUME NEW offset \in {0, Failed}, NEW r \in ReadResults(Directory, BLOCK_SIZE, offset)
    PROVE  r = NoBytes
<1>1. /\ Directory.file_size = BLOCK_SIZE /\ Directory.blocks \in Seq(Bytes) /\ Len(Directory.blocks) = 1
      /\ BLOCK_SIZE \in Nat /\ BLOCK_SIZE # 0
  BY DirectoryNode, SizeFacts
<1>2. CASE offset = Failed
  BY <1>1, <1>2 DEF ReadResults, Exceeds
<1>3. CASE offset = 0
  <2>1. Within(Directory, BLOCK_SIZE, offset) = BLOCK_SIZE
    <3>1. BLOCK_SIZE - 0 = BLOCK_SIZE /\ BLOCK_SIZE \in Int
      BY <1>1
    <3> QED
      BY <1>1, <1>3, <3>1, MinMax DEF Within
  <2>2. ~ There(Parts(offset, BLOCK_SIZE), Directory.blocks)
    <3>1. LastBlock(0, BLOCK_SIZE) = 1
      BY SizeFacts DEF LastBlock
    <3>2. 0 \in Nat
      OBVIOUS
    <3>3. There(Parts(0, BLOCK_SIZE), Directory.blocks) <=> LastBlock(0, BLOCK_SIZE) + 1 <= Len(Directory.blocks)
      BY <1>1, <3>2, PartsThere
    <3> QED
      BY <1>1, <1>3, <3>1, <3>3
  <2> QED
    BY <1>1, <2>1, <2>2 DEF ReadResults
<1> QED
  BY <1>2, <1>3

\* What Copying says of the two files, and which paths they have.
LEMMA UnderWay ==
    ASSUME FileInv, rename.pc # "idle"
    PROVE  /\ Copying(nodes[rename.from], nodes[rename.to]) /\ rename \in Renames
           /\ rename.to \in Files /\ rename.from \in (Files \cup Dirs) \ {rename.to}
           /\ nodes[rename.from] = rename.original
           /\ Regular(nodes[rename.to]) /\ nodes[rename.to].file_size <= MaxSize
           /\ rename.from \in Dirs => nodes[rename.from] = Directory
           /\ rename.from \in Files => Regular(nodes[rename.from]) /\ nodes[rename.from].file_size <= MaxSize
<1>1. Copying(nodes[rename.from], nodes[rename.to])
  BY DEF FileInv, RenameOK, Idle
<1>2. /\ rename \in Renames /\ rename.to \in Files /\ rename.from \in Files \cup Dirs /\ rename.original \in Node
      /\ rename.from # rename.to /\ nodes[rename.from] = rename.original /\ nodes[rename.to] # Absent
  BY <1>1 DEF Copying, Renames
<1>3. rename.original # Absent
  BY <1>2, NodeExists
<1>4. /\ Regular(nodes[rename.to]) /\ nodes[rename.to].file_size <= MaxSize
      /\ rename.from \in Dirs => nodes[rename.from] = Directory
      /\ rename.from \in Files => Regular(nodes[rename.from]) /\ nodes[rename.from].file_size <= MaxSize
  BY <1>2, <1>3 DEF FileInv, TypeInv, Exists
<1> QED
  BY <1>1, <1>2, <1>4

\* A step of a rename that leaves all files alone is a stutter of ByteFiles.
LEMMA BlocksUntouched ==
    ASSUME FileInv, RenameOK', UNCHANGED <<nodes, room, others, broken, rough>>
    PROVE  Holds
<1>1. room' \in Nat /\ others' \in 0 .. Elsewhere /\ room' + others' <= room + others /\ broken' \in BOOLEAN
  <2>1. room \in Nat /\ others \in Int /\ others \in 0 .. Elsewhere /\ broken \in BOOLEAN
    BY DataAssumption DEF FileInv, TypeInv
  <2> QED
    BY <2>1
<1> QED
  BY <1>1, FilesUntouched DEF Holds, FileInv

\* A read of charm_rename keeps FileInv.
LEMMA RenameReadsStep ==
    ASSUME FileInv, RenameReads
    PROVE  Holds
<1> DEFINE old == nodes[rename.from]
           new == nodes[rename.to]
           offset == rename.offset
<1>1. rename.pc = "read" /\ UNCHANGED <<nodes, room, others, broken, rough>>
  BY DEF RenameReads
<1>2. PICK r \in ReadResults(old, BLOCK_SIZE, offset) :
            rename' = IF r.n = 0 THEN [rename EXCEPT !.pc = "unlink"]
                      ELSE [rename EXCEPT !.pc = "write", !.buffer = r, !.misread = @ \/ r.n = Failed]
  BY DEF RenameReads
<1>3. /\ Copying(old, new) /\ rename \in Renames
      /\ rename.to \in Files /\ rename.from \in (Files \cup Dirs) \ {rename.to}
      /\ Regular(new)
      /\ rename.from \in Dirs => old = Directory
      /\ rename.from \in Files => Regular(old)
  BY <1>1, UnderWay
<1>4. /\ old = rename.original /\ new # Absent /\ Begins(new, old) /\ new.file_size <= old.file_size
      /\ offset # Failed => offset <= new.file_size
      /\ rename.from \in Dirs => new.file_size = 0
      /\ offset \in Nat \cup {Failed}
  BY <1>3 DEF Copying, Renames, Begins
<1>5. new.file_size \in Nat
  BY <1>3, RegularFacts
<1>6. \/ r = NoBytes
      \/ /\ rename.from \in Files /\ r = Got(<<>>) /\ old.file_size = new.file_size
      \/ /\ rename.from \in Files /\ offset # Failed
         /\ \E end \in offset .. old.file_size :
               /\ end = offset => old.file_size = new.file_size
               /\ r = Got(Slice(old.blocks, offset, end)) /\ Slice(old.blocks, offset, end) \in Seq(Nat)
               /\ Len(Slice(old.blocks, offset, end)) = end - offset
  <2>1. CASE rename.from \in Dirs
    <3>1. offset \in {0, Failed}
      BY <1>4, <1>5, <2>1
    <3> QED
      BY <1>2, <1>3, <2>1, <3>1, DirectoryReads
  <2>2. CASE rename.from \in Files
    <3> DEFINE size == old.file_size
               end == IF offset + BLOCK_SIZE <= size THEN offset + BLOCK_SIZE ELSE size
    <3>1. Regular(old) /\ BLOCK_SIZE \in Nat /\ BLOCK_SIZE >= 1
      BY <1>3, <2>2, SizeFacts
    <3>2. \/ r = NoBytes
          \/ size = 0 /\ r = Got(<<>>)
          \/ size # 0 /\ offset \in 0 .. size /\ end \in offset .. size /\ r = Got(Slice(old.blocks, offset, end))
      BY <1>2, <1>4, <3>1, ReadGives
    <3>3. size \in Nat /\ old.blocks \in Seq(Bytes) /\ size <= Room(old.blocks) /\ Room(old.blocks) \in Nat
      BY <3>1, RegularFacts, RoomFacts
    <3> HIDE DEF old, new, offset
    <3>4. CASE size # 0 /\ offset \in 0 .. size /\ end \in offset .. size /\ r = Got(Slice(old.blocks, offset, end))
      <4>1. offset \in Nat /\ offset # Failed /\ offset <= new.file_size
        BY <1>4, <3>3, <3>4 DEF Failed
      <4>2. end = offset => size = new.file_size
        BY <1>4, <1>5, <3>1, <3>3, <3>4, <4>1
      <4>3. end \in Nat /\ offset <= end /\ end <= size
        BY <3>3, <3>4, <4>1
      <4> HIDE DEF end
      <4>4. end <= Room(old.blocks)
        BY <3>3, <4>3
      <4>5. Slice(old.blocks, offset, end) \in Seq(Nat) /\ Len(Slice(old.blocks, offset, end)) = end - offset
        BY <3>3, <4>1, <4>3, <4>4, SliceType
      <4> QED
        BY <2>2, <3>4, <4>1, <4>2, <4>5
    <3>5. CASE size = 0 /\ r = Got(<<>>)
      <4>1. size = new.file_size
        BY <1>4, <1>5, <3>5
      <4> QED
        BY <2>2, <3>5, <4>1
    <3> QED
      BY <3>2, <3>4, <3>5
  <2> QED
    BY <1>3, <2>1, <2>2
<1> HIDE DEF old, new, offset
<1>7. /\ r \in [n : Nat \cup {Failed}, bytes : Seq(Nat)]
      /\ r.n = 0 => rename.from \in Files /\ new.file_size = old.file_size
      /\ r.n # 0 /\ r.n # Failed =>
           /\ rename.from \in Files /\ offset # Failed
           /\ Len(r.bytes) # 0 /\ offset + Len(r.bytes) <= old.file_size
           /\ r = Got(Slice(old.blocks, offset, offset + Len(r.bytes)))
  <2>1. CASE r = NoBytes
    BY <2>1 DEF NoBytes, Failed
  <2>2. CASE rename.from \in Files /\ r = Got(<<>>) /\ old.file_size = new.file_size
    BY <2>2 DEF Got
  <2>3. CASE /\ rename.from \in Files /\ offset # Failed
             /\ \E end \in offset .. old.file_size :
                   /\ end = offset => old.file_size = new.file_size
                   /\ r = Got(Slice(old.blocks, offset, end)) /\ Slice(old.blocks, offset, end) \in Seq(Nat)
                   /\ Len(Slice(old.blocks, offset, end)) = end - offset
    <3>1. PICK end \in offset .. old.file_size :
                   /\ end = offset => old.file_size = new.file_size
                   /\ r = Got(Slice(old.blocks, offset, end)) /\ Slice(old.blocks, offset, end) \in Seq(Nat)
                   /\ Len(Slice(old.blocks, offset, end)) = end - offset
      BY <2>3
    <3>2. r.n = end - offset /\ Len(r.bytes) = end - offset /\ r.bytes \in Seq(Nat)
      BY <3>1 DEF Got
    <3>3. offset \in Int /\ end \in Int /\ end <= old.file_size /\ offset <= end
      BY <1>4, <3>1 DEF Failed
    <3>4. offset + Len(r.bytes) = end /\ r.n \in Nat /\ (r.n = 0 => end = offset)
      BY <3>2, <3>3
    <3>5. r = [n |-> r.n, bytes |-> r.bytes]
      BY <3>1 DEF Got
    <3>6. r \in [n : Nat \cup {Failed}, bytes : Seq(Nat)]
      BY <3>2, <3>4, <3>5
    <3> QED
      BY <2>3, <3>1, <3>2, <3>3, <3>4, <3>6
  <2> QED
    BY <1>6, <2>1, <2>2, <2>3
<1>8. /\ rename'.from = rename.from /\ rename'.to = rename.to /\ rename'.offset = rename.offset
      /\ rename'.original = rename.original
      /\ rename'.pc = (IF r.n = 0 THEN "unlink" ELSE "write") /\ (r.n # 0 => rename'.buffer = r)
      /\ rename' \in Renames
  <2>1. CASE r.n = 0
    BY <1>2, <1>3, <2>1 DEF Renames
  <2>2. CASE r.n # 0
    <3>1. (rename.misread \/ r.n = Failed) \in BOOLEAN
      OBVIOUS
    <3>2. rename' = [rename EXCEPT !.pc = "write", !.buffer = r, !.misread = (rename.misread \/ r.n = Failed)]
      BY <1>2, <2>2
    <3> HIDE <1>2
    <3> QED
      BY <1>3, <1>7, <2>2, <3>1, <3>2 DEF Renames
  <2> QED
    BY <2>1, <2>2
<1>9. RenameOK'
  <2>1. old' = old /\ new' = new
    BY <1>1, <1>8 DEF old, new
  <2>2. nodes'[rename'.from] = old /\ nodes'[rename'.to] = new
    BY <1>1, <1>8 DEF old, new
  <2>3. "write" # "unlink"
    OBVIOUS
  <2>4. Copying(nodes[rename.from], nodes[rename.to])'
    BY <1>3, <1>4, <1>7, <1>8, <2>2, <2>3 DEF Copying, offset
  <2> QED
    BY <2>4 DEF RenameOK
<1> QED
  BY <1>1, <1>9, BlocksUntouched

(* A write of the bytes that were read puts them where they were in the    *)
(* old file, if it succeeds and also as far as it gets.                    *)
LEMMA CopiedSoFar ==
    ASSUME NEW old, Regular(old), NEW new, Regular(new), Begins(new, old),
           NEW offset \in Nat, offset <= new.file_size, NEW bytes \in Seq(Nat),
           offset + Len(bytes) <= old.file_size,
           bytes = Slice(old.blocks, offset, offset + Len(bytes)),
           NEW r, Regular(r.node),
           Succeeded(new, r, offset, bytes) \/ Missed(new, r, offset, bytes)
    PROVE  Begins(r.node, old) /\ new.file_size <= r.node.file_size
<1> DEFINE x == r.node
<1>1. /\ old.file_size \in Nat /\ new.file_size \in Nat /\ x.file_size \in Nat /\ Len(bytes) \in Nat
      /\ new.file_size <= Room(new.blocks) /\ Room(new.blocks) \in Nat
      /\ x.file_size <= Room(x.blocks) /\ Room(x.blocks) \in Nat
      /\ new.file_size <= old.file_size
      /\ \A i \in 1 .. new.file_size : Byte(new.blocks, i) = Byte(old.blocks, i)
  BY RegularFacts, RoomFacts DEF Begins
<1>2. PICK m \in 0 .. Len(bytes) :
            /\ Overwritten(new.blocks, x.blocks, offset, bytes, m)
            /\ \/ x.file_size = new.file_size
               \/ m = Len(bytes) /\ x.file_size = offset + Len(bytes) /\ new.file_size <= x.file_size
  <2>1. CASE Succeeded(new, r, offset, bytes)
    <3>1. Len(bytes) \in 0 .. Len(bytes)
      BY <1>1
    <3>2. \/ x.file_size = new.file_size
          \/ x.file_size = offset + Len(bytes) /\ new.file_size <= x.file_size
      BY <1>1, <2>1 DEF Succeeded
    <3> QED
      BY <2>1, <3>1, <3>2 DEF Succeeded
  <2>2. CASE Missed(new, r, offset, bytes)
    BY <2>2 DEF Missed
  <2> QED
    BY <2>1, <2>2
<1> HIDE DEF x
<1>3. x.file_size <= old.file_size /\ new.file_size <= x.file_size
  BY <1>1, <1>2
<1>4. ASSUME NEW i \in 1 .. x.file_size
      PROVE  Byte(x.blocks, i) = Byte(old.blocks, i)
  <2>1. i \in Positive /\ i <= Room(x.blocks) /\ i \in Nat
    BY <1>1 DEF Positive
  <2>2. Byte(x.blocks, i) = IF i > offset /\ i <= offset + m THEN bytes[i - offset]
                            ELSE IF i <= Room(new.blocks) THEN Byte(new.blocks, i) ELSE 0
    BY <1>2, <2>1 DEF Overwritten
  <2>3. CASE i > offset /\ i <= offset + m
    <3>1. i - offset \in 1 .. offset + Len(bytes) - offset /\ offset + (i - offset) = i
      BY <1>1, <2>1, <2>3
    <3>2. bytes[i - offset] = Byte(old.blocks, offset + (i - offset))
      <4> DEFINE j == i - offset
      <4>1. Slice(old.blocks, offset, offset + Len(bytes))[j] = Byte(old.blocks, offset + j)
        <5> HIDE DEF j
        <5> QED
          BY <3>1 DEF Slice, j
      <4> QED
        BY <4>1
    <3> QED
      BY <2>2, <2>3, <3>1, <3>2
  <2>4. CASE ~ (i > offset /\ i <= offset + m)
    <3>1. i \in 1 .. new.file_size
      BY <1>1, <1>2, <2>1, <2>4
    <3> QED
      BY <1>1, <2>2, <2>4, <3>1
  <2> QED
    BY <2>3, <2>4
<1> QED
  BY <1>3, <1>4 DEF x, Begins

\* A write of charm_rename keeps FileInv and is a step of ByteFiles.
LEMMA RenameWritesStep ==
    ASSUME FileInv, RenameWrites
    PROVE  Holds
<1> DEFINE old == nodes[rename.from]
           new == nodes[rename.to]
           offset == rename.offset
           bytes == rename.buffer.bytes
<1>1. rename.pc = "write" /\ rename.buffer.n # Failed /\ UNCHANGED <<others, broken>>
  BY DEF RenameWrites
<1>2. PICK r \in WriteResults(new, bytes, offset) :
            Written(rename.to, r, offset, bytes) /\ rename' = AfterWrite(r.n)
  BY DEF RenameWrites, Written, Changed
<1>3. /\ Copying(old, new) /\ rename \in Renames
      /\ rename.to \in Files /\ rename.from \in (Files \cup Dirs) \ {rename.to}
      /\ Regular(new) /\ old = rename.original
      /\ rename.from \in Files => Regular(old) /\ old.file_size <= MaxSize
  <2>1. rename.pc # "idle"
    BY <1>1
  <2> QED
    BY <2>1, UnderWay
<1>4. /\ Begins(new, old) /\ new # Absent
      /\ offset <= new.file_size /\ rename.from \in Files /\ offset \in Nat
      /\ Len(bytes) # 0 /\ offset + Len(bytes) <= old.file_size
      /\ rename.buffer = Got(Slice(old.blocks, offset, offset + Len(bytes)))
  BY <1>1, <1>3 DEF Copying, Renames
<1>5. bytes \in Seq(Nat) /\ Len(bytes) \in Nat
  BY <1>3 DEF Renames
<1>6. bytes = Slice(old.blocks, offset, offset + Len(bytes)) /\ rename.buffer.n = Len(bytes)
  BY <1>4 DEF Got
<1>7. Regular(old) /\ old.file_size <= MaxSize /\ old.file_size \in Nat /\ MaxSize \in Nat
  BY <1>3, <1>4, RegularFacts, DataAssumption
<1>8. /\ TypeInv' /\ SlackOK' /\ Regular(r.node) /\ rough' \in {rough, rough \cup {rename.to}}
      /\ Succeeded(new, r, offset, bytes) \/ Missed(new, r, offset, bytes)
  <2>1. Exists(rename.to)
    BY <1>4 DEF Exists
  <2>2. offset + Len(bytes) <= MaxSize
    BY <1>4, <1>5, <1>7
  <2> HIDE DEF old, bytes, offset
  <2> QED
    BY <1>1, <1>2, <1>3, <1>4, <1>5, <2>1, <2>2, FileWritten
<1>9. Begins(r.node, old) /\ new.file_size <= r.node.file_size
  <2> HIDE DEF old, new, bytes, offset
  <2> QED
    BY <1>3, <1>4, <1>5, <1>6, <1>7, <1>8, CopiedSoFar
<1>10. nodes'[rename.to] = r.node /\ nodes'[rename.from] = old /\ Changed(rename.to, r.node)
  <2>1. Changed(rename.to, r.node) /\ TypeInv
    BY <1>2 DEF Written, FileInv
  <2> QED
    BY <1>3, <2>1, OthersSame
<1>11. Safe
  BY <1>3, <1>10 DEF Safe
<1>12. r.node # Absent /\ Contents(r.node) # Absent /\ Contents(old) # Absent /\ Contents(new) # Absent /\ old # Absent
       /\ Len(Contents(old)) = old.file_size /\ Len(Contents(new)) = new.file_size
       /\ r.node.file_size \in Nat /\ new.file_size \in Nat
  BY <1>3, <1>7, <1>8, ContentsFacts
<1>13. Refined
  <2> DEFINE n == r.node.file_size
  <2>1. Data' = [Data EXCEPT ![rename.to] = Contents(r.node)] /\ Data[rename.to] = Contents(new)
        /\ Data[rename.from] = Contents(old)
    BY <1>3, <1>4, <1>10, <1>12, DataChanged DEF Image, FileInv
  <2>2. Contents(r.node) = SubSeq(Contents(old), 1, n)
    BY <1>7, <1>8, <1>9, ContentsCut DEF Begins
  <2>3. n \in Len(Data[rename.to]) .. Len(Data[rename.from])
    BY <1>7, <1>9, <1>12, <2>1 DEF Begins
  <2>4. rename.from \in Files \ {rename.to}
    BY <1>3, <1>4
  <2> HIDE DEF n
  <2>5. Data' = [Data EXCEPT ![rename.to] = SubSeq(Data[rename.from], 1, n)]
    BY <2>1, <2>2
  <2> QED
    BY <1>3, <1>8, <1>12, <2>1, <2>3, <2>4, <2>5, CopyMaps
<1>14. RenameOK'
  <2>1. CASE r.n # rename.buffer.n
    BY <1>2, <2>1 DEF AfterWrite, RenameOK
  <2>2. CASE r.n = rename.buffer.n
    <3>1. rename' = [rename EXCEPT !.pc = "read", !.offset = offset + Len(bytes)]
      BY <1>2, <1>6, <2>2 DEF AfterWrite, Advanced
    <3>2. offset + Len(bytes) \in Nat
      BY <1>4, <1>5
    <3>3. /\ rename' \in Renames /\ rename'.pc = "read" /\ rename'.offset = offset + Len(bytes)
          /\ rename'.from = rename.from /\ rename'.to = rename.to /\ rename'.original = rename.original
      BY <1>3, <3>1, <3>2 DEF Renames
    <3>4. offset + Len(bytes) <= r.node.file_size
      <4>1. Len(bytes) # Failed
        BY <1>5 DEF Failed
      <4>2. Succeeded(new, r, offset, bytes)
        BY <1>6, <1>8, <2>2, <4>1 DEF Missed
      <4> QED
        BY <1>4, <1>5, <1>12, <4>2 DEF Succeeded
    <3>5. nodes'[rename'.from] = old /\ nodes'[rename'.to] = r.node
      BY <1>10, <3>3
    <3>6. "read" # "write" /\ "read" # "unlink" /\ rename.from \notin Dirs
      BY <1>4, DataAssumption
    <3>7. Copying(nodes[rename.from], nodes[rename.to])'
      BY <1>3, <1>9, <1>12, <3>3, <3>4, <3>5, <3>6 DEF Copying
    <3> QED
      BY <3>7 DEF RenameOK
  <2> QED
    BY <2>1, <2>2
<1> QED
  BY <1>8, <1>11, <1>13, <1>14 DEF Holds, FileInv

\* The write after a failed read keeps FileInv and is a step of ByteFiles.
LEMMA RenameMiswritesStep ==
    ASSUME FileInv, RenameMiswrites
    PROVE  Holds
<1>1. rename.pc = "write" /\ rename.buffer.n = Failed /\ UNCHANGED <<nodes, others, rough>>
  BY DEF RenameMiswrites
<1>2. /\ Copying(nodes[rename.from], nodes[rename.to]) /\ rename \in Renames
      /\ Regular(nodes[rename.to])
  <2>1. rename.pc # "idle"
    BY <1>1
  <2> QED
    BY <2>1, UnderWay
<1>3. rename.offset \in Nat \cup {Failed} /\ nodes[rename.to].file_size \in Nat
  BY <1>2, RegularFacts DEF Renames
<1>4. room \in Nat /\ others \in 0 .. Elsewhere /\ others \in Int /\ broken \in BOOLEAN
  BY DataAssumption DEF FileInv, TypeInv
<1>5. room' \in Nat /\ room' <= room /\ broken' \in BOOLEAN
  <2>1. room' = 0 \/ room' = room
    BY DEF RenameMiswrites
  <2>2. broken' = TRUE \/ broken' = broken
    BY DEF RenameMiswrites
  <2>3. room' \in Nat /\ room' <= room
    BY <1>4, <2>1
  <2> QED
    BY <1>4, <2>2, <2>3
<1>6. TypeInv' /\ SlackOK' /\ Refined /\ Safe /\ (UNCHANGED rename => RenameOK')
  <2>1. others' = others
    BY <1>1
  <2>2. room' + others <= room + others
    <3>1. \A a, b, c \in Int : a <= b => a + c <= b + c
      OBVIOUS
    <3>2. room \in Int /\ room' \in Int /\ others \in Int /\ room' <= room
      BY <1>4, <1>5
    <3> QED
      BY <3>1, <3>2
  <2> QED
    BY <1>1, <1>4, <1>5, <2>2, <2>1, FilesUntouched
<1>7. ASSUME NEW o \in Nat \cup {Failed}, o # Failed => rename.offset # Failed /\ o <= rename.offset,
             rename' = [rename EXCEPT !.pc = "read", !.offset = o]
      PROVE  RenameOK'
  <2>1. /\ rename' \in Renames /\ rename'.pc = "read" /\ rename'.offset = o
        /\ rename'.from = rename.from /\ rename'.to = rename.to /\ rename'.original = rename.original
    BY <1>2, <1>7 DEF Renames
  <2>2. nodes'[rename'.from] = nodes[rename.from] /\ nodes'[rename'.to] = nodes[rename.to]
    BY <1>1, <2>1
  <2>3. "read" # "write" /\ "read" # "unlink"
    OBVIOUS
  <2>4. rename'.offset # Failed => rename'.offset <= nodes[rename.to].file_size
    BY <1>2, <1>3, <1>7, <2>1 DEF Copying
  <2>5. Copying(nodes[rename.from], nodes[rename.to])'
    BY <1>2, <2>1, <2>2, <2>3, <2>4 DEF Copying
  <2> QED
    BY <2>5 DEF RenameOK
<1>8. ASSUME rename' = [rename EXCEPT !.pc = "read", !.offset = Failed]
      PROVE  RenameOK'
  BY <1>7, <1>8
<1>9. ASSUME rename.offset > 0, rename' = [rename EXCEPT !.pc = "read", !.offset = @ - 1]
      PROVE  RenameOK'
  <2>1. rename.offset \in Nat
    BY <1>3, <1>9 DEF Failed
  <2>2. rename.offset - 1 \in Nat \cup {Failed} /\ rename.offset # Failed /\ rename.offset - 1 <= rename.offset
    BY <1>9, <2>1 DEF Failed
  <2>3. rename' = [rename EXCEPT !.pc = "read", !.offset = rename.offset - 1]
    BY <1>9
  <2> QED
    BY <1>7, <2>2, <2>3
<1>10. RenameOK'
  BY <1>6, <1>8, <1>9 DEF RenameMiswrites
<1> QED
  BY <1>6, <1>10 DEF Holds, FileInv

\* The unlink of charm_rename keeps FileInv, and the new name has all of the bytes.
LEMMA RenameUnlinksStep ==
    ASSUME FileInv, RenameUnlinks
    PROVE  Holds
<1> DEFINE old == nodes[rename.from]
           new == nodes[rename.to]
<1>1. rename.pc = "unlink" /\ rename.pc # "idle" /\ Erase(rename.from) /\ rename' = Idle /\ UNCHANGED others
  BY DEF RenameUnlinks
<1>2. /\ Copying(old, new) /\ rename.to \in Files /\ rename.from \in (Files \cup Dirs) \ {rename.to}
      /\ Regular(new) /\ old = rename.original
      /\ rename.from \in Files => Regular(old)
  BY <1>1, UnderWay
<1>3. /\ rename.from \in Files /\ new.file_size = old.file_size
      /\ \A i \in 1 .. new.file_size : Byte(new.blocks, i) = Byte(old.blocks, i)
  BY <1>1, <1>2 DEF Copying, Begins
<1>4. Exists(rename.from)
  BY <1>2, <1>3, ContentsFacts DEF Exists
<1>5. TypeInv' /\ SlackOK' /\ Refined /\ Changed(rename.from, Absent)
  BY <1>1, <1>3, <1>4, FileErased
<1>6. nodes'[rename.from] = Absent /\ nodes'[rename.to] = new
  BY <1>2, <1>3, <1>5, OthersSame DEF FileInv
<1>7. Contents(new) = Contents(old)
  BY <1>3 DEF Contents
<1>8. Safe
  BY <1>2, <1>6, <1>7 DEF Safe
<1> QED
  BY <1>1, <1>5, <1>8 DEF Holds, FileInv, RenameOK

\* Every step keeps FileInv and is a step of ByteFiles.
LEMMA StepHolds ==
    ASSUME FileInv, [Next]_vars
    PROVE  Holds
<1>1. CASE Callback
  <2>1. CASE \E f \in Files : Create(f) \/ Unlink(f)
    BY <2>1, CreateStep, UnlinkStep
  <2>2. CASE \E f \in Files : \E offset \in Offsets : Truncate(f, offset) \/ \E bytes \in Payloads : Write(f, offset, bytes)
    BY <2>2, TruncateStep, WriteStep
  <2>3. CASE \E from \in Files \cup Dirs, to \in Files : RenameBegins(from, to)
    BY <2>3, RenameStarts
  <2>4. CASE ((OthersTake /\ UNCHANGED broken) \/ OthersGive) /\ UNCHANGED <<nodes, rename, rough>>
    BY <2>4, OthersStep
  <2> QED
    BY <1>1, <2>1, <2>2, <2>3, <2>4 DEF Callback
<1>2. CASE RenameStep
  BY <1>2, RenameReadsStep, RenameWritesStep, RenameMiswritesStep, RenameUnlinksStep DEF RenameStep
<1>3. CASE UNCHANGED vars
  <2>1. UNCHANGED <<nodes, room, others, rename, broken, rough>>
    BY <1>3 DEF vars
  <2>2. RenameOK'
    BY <2>1 DEF FileInv, RenameOK, Copying
  <2> QED
    BY <2>1, <2>2, BlocksUntouched
<1> QED
  BY <1>1, <1>2, <1>3 DEF Next

\* The first state satisfies FileInv and is one of ByteFiles.
LEMMA FirstState == Init => FileInv /\ BytesOf!Init
<1> SUFFICES ASSUME Init
             PROVE  FileInv /\ BytesOf!Init
  OBVIOUS
<1>1. /\ nodes = [p \in Files \cup Dirs |-> IF p \in Files THEN Absent ELSE Directory]
      /\ room = BlockCount /\ others = 0 /\ rename = Idle /\ broken = FALSE /\ rough = {}
  BY DEF Init
<1>2. \A f \in Files : nodes[f] = Absent
  BY <1>1
<1>3. \A d \in Dirs : nodes[d] = Directory
  BY <1>1, DataAssumption
<1>4. IsFiniteSet(Held) /\ Cardinality(Held) = 0
  <2>1. Held = {}
    BY <1>2 DEF Held, Blocks, Positive
  <2> QED
    BY <2>1, FS_EmptySet
<1>5. TypeInv
  <2>1. BlockCount \in Nat /\ Elsewhere \in Nat /\ 0 \in 0 .. Elsewhere
    BY DataAssumption
  <2>2. nodes = [p \in Files \cup Dirs |-> nodes[p]]
    BY <1>1
  <2>3. Cardinality(Held) + room + others <= BlockCount /\ room \in Nat /\ others \in 0 .. Elsewhere
    BY <1>1, <1>4, <2>1
  <2> QED
    BY <1>1, <1>2, <1>3, <1>4, <2>2, <2>3 DEF TypeInv, Exists
<1>6. RenameOK /\ SlackOK
  BY <1>1, <1>2 DEF RenameOK, SlackOK, Exists
<1>7. BytesOf!Init
  BY <1>1, <1>2 DEF BytesOf!Init, Exists
<1> QED
  BY <1>5, <1>6, <1>7 DEF FileInv

-----------------------------------------------------------------------------
(* The theorems                                                            *)

(* The invariant holds after every step, and every step is one of ByteFiles*)
(* and safe for the old name of a rename.                                  *)
THEOREM FileInvAlways == Spec => []FileInv
<1>1. Init => FileInv
  BY FirstState
<1>2. FileInv /\ [Next]_vars => FileInv'
  BY StepHolds DEF Holds
<1> QED
  BY <1>1, <1>2, PTL DEF Spec

\* FileInv has the types.
LEMMA TypesHold == FileInv => TypeOK
<1> SUFFICES ASSUME FileInv
             PROVE  TypeOK
  OBVIOUS
<1>1. ASSUME NEW f \in Files, Exists(f)
      PROVE  /\ nodes[f].file_size \in 0 .. MaxSize
             /\ nodes[f].blocks \in Seq(Seq(Nat))
             /\ \A i \in DOMAIN nodes[f].blocks : Len(nodes[f].blocks[i]) = BLOCK_SIZE
  <2>1. Regular(nodes[f]) /\ nodes[f].file_size <= MaxSize /\ MaxSize \in Nat
    BY <1>1, DataAssumption DEF FileInv, TypeInv
  <2>2. nodes[f].file_size \in Nat /\ nodes[f].blocks \in Seq(Bytes)
    BY <2>1, RegularFacts
  <2>3. \A b \in Bytes : b \in Seq(Nat) /\ Len(b) = BLOCK_SIZE
    BY SizeFacts, FcnIsSeq DEF Bytes
  <2>4. nodes[f].blocks \in Seq(Seq(Nat))
    BY <2>2, <2>3, SeqMonotonic
  <2>5. \A i \in DOMAIN nodes[f].blocks : nodes[f].blocks[i] \in Bytes
    BY <2>2, ElementOfSeq, LenProperties
  <2> QED
    BY <2>1, <2>2, <2>3, <2>4, <2>5
<1>2. room \in 0 .. BlockCount /\ others \in 0 .. Elsewhere
  <2>1. room \in Nat /\ others \in 0 .. Elsewhere /\ IsFiniteSet(Held) /\ Cardinality(Held) + room + others <= BlockCount
    BY DEF FileInv, TypeInv
  <2>2. Cardinality(Held) \in Nat /\ BlockCount \in Nat /\ others \in Nat
    BY <2>1, FS_CardinalityType, DataAssumption
  <2> QED
    BY <2>1, <2>2
<1>3. rename.pc \in {"idle", "read", "write", "unlink"}
  BY DEF FileInv, RenameOK, Copying, Renames, Idle
<1> QED
  BY <1>1, <1>2, <1>3 DEF TypeOK, FileInv, TypeInv

(* Every variable keeps its type: no file is larger than its callers make  *)
(* it, its blocks are whole, and no more blocks are handed out than there  *)
(* are.                                                                    *)
THEOREM TypeCorrect == Spec => []TypeOK
  BY FileInvAlways, TypesHold, PTL

(* Behind the end of a file its blocks hold zeros, unless a write or a     *)
(* truncation of it failed.                                                *)
THEOREM SlackAlwaysZero == Spec => []SlackZero
<1>1. FileInv => SlackZero
  <2> SUFFICES ASSUME FileInv, NEW f \in Files \ rough, Exists(f),
                      NEW i \in nodes[f].file_size + 1 .. Len(nodes[f].blocks) * BLOCK_SIZE
               PROVE  Byte(nodes[f].blocks, i) = 0
    BY DEF SlackZero
  <2>1. Regular(nodes[f]) /\ Clean(nodes[f])
    BY DEF FileInv, TypeInv, SlackOK
  <2>2. nodes[f].file_size \in Nat /\ nodes[f].blocks \in Seq(Bytes)
    BY <2>1, RegularFacts
  <2>3. Room(nodes[f].blocks) = Len(nodes[f].blocks) * BLOCK_SIZE /\ Room(nodes[f].blocks) \in Nat
    BY <2>2, RoomFacts
  <2>4. i \in nodes[f].file_size + 1 .. Room(nodes[f].blocks)
    BY <2>3
  <2>5. i \in Positive /\ i > nodes[f].file_size /\ i <= Room(nodes[f].blocks)
    BY <2>2, <2>3, <2>4 DEF Positive
  <2> QED
    BY <2>1, <2>5 DEF Clean
<1> QED
  BY <1>1, FileInvAlways, PTL

\* A slice of the blocks is a piece of the contents.
LEMMA SliceOfContents ==
    ASSUME NEW node, Regular(node), NEW a \in Nat, NEW b \in 0 .. node.file_size, a <= b
    PROVE  SubSeq(Contents(node), a + 1, b) = Slice(node.blocks, a, b)
<1>1. /\ Contents(node) \in Seq(Nat) /\ Len(Contents(node)) = node.file_size
      /\ \A i \in 1 .. node.file_size : Contents(node)[i] = Byte(node.blocks, i)
  BY ContentsFacts
<1>2. /\ node.file_size \in Nat /\ node.blocks \in Seq(Bytes)
      /\ node.file_size <= Room(node.blocks) /\ Room(node.blocks) \in Nat
  BY RegularFacts, RoomFacts
<1> DEFINE cut == SubSeq(Contents(node), a + 1, b)
<1>3. cut \in Seq(Nat) /\ Len(cut) = b - a /\ \A i \in 1 .. b - a : cut[i] = Contents(node)[a + i]
  BY <1>1, <1>2
<1>4. /\ Slice(node.blocks, a, b) \in Seq(Nat) /\ Len(Slice(node.blocks, a, b)) = b - a
      /\ \A m \in 1 .. b - a : Slice(node.blocks, a, b)[m] = Byte(node.blocks, a + m)
  <2>1. b \in Nat /\ b <= Room(node.blocks)
    BY <1>2
  <2> QED
    BY <1>2, <2>1, SliceType
<1> HIDE DEF cut
<1>5. ASSUME NEW i \in 1 .. Len(cut)
      PROVE  cut[i] = Slice(node.blocks, a, b)[i]
  <2>1. i \in 1 .. b - a
    BY <1>3
  <2>2. a + i \in 1 .. node.file_size
    BY <1>2, <2>1
  <2> QED
    BY <1>1, <1>3, <1>4, <2>1, <2>2
<1>6. cut = Slice(node.blocks, a, b)
  BY <1>3, <1>4, <1>5, SeqEqual
<1> QED
  BY <1>6 DEF cut

(* A read returns the bytes of the file from its offset on, as many as     *)
(* there are, for every offset and every size.                             *)
THEOREM ReadsAlwaysTrue == Spec => []ReadTrue
<1>1. FileInv => ReadTrue
  <2> SUFFICES ASSUME FileInv, NEW f \in Files, Exists(f), NEW offset \in 0 .. MaxSize + 1, NEW n \in 1 .. MaxSize + 1
               PROVE  /\ \A r \in ReadResults(nodes[f], n, offset) :
                            \/ r = NoBytes /\ (IOFaults \/ offset > nodes[f].file_size)
                            \/ r = Got(SubSeq(Contents(nodes[f]), offset + 1, Min({offset + n, nodes[f].file_size})))
                      /\ offset <= nodes[f].file_size => \E r \in ReadResults(nodes[f], n, offset) : r # NoBytes
    BY DEF ReadTrue
  <2>a. offset <= nodes[f].file_size => \E r \in ReadResults(nodes[f], n, offset) : r # NoBytes
    <3>1. Regular(nodes[f]) /\ offset \in Nat /\ n \in Nat
      BY DataAssumption DEF FileInv, TypeInv
    <3> QED
      BY <3>1, ReadSucceeds
  <2> SUFFICES ASSUME NEW r \in ReadResults(nodes[f], n, offset)
               PROVE  \/ r = NoBytes /\ (IOFaults \/ offset > nodes[f].file_size)
                      \/ r = Got(SubSeq(Contents(nodes[f]), offset + 1, Min({offset + n, nodes[f].file_size})))
    BY <2>a
  <2> DEFINE node == nodes[f]
             size == node.file_size
             end == IF offset + n <= size THEN offset + n ELSE size
  <2>1. Regular(node)
    BY DEF FileInv, TypeInv
  <2>2. offset \in Nat /\ n \in Nat /\ offset # Failed /\ n \in Positive
    BY DataAssumption DEF Failed, Positive
  <2>3. size \in Nat
    BY <2>1, RegularFacts
  <2>4. \/ r = NoBytes /\ size # 0 /\ (IOFaults \/ offset = Failed \/ offset > size)
        \/ size = 0 /\ r = Got(<<>>)
        \/ size # 0 /\ offset \in 0 .. size /\ end \in offset .. size /\ r = Got(Slice(node.blocks, offset, end))
    BY <2>1, <2>2, ReadGives
  <2>5. Min({offset + n, size}) = end
    <3>1. offset + n \in Int /\ size \in Int
      BY <2>2, <2>3
    <3> QED
      BY <3>1, MinMax
  <2>6. CASE size = 0 /\ r = Got(<<>>)
    <3>1. Contents(node) \in Seq(Nat) /\ Len(Contents(node)) = 0
      BY <2>1, <2>6, ContentsFacts
    <3>2. end = 0
      BY <2>2, <2>6 DEF Positive
    <3>3. SubSeq(Contents(node), offset + 1, 0) = <<>>
      BY <2>2, <3>1
    <3> QED
      BY <2>5, <2>6, <3>2, <3>3
  <2>7. CASE size # 0 /\ offset \in 0 .. size /\ end \in offset .. size /\ r = Got(Slice(node.blocks, offset, end))
    <3>1. end \in 0 .. size /\ offset <= end
      BY <2>2, <2>3, <2>7
    <3> HIDE DEF node, end
    <3>2. SubSeq(Contents(node), offset + 1, end) = Slice(node.blocks, offset, end)
      BY <2>1, <2>2, <3>1, SliceOfContents
    <3> QED
      BY <2>5, <2>7, <3>2 DEF node
  <2> QED
    BY <2>2, <2>4, <2>6, <2>7
<1> QED
  BY <1>1, FileInvAlways, PTL

(* A rename takes the old name away only when the new one has all its      *)
(* bytes.                                                                  *)
THEOREM RenamesKeepData == Spec => RenameKeepsData
<1>1. FileInv /\ [Next]_vars => Safe
  BY StepHolds DEF Holds
<1>2. Safe => [rename.pc # "idle" /\ nodes'[rename.from] # rename.original =>
                 nodes'[rename.from] = Absent /\ Contents(nodes'[rename.to]) = Contents(rename.original)]_vars
  BY DEF Safe
<1> QED
  BY <1>1, <1>2, FileInvAlways, PTL DEF Spec, RenameKeepsData

(* The blocks of files implement the sequences of bytes of ByteFiles.      *)
THEOREM FileDataImplementsByteFiles == Spec => ImplementsByteFiles
<1>1. Init => BytesOf!Init
  BY FirstState
<1>2. FileInv /\ [Next]_vars => [BytesOf!Next]_(BytesOf!vars)
  BY StepHolds DEF Holds, Refined
<1> QED
  BY <1>1, <1>2, FileInvAlways, PTL DEF Spec, ImplementsByteFiles, BytesOf!Spec
=============================================================================
