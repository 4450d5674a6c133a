-------------------------- MODULE NamespaceProofs ---------------------------
(***************************************************************************)
(* Theorems about Namespace, for every size of a block and of the records, *)
(* every set of names, paths and blocks, and every number of inodes.       *)
(***************************************************************************)
EXTENDS Namespace, DataLemmas

-----------------------------------------------------------------------------
(* Numbers                                                                 *)

\* The lesser of two numbers.
LEMMA MinOfTwo ==
    ASSUME NEW x \in Nat, NEW y \in Nat
    PROVE  Min({x, y}) = IF x <= y THEN x ELSE y
<1>1. Min({x, y}) \in {x, y} /\ \A z \in {x, y} : Min({x, y}) <= z
  BY LeastExists
<1> QED
  BY <1>1

\* Every name takes some bytes and at most a block; "." and ".." are names.
LEMMA SizeFacts ==
    /\ BLOCK_SIZE \in Nat
    /\ \A name \in NameSet : Size(name) \in Nat /\ Size(name) > 0 /\ Size(name) <= BLOCK_SIZE
    /\ "." \in NameSet /\ ".." \in NameSet
  BY RecordAssumption DEF NameSet, Size

-----------------------------------------------------------------------------
(* The records of a block                                                  *)

Rec == [inum : Inums, len : Nat, name : NameSet]

RecordImages == UNION {[D -> Rec] : D \in SUBSET (0 .. BLOCK_SIZE - 1)}

(* R are positions of records that follow one another from the start of    *)
(* the block to its end.                                                   *)
Chain(img, R) ==
    /\ R \subseteq DOMAIN img /\ 0 \in R
    /\ \A p \in R : /\ img[p].len >= Size(img[p].name)
                    /\ p + img[p].len \in R \cup {BLOCK_SIZE}
                    /\ \A q \in R : q > p => q >= p + img[p].len

\* The images that blocks have: no record, or records that tile the block.
BlockImages == {img \in RecordImages : DOMAIN img = {} \/ \E R \in SUBSET DOMAIN img : Chain(img, R)}

\* What it is to be an image of a block, without its set of partial functions.
LEMMA RecordImagesIff ==
    ASSUME NEW img
    PROVE  img \in RecordImages <=> /\ DOMAIN img \subseteq 0 .. BLOCK_SIZE - 1
                                    /\ img = [p \in DOMAIN img |-> img[p]]
                                    /\ \A p \in DOMAIN img : img[p] \in Rec
<1>1. ASSUME img \in RecordImages
      PROVE  /\ DOMAIN img \subseteq 0 .. BLOCK_SIZE - 1
             /\ img = [p \in DOMAIN img |-> img[p]]
             /\ \A p \in DOMAIN img : img[p] \in Rec
  <2>1. PICK D \in SUBSET (0 .. BLOCK_SIZE - 1) : img \in [D -> Rec]
    BY <1>1 DEF RecordImages
  <2> QED
    BY <2>1
<1>2. ASSUME /\ DOMAIN img \subseteq 0 .. BLOCK_SIZE - 1
             /\ img = [p \in DOMAIN img |-> img[p]]
             /\ \A p \in DOMAIN img : img[p] \in Rec
      PROVE  img \in RecordImages
  <2>1. img \in [DOMAIN img -> Rec]
    BY <1>2
  <2>2. [DOMAIN img -> Rec] \in {[D -> Rec] : D \in SUBSET (0 .. BLOCK_SIZE - 1)}
    BY <1>2
  <2> QED
    BY <2>1, <2>2 DEF RecordImages
<1> QED
  BY <1>1, <1>2

\* A record of a chain lies within its block and has room for its name.
LEMMA ChainFacts ==
    ASSUME NEW img \in RecordImages, NEW R, Chain(img, R), NEW p \in R
    PROVE  /\ p \in Nat /\ p < BLOCK_SIZE
           /\ img[p] \in Rec /\ img[p].len \in Nat /\ img[p].len > 0 /\ img[p].name \in NameSet
           /\ Size(img[p].name) \in Nat /\ Size(img[p].name) > 0 /\ Size(img[p].name) <= img[p].len
           /\ p + img[p].len \in Nat /\ p + img[p].len <= BLOCK_SIZE
<1>1. DOMAIN img \subseteq 0 .. BLOCK_SIZE - 1 /\ \A q \in DOMAIN img : img[q] \in Rec
  BY RecordImagesIff
<1>2. R \subseteq DOMAIN img /\ img[p].len >= Size(img[p].name) /\ p + img[p].len \in R \cup {BLOCK_SIZE}
  BY DEF Chain
<1>3. p \in 0 .. BLOCK_SIZE - 1 /\ img[p] \in Rec
  BY <1>1, <1>2
<1>4. img[p].len \in Nat /\ img[p].name \in NameSet
  BY <1>3 DEF Rec
<1>5. p + img[p].len \in (0 .. BLOCK_SIZE - 1) \cup {BLOCK_SIZE}
  BY <1>1, <1>2
<1> QED
  BY <1>2, <1>3, <1>4, <1>5, SizeFacts

\* The searches from every position, as Positions defines them.
Searches(img, f) ==
    [p \in 0 .. BLOCK_SIZE |->
        IF p \notin DOMAIN img THEN <<>>
        ELSE <<p>> \o (IF img[p].len <= 0 THEN <<>> ELSE f[Min({p + img[p].len, BLOCK_SIZE})])]

\* Where the search goes from p.
After(img, p) == Min({p + img[p].len, BLOCK_SIZE})

\* The position behind a record, cut off at the end of the block.
LEMMA AfterFacts ==
    ASSUME NEW img \in RecordImages, NEW p \in DOMAIN img
    PROVE  /\ p \in 0 .. BLOCK_SIZE - 1 /\ p \in 0 .. BLOCK_SIZE /\ img[p].len \in Nat
           /\ After(img, p) \in 0 .. BLOCK_SIZE
           /\ After(img, p) = IF p + img[p].len <= BLOCK_SIZE THEN p + img[p].len ELSE BLOCK_SIZE
<1>1. p \in 0 .. BLOCK_SIZE - 1 /\ img[p] \in Rec
  BY RecordImagesIff
<1>2. img[p].len \in Nat /\ BLOCK_SIZE \in Nat
  BY <1>1, SizeFacts DEF Rec
<1>3. p + img[p].len \in Nat
  BY <1>1, <1>2
<1>4. After(img, p) = IF p + img[p].len <= BLOCK_SIZE THEN p + img[p].len ELSE BLOCK_SIZE
  BY <1>2, <1>3, MinOfTwo DEF After
<1> QED
  BY <1>1, <1>2, <1>3, <1>4

(* The recursion of Positions has a solution: applied often enough to      *)
(* anything, its body no longer changes what it gives.                     *)
LEMMA SearchesExist ==
    ASSUME NEW img \in RecordImages
    PROVE  \E f : f = Searches(img, f)
<1> DEFINE B == BLOCK_SIZE
           X == [0 .. B -> Seq(0 .. B)]
           F == [g \in X |-> Searches(img, g)]
           start == [p \in 0 .. B |-> <<>>]
<1>1. B \in Nat
  BY SizeFacts
<1>2. F \in [X -> X] /\ start \in X
  <2>1. <<>> \in Seq(0 .. B)
    OBVIOUS
  <2>2. \A p \in 0 .. B, t \in Seq(0 .. B) : <<p>> \o t \in Seq(0 .. B)
    OBVIOUS
  <2>3. ASSUME NEW g \in X
        PROVE  Searches(img, g) \in X
    <3>1. ASSUME NEW p \in 0 .. B
          PROVE  (IF p \notin DOMAIN img THEN <<>>
                  ELSE <<p>> \o (IF img[p].len <= 0 THEN <<>> ELSE g[After(img, p)])) \in Seq(0 .. B)
      <4>1. CASE p \notin DOMAIN img
        BY <2>1, <4>1
      <4>2. CASE p \in DOMAIN img
        <5>1. g[After(img, p)] \in Seq(0 .. B)
          BY <4>2, AfterFacts
        <5> QED
          BY <2>1, <2>2, <4>2, <5>1
      <4> QED
        BY <4>1, <4>2
    <3> QED
      BY <3>1 DEF Searches, After
  <2> QED
    BY <2>1, <2>3
<1>3. PICK f : IterationOf(f, X, F, start, B + 2)
  <2>1. B + 2 \in Nat
    BY <1>1
  <2> HIDE DEF X, F, start
  <2> QED
    BY <1>2, <2>1, Iterated
<1>4. ASSUME NEW i \in Nat, i + 1 <= B + 2
      PROVE  f[i] \in X /\ f[i + 1] \in X /\ f[i + 1] = Searches(img, f[i])
  <2>1. i \in 0 .. B + 2 /\ i + 1 \in 0 .. B + 2 /\ i + 1 \in 1 .. B + 2 /\ (i + 1) - 1 = i
    BY <1>1, <1>4
  <2>2. f[i] \in X /\ f[i + 1] \in X /\ f[i + 1] = F[f[i]]
    BY <1>3, <2>1 DEF IterationOf
  <2> QED
    BY <2>2
<1> HIDE DEF X, F, start
<1> DEFINE S == {i \in Nat : i + 2 <= B + 2 => \A p \in 0 .. B : p >= B - i => f[i + 2][p] = f[i + 1][p]}
<1>5. B \in S
  <2>1. ASSUME NEW i \in Nat, i + 2 <= B + 2, NEW p \in 0 .. B, p \notin DOMAIN img
        PROVE  f[i + 2][p] = f[i + 1][p]
    <3>1. i + 1 <= B + 2 /\ i + 1 \in Nat /\ (i + 1) + 1 = i + 2
      BY <1>1, <2>1
    <3>2. f[i + 1] = Searches(img, f[i]) /\ f[i + 2] = Searches(img, f[i + 1])
      BY <1>4, <2>1, <3>1
    <3>3. f[i + 1][p] = <<>> /\ f[i + 2][p] = <<>>
      BY <2>1, <3>2 DEF Searches
    <3> QED
      BY <3>3
  <2>2. ASSUME NEW i \in Nat, i + 2 <= B + 2, NEW p \in DOMAIN img,
               img[p].len > 0 => f[i + 1][After(img, p)] = f[i][After(img, p)]
        PROVE  f[i + 2][p] = f[i + 1][p]
    <3>1. i + 1 <= B + 2 /\ i + 1 \in Nat /\ (i + 1) + 1 = i + 2
      BY <1>1, <2>2
    <3>2. f[i + 1] = Searches(img, f[i]) /\ f[i + 2] = Searches(img, f[i + 1])
      BY <1>4, <2>2, <3>1
    <3>3. p \in 0 .. B /\ img[p].len \in Nat
      BY AfterFacts
    <3>4. /\ f[i + 1][p] = <<p>> \o (IF img[p].len <= 0 THEN <<>> ELSE f[i][After(img, p)])
          /\ f[i + 2][p] = <<p>> \o (IF img[p].len <= 0 THEN <<>> ELSE f[i + 1][After(img, p)])
      BY <3>2, <3>3 DEF Searches, After
    <3>5. CASE img[p].len > 0
      <4>1. f[i + 1][After(img, p)] = f[i][After(img, p)]
        BY <2>2, <3>5
      <4> QED
        BY <3>4, <4>1
    <3>6. CASE img[p].len <= 0
      BY <3>4, <3>6
    <3> QED
      BY <3>3, <3>5, <3>6
  <2>3. 0 \in S
    <3> SUFFICES ASSUME NEW p \in 0 .. B, p >= B - 0
                 PROVE  f[0 + 2][p] = f[0 + 1][p]
      OBVIOUS
    <3>1. p = B
      BY <1>1
    <3>2. p \notin DOMAIN img
      <4>1. \A q \in DOMAIN img : q \in 0 .. B - 1
        BY AfterFacts
      <4> QED
        BY <1>1, <3>1, <4>1
    <3>3. 0 + 2 <= B + 2 /\ 0 \in Nat
      BY <1>1
    <3> QED
      BY <2>1, <3>2, <3>3
  <2>4. ASSUME NEW i \in Nat, i \in S
        PROVE  i + 1 \in S
    <3> SUFFICES ASSUME (i + 1) + 2 <= B + 2, NEW p \in 0 .. B, p >= B - (i + 1)
                 PROVE  f[(i + 1) + 2][p] = f[(i + 1) + 1][p]
      OBVIOUS
    <3>1. i + 1 \in Nat /\ (i + 1) + 1 = i + 2 /\ i + 2 <= B + 2
      BY <1>1
    <3>2. CASE p \notin DOMAIN img
      BY <2>1, <3>1, <3>2
    <3>3. CASE p \in DOMAIN img
      <4>1. ASSUME img[p].len > 0
            PROVE  f[(i + 1) + 1][After(img, p)] = f[i + 1][After(img, p)]
        <5>1. After(img, p) \in 0 .. B /\ After(img, p) >= B - i
          BY <1>1, <3>3, <4>1, AfterFacts
        <5> QED
          BY <2>4, <3>1, <5>1
      <4> QED
        BY <2>2, <3>1, <3>3, <4>1
    <3> QED
      BY <3>2, <3>3
  <2> HIDE DEF S
  <2> QED
    BY <1>1, <2>3, <2>4, SetInduction
<1>6. f[B + 2] = f[B + 1]
  <2>1. B + 1 \in Nat /\ (B + 1) + 1 = B + 2 /\ (B + 1) + 1 <= B + 2
    BY <1>1
  <2>2. f[B + 2] \in X /\ f[B + 1] \in X
    BY <1>4, <2>1
  <2>3. \A p \in 0 .. B : f[B + 2][p] = f[B + 1][p]
    BY <1>1, <1>5
  <2>4. f[B + 2] = [p \in 0 .. B |-> f[B + 2][p]] /\ f[B + 1] = [p \in 0 .. B |-> f[B + 1][p]]
    BY <2>2 DEF X
  <2> QED
    BY <2>3, <2>4
<1>7. f[B + 2] = Searches(img, f[B + 1])
  <2>1. B + 1 \in Nat /\ (B + 1) + 1 = B + 2 /\ (B + 1) + 1 <= B + 2
    BY <1>1
  <2> QED
    BY <1>4, <2>1
<1> QED
  BY <1>6, <1>7

(* Positions is a search from the start of the block.                      *)
LEMMA PositionsSearch ==
    ASSUME NEW img \in RecordImages
    PROVE  \E f : f = Searches(img, f) /\ Positions(img) = f[0]
<1> DEFINE Is(f) == f = [p \in 0 .. BLOCK_SIZE |->
                            IF p \notin DOMAIN img THEN <<>>
                            ELSE <<p>> \o (IF img[p].len <= 0 THEN <<>>
                                           ELSE f[Min({p + img[p].len, BLOCK_SIZE})])]
           f == CHOOSE f : Is(f)
<1>1. \E g : Is(g)
  BY SearchesExist DEF Searches
<1>2. Is(f)
  <2> HIDE DEF Is
  <2> QED
    BY <1>1
<1>3. f = Searches(img, f)
  <2> HIDE DEF f
  <2> QED
    BY <1>2 DEF Searches
<1>4. Positions(img) = f[0]
  BY DEF Positions
<1> QED
  BY <1>3, <1>4

\* s lists the positions in R from p on, each where the record before ends.
Lists(s, img, R, p) ==
    /\ s \in Seq(R) /\ Len(s) >= 1 /\ s[1] = p
    /\ \A j \in 1 .. Len(s) - 1 : s[j + 1] = s[j] + img[s[j]].len
    /\ s[Len(s)] + img[s[Len(s)]].len = BLOCK_SIZE
    /\ \A q \in R : q >= p => \E j \in 1 .. Len(s) : s[j] = q

(* The search finds the records of a chain, one after the other.           *)
LEMMA ChainSearched ==
    ASSUME NEW img \in RecordImages, NEW R, Chain(img, R)
    PROVE  Lists(Positions(img), img, R, 0)
<1> DEFINE B == BLOCK_SIZE
<1>1. PICK f : f = Searches(img, f) /\ Positions(img) = f[0]
  BY PositionsSearch
<1>2. B \in Nat /\ B \notin DOMAIN img
  BY SizeFacts, RecordImagesIff
<1>3. f[B] = <<>>
  <2>1. B \in 0 .. B
    BY <1>2
  <2>2. f[B] = Searches(img, f)[B]
    BY <1>1
  <2> QED
    BY <1>2, <2>1, <2>2 DEF Searches
<1>4. ASSUME NEW p \in R
      PROVE  /\ p \in Nat /\ p < B /\ img[p].len \in Nat /\ img[p].len > 0
             /\ p + img[p].len \in Nat /\ p + img[p].len <= B
             /\ p + img[p].len \in R \cup {B}
             /\ \A q \in R : q \in Nat /\ q < B /\ (q > p => q >= p + img[p].len)
             /\ f[p] = <<p>> \o f[p + img[p].len]
  <2>1. /\ p \in Nat /\ p < B /\ img[p].len \in Nat /\ img[p].len > 0
        /\ p + img[p].len \in Nat /\ p + img[p].len <= B
    BY ChainFacts
  <2>2. p \in DOMAIN img /\ p + img[p].len \in R \cup {B} /\ \A q \in R : q > p => q >= p + img[p].len
    BY DEF Chain
  <2>3. \A q \in R : q \in Nat /\ q < B
    BY ChainFacts
  <2>4. f[p] = <<p>> \o f[p + img[p].len]
    <3>1. After(img, p) = p + img[p].len
      BY <2>1, <2>2, AfterFacts
    <3>2. p \in 0 .. B
      BY <1>2, <2>1
    <3>3. f[p] = Searches(img, f)[p]
      BY <1>1
    <3>4. f[p] = <<p>> \o (IF img[p].len <= 0 THEN <<>> ELSE f[After(img, p)])
      BY <2>2, <3>2, <3>3 DEF Searches, After
    <3>5. ~ (img[p].len <= 0)
      BY <2>1
    <3> QED
      BY <3>1, <3>4, <3>5
  <2> QED
    BY <2>1, <2>2, <2>3, <2>4
<1> DEFINE S == {i \in Nat : \A p \in R : p >= B - i => Lists(f[p], img, R, p)}
<1>5. B \in S
  <2>1. 0 \in S
    <3> SUFFICES ASSUME NEW p \in R, p >= B - 0
                 PROVE  FALSE
      OBVIOUS
    <3>1. p \in Nat /\ p < B
      BY <1>4
    <3> QED
      BY <1>2, <3>1
  <2>2. ASSUME NEW i \in Nat, i \in S
        PROVE  i + 1 \in S
    <3> SUFFICES ASSUME NEW p \in R, p >= B - (i + 1)
                 PROVE  Lists(f[p], img, R, p)
      OBVIOUS
    <3> DEFINE n == p + img[p].len
               s == f[p]
               t == f[n]
    <3>1. s = <<p>> \o t /\ n \in R \cup {B} /\ n \in Nat /\ p \in Nat /\ n > p
      <4>1. s = <<p>> \o t /\ n \in R \cup {B} /\ n \in Nat /\ p \in Nat
        BY <1>4
      <4>2. img[p].len \in Nat /\ img[p].len > 0
        BY <1>4
      <4> QED
        BY <4>1, <4>2
    <3>2. CASE n = B
      <4>1. s = <<p>>
        <5>1. t = <<>>
          BY <1>3, <3>2
        <5> HIDE DEF s, t
        <5> QED
          BY <3>1, <5>1
      <4>2. ASSUME NEW q \in R, q >= p
            PROVE  q = p
        <5>1. q \in Nat /\ q < B /\ (q > p => q >= n)
          BY <1>4
        <5> QED
          BY <1>2, <3>1, <3>2, <4>2, <5>1
      <4>3. s \in Seq(R) /\ Len(s) = 1 /\ s[1] = p
        BY <4>1
      <4>4. 1 .. Len(s) - 1 = {} /\ 1 .. Len(s) = {1}
        BY <4>3
      <4>5. p \in R /\ p + img[p].len = BLOCK_SIZE
        BY <3>2
      <4> HIDE DEF s, n
      <4> QED
        BY <4>2, <4>3, <4>4, <4>5 DEF Lists, s
    <3>3. CASE n # B
      <4>1. n \in R /\ n >= B - i
        BY <1>2, <3>1, <3>3
      <4>2. Lists(t, img, R, n)
        BY <2>2, <4>1
      <4>3. t \in Seq(R) /\ Len(t) \in Nat /\ Len(t) >= 1
        BY <4>2 DEF Lists
      <4> HIDE DEF s, t, n
      <4>4. /\ s \in Seq(R) /\ Len(s) = Len(t) + 1 /\ s[1] = p
            /\ \A j \in 1 .. Len(t) : s[j + 1] = t[j]
        BY <3>1, <4>3
      <4>5. ASSUME NEW j \in 1 .. Len(s) - 1
            PROVE  s[j + 1] = s[j] + img[s[j]].len
        <5>1. CASE j = 1
          <6>1. s[1 + 1] = t[1] /\ t[1] = n
            BY <4>2, <4>3, <4>4 DEF Lists
          <6> QED
            BY <4>4, <5>1, <6>1 DEF n
        <5>2. CASE j # 1
          <6>1. j - 1 \in 1 .. Len(t) - 1 /\ j - 1 \in 1 .. Len(t) /\ j \in 1 .. Len(t) /\ (j - 1) + 1 = j
            BY <4>3, <4>4, <5>2
          <6>2. s[j] = t[j - 1] /\ s[j + 1] = t[j]
            BY <4>4, <6>1
          <6>3. t[j] = t[j - 1] + img[t[j - 1]].len
            BY <4>2, <6>1 DEF Lists
          <6> QED
            BY <6>2, <6>3
        <5> QED
          BY <5>1, <5>2
      <4>6. s[Len(s)] + img[s[Len(s)]].len = BLOCK_SIZE
        <5>1. s[Len(s)] = t[Len(t)]
          BY <4>3, <4>4
        <5> QED
          BY <4>2, <5>1 DEF Lists
      <4>7. ASSUME NEW q \in R, q >= p
            PROVE  \E j \in 1 .. Len(s) : s[j] = q
        <5>1. CASE q = p
          <6>1. 1 \in 1 .. Len(s)
            BY <4>3, <4>4
          <6> QED
            BY <4>4, <5>1, <6>1
        <5>2. CASE q # p
          <6>1. q >= n
            BY <1>4, <3>1, <4>7, <5>2 DEF n
          <6>2. PICK j \in 1 .. Len(t) : t[j] = q
            BY <4>2, <6>1 DEF Lists
          <6>3. j + 1 \in 1 .. Len(s) /\ s[j + 1] = q
            BY <4>3, <4>4, <6>2
          <6> QED
            BY <6>3
        <5> QED
          BY <5>1, <5>2
      <4>8. Len(s) >= 1
        BY <4>3, <4>4
      <4> QED
        BY <4>4, <4>5, <4>6, <4>7, <4>8 DEF Lists, s
    <3> QED
      BY <3>2, <3>3
  <2> HIDE DEF S
  <2> QED
    BY <1>2, <2>1, <2>2, SetInduction
<1>6. 0 \in R /\ 0 >= B - B
  BY <1>2 DEF Chain
<1> QED
  BY <1>1, <1>2, <1>5, <1>6

(* So the records that a search reaches are those of the chain.            *)
LEMMA ChainReached ==
    ASSUME NEW img \in RecordImages, NEW R, Chain(img, R)
    PROVE  /\ Reached(img) = R /\ EndOf(img) = BLOCK_SIZE /\ Tiled(img)
           /\ Chain(img, Reached(img)) /\ Positions(img) \in Seq(R) /\ Len(Positions(img)) >= 1
<1> DEFINE s == Positions(img)
<1>1. Lists(s, img, R, 0)
  BY ChainSearched
<1>2. s \in Seq(R) /\ Len(s) \in Nat /\ Len(s) >= 1 /\ DOMAIN s = 1 .. Len(s)
  BY <1>1 DEF Lists
<1>3. s # <<>>
  BY <1>2
<1>4. EndOf(img) = BLOCK_SIZE
  BY <1>1, <1>3 DEF EndOf, Lists
<1>5. Reached(img) = R
  <2>1. ASSUME NEW q \in R
        PROVE  q \in Reached(img)
    <3>1. q \in Nat
      BY ChainFacts
    <3> QED
      BY <1>1, <1>2, <3>1 DEF Reached, Lists
  <2>2. Reached(img) \subseteq R
    BY <1>2 DEF Reached
  <2> QED
    BY <2>1, <2>2
<1>6. Tiled(img)
  BY <1>4, <1>5 DEF Tiled, Chain
<1> QED
  BY <1>2, <1>4, <1>5, <1>6

(* An image without records is searched in vain.                           *)
LEMMA EmptySearched ==
    ASSUME NEW img, DOMAIN img = {}
    PROVE  /\ img \in RecordImages => Positions(img) = <<>> /\ Reached(img) = {} /\ EndOf(img) = 0
<1> SUFFICES ASSUME img \in RecordImages
             PROVE  Positions(img) = <<>> /\ Reached(img) = {} /\ EndOf(img) = 0
  OBVIOUS
<1>1. PICK f : f = Searches(img, f) /\ Positions(img) = f[0]
  BY PositionsSearch
<1>2. 0 \in 0 .. BLOCK_SIZE /\ 0 \notin DOMAIN img
  BY SizeFacts
<1>3. f[0] = Searches(img, f)[0]
  BY <1>1
<1>4. Positions(img) = <<>>
  BY <1>1, <1>2, <1>3 DEF Searches
<1> QED
  BY <1>4 DEF Reached, EndOf

\* The records a search reaches in the block of a directory are a chain, which tiles the block; an
\* empty block has none.
LEMMA BlockImageFacts ==
    ASSUME NEW img \in BlockImages
    PROVE  /\ img \in RecordImages
           /\ Reached(img) \subseteq DOMAIN img
           /\ Positions(img) \in Seq(Reached(img)) /\ Len(Positions(img)) \in Nat
           /\ DOMAIN img = {} => Reached(img) = {} /\ EndOf(img) = 0
           /\ DOMAIN img # {} => /\ Chain(img, Reached(img)) /\ EndOf(img) = BLOCK_SIZE /\ Tiled(img)
                                 /\ 0 \in Reached(img)
<1>1. img \in RecordImages
  BY DEF BlockImages
<1>2. CASE DOMAIN img = {}
  <2>1. Positions(img) = <<>> /\ Reached(img) = {} /\ EndOf(img) = 0
    BY <1>1, <1>2, EmptySearched
  <2> QED
    BY <1>1, <1>2, <2>1
<1>3. CASE DOMAIN img # {}
  <2>1. PICK R : Chain(img, R)
    BY <1>3 DEF BlockImages
  <2>2. /\ Reached(img) = R /\ EndOf(img) = BLOCK_SIZE /\ Tiled(img) /\ Chain(img, Reached(img))
        /\ Positions(img) \in Seq(R) /\ Len(Positions(img)) >= 1
    BY <1>1, <2>1, ChainReached
  <2>3. 0 \in R /\ R \subseteq DOMAIN img
    BY <2>1 DEF Chain
  <2>4. Len(Positions(img)) \in Nat
    BY <2>2
  <2> QED
    BY <1>1, <1>3, <2>2, <2>3, <2>4
<1> QED
  BY <1>2, <1>3

\* at is a record with the name, and knows the record before.
IsFound(imgs, name, at) ==
    LET img == imgs[at.block]
    IN  /\ at.block \in DOMAIN imgs /\ at.pos \in Reached(img) /\ at.pos # -1 /\ img[at.pos].name = name
        /\ DOMAIN img # {} /\ Chain(img, Reached(img))
        /\ at.prev = -1 => at.pos = 0
        /\ at.prev # -1 => at.prev \in Reached(img) /\ at.prev + img[at.prev].len = at.pos

(* find_file gives a record with the name, or -1; and it gives -1 only when*)
(* there is none or a block without records.                               *)
LEMMA FindFileGives ==
    ASSUME NEW n \in Nat, NEW imgs \in [1 .. n -> BlockImages], NEW name
    PROVE  LET at == FindFile(imgs, name)
           IN  /\ at.pos # -1 => IsFound(imgs, name, at)
               /\ at.pos = -1 => \/ \E i \in 1 .. n : DOMAIN imgs[i] = {}
                                 \/ \A i \in 1 .. n : \A p \in Reached(imgs[i]) : imgs[i][p].name # name
<1> DEFINE there(i) == {j \in DOMAIN Positions(imgs[i]) : imgs[i][Positions(imgs[i])[j]].name = name}
           hits == {i \in DOMAIN imgs : there(i) # {} /\ \A k \in 1 .. i - 1 : ~ BrokenOff(imgs[k])}
           spot(i, s, j) == [block |-> i, pos |-> s[j], prev |-> IF j = 1 THEN -1 ELSE s[j - 1]]
           first(i) == spot(i, Positions(imgs[i]), Min(there(i)))
           at == FindFile(imgs, name)
<1>1. at = IF hits = {} THEN [block |-> 0, pos |-> -1, prev |-> -1] ELSE first(Min(hits))
  BY DEF FindFile
<1>2. DOMAIN imgs = 1 .. n /\ \A i \in 1 .. n : imgs[i] \in BlockImages
  OBVIOUS
<1>3. CASE hits = {}
  <2>1. at.pos = -1
    <3> HIDE DEF at, hits
    <3> QED
      BY <1>1, <1>3
  <2>2. ASSUME NEW i \in 1 .. n, NEW p \in Reached(imgs[i]), imgs[i][p].name = name,
               \A k \in 1 .. n : DOMAIN imgs[k] # {}
        PROVE  FALSE
    <3>1. PICK j \in DOMAIN Positions(imgs[i]) : p = Positions(imgs[i])[j]
      BY DEF Reached
    <3>2. there(i) # {}
      BY <2>2, <3>1
    <3>3. ASSUME NEW k \in 1 .. i - 1
          PROVE  ~ BrokenOff(imgs[k])
      <4>1. k \in 1 .. n
        OBVIOUS
      <4>2. EndOf(imgs[k]) = BLOCK_SIZE /\ BLOCK_SIZE \in Nat
        BY <1>2, <2>2, <4>1, BlockImageFacts, SizeFacts
      <4> QED
        BY <4>2 DEF BrokenOff
    <3> QED
      BY <1>2, <1>3, <3>2, <3>3
  <2> HIDE DEF at
  <2> QED
    BY <2>1, <2>2 DEF at
<1>4. CASE hits # {}
  <2> DEFINE i == Min(hits)
             s == Positions(imgs[i])
             j == Min(there(i))
  <2>1. hits \in SUBSET Nat
    BY <1>2
  <2>2. i \in hits
    <3> HIDE DEF hits
    <3> QED
      BY <1>4, <2>1, LeastExists
  <2>3. i \in 1 .. n /\ there(i) # {} /\ imgs[i] \in BlockImages
    BY <1>2, <2>2
  <2> HIDE DEF i, hits
  <2>4. /\ imgs[i] \in RecordImages /\ Reached(imgs[i]) \subseteq DOMAIN imgs[i]
        /\ s \in Seq(Reached(imgs[i])) /\ Len(s) \in Nat
    BY <2>3, BlockImageFacts
  <2>5. DOMAIN s = 1 .. Len(s)
    BY <2>4
  <2>6. j \in there(i)
    <3>1. there(i) \in SUBSET Nat
      BY <2>4, <2>5
    <3> HIDE DEF there
    <3> QED
      BY <2>3, <3>1, LeastExists
  <2>7. j \in 1 .. Len(s) /\ imgs[i][s[j]].name = name
    BY <2>5, <2>6
  <2>8. at = [block |-> i, pos |-> s[j], prev |-> IF j = 1 THEN -1 ELSE s[j - 1]]
    BY <1>1, <1>4 DEF i
  <2> HIDE DEF j, at
  <2>9. s[j] \in Reached(imgs[i]) /\ DOMAIN imgs[i] # {}
    BY <2>4, <2>7
  <2>10. Chain(imgs[i], Reached(imgs[i]))
    BY <2>3, <2>9, BlockImageFacts
  <2>11. s[j] \in Nat
    BY <2>4, <2>9, <2>10, ChainFacts
  <2>12. Lists(s, imgs[i], Reached(imgs[i]), 0)
    BY <2>4, <2>10, ChainSearched
  <2>13. at.prev = -1 => at.pos = 0
    <3>1. CASE j = 1
      <4>1. s[1] = 0
        BY <2>12 DEF Lists
      <4> QED
        BY <2>8, <3>1, <4>1
    <3>2. CASE j # 1
      <4>1. j - 1 \in 1 .. Len(s)
        BY <2>4, <2>7, <3>2
      <4>2. s[j - 1] \in Reached(imgs[i])
        BY <2>4, <4>1
      <4>3. s[j - 1] \in Nat
        BY <2>4, <2>10, <4>2, ChainFacts
      <4>4. at.prev = s[j - 1]
        BY <2>8, <3>2
      <4> QED
        BY <4>3, <4>4
    <3> QED
      BY <3>1, <3>2
  <2>14. at.prev # -1 => at.prev \in Reached(imgs[i]) /\ at.prev + imgs[i][at.prev].len = at.pos
    <3> SUFFICES ASSUME at.prev # -1
                 PROVE  at.prev \in Reached(imgs[i]) /\ at.prev + imgs[i][at.prev].len = at.pos
      OBVIOUS
    <3>1. j # 1 /\ at.prev = s[j - 1] /\ at.pos = s[j]
      BY <2>8
    <3>2. j - 1 \in 1 .. Len(s) /\ j - 1 \in 1 .. Len(s) - 1 /\ (j - 1) + 1 = j
      BY <2>4, <2>7, <3>1
    <3>3. s[j] = s[j - 1] + imgs[i][s[j - 1]].len
      BY <2>12, <3>2 DEF Lists
    <3>4. s[j - 1] \in Reached(imgs[i])
      BY <2>4, <3>2
    <3> QED
      BY <3>1, <3>3, <3>4
  <2>15. at.block = i /\ at.pos = s[j] /\ at.pos # -1
    BY <2>8, <2>11
  <2>16. IsFound(imgs, name, at)
    BY <1>2, <2>3, <2>7, <2>9, <2>10, <2>13, <2>14, <2>15 DEF IsFound
  <2> QED
    BY <2>15, <2>16 DEF at
<1> QED
  BY <1>3, <1>4

(* A block with one record.                                                *)
LEMMA LoneGives ==
    ASSUME NEW inum \in Inums, NEW name \in NameSet
    PROVE  LET img == Lone(inum, name)
           IN  /\ img \in BlockImages /\ DOMAIN img = {0} /\ Reached(img) = {0}
               /\ img[0] = Record(inum, BLOCK_SIZE, name)
<1> DEFINE img == Lone(inum, name)
<1>1. img = [p \in {0} |-> Record(inum, BLOCK_SIZE, name)]
  BY DEF Lone
<1>2. DOMAIN img = {0} /\ img[0] = Record(inum, BLOCK_SIZE, name) /\ img = [p \in DOMAIN img |-> img[p]]
  BY <1>1
<1>3. /\ BLOCK_SIZE \in Nat /\ BLOCK_SIZE > 0 /\ Size(name) \in Nat /\ Size(name) <= BLOCK_SIZE
      /\ img[0].len = BLOCK_SIZE /\ img[0].name = name /\ img[0] \in Rec
  BY <1>2, SizeFacts DEF Record, Rec
<1>4. img \in RecordImages
  BY <1>2, <1>3, RecordImagesIff
<1>5. Chain(img, {0})
  BY <1>2, <1>3 DEF Chain
<1>6. Reached(img) = {0}
  BY <1>4, <1>5, ChainReached
<1>7. img \in BlockImages
  BY <1>2, <1>4, <1>5 DEF BlockImages
<1> QED
  BY <1>2, <1>6, <1>7

(* A new length of a record changes nothing else.                          *)
LEMMA SetLenGives ==
    ASSUME NEW img \in RecordImages, NEW p \in DOMAIN img, NEW len \in Nat
    PROVE  LET new == SetLen(img, p, len)
           IN  /\ new \in RecordImages /\ DOMAIN new = DOMAIN img
               /\ new[p].len = len /\ new[p].name = img[p].name /\ new[p].inum = img[p].inum
               /\ \A q \in DOMAIN img : q # p => new[q] = img[q]
<1> DEFINE new == SetLen(img, p, len)
<1>1. /\ DOMAIN img \subseteq 0 .. BLOCK_SIZE - 1 /\ img[p] \in Rec
      /\ \A q \in DOMAIN img : img[q] \in Rec
  BY RecordImagesIff
<1>2. DOMAIN new = DOMAIN img /\ new[p] = [img[p] EXCEPT !.len = len] /\ new = [q \in DOMAIN new |-> new[q]]
      /\ \A q \in DOMAIN img : q # p => new[q] = img[q]
  BY DEF SetLen
<1>3. /\ new[p] \in Rec /\ new[p].len = len /\ new[p].name = img[p].name /\ new[p].inum = img[p].inum
  BY <1>1, <1>2 DEF Rec
<1>4. \A q \in DOMAIN new : new[q] \in Rec
  BY <1>1, <1>2, <1>3
<1> HIDE DEF new
<1>5. new \in RecordImages
  BY <1>1, <1>2, <1>4, RecordImagesIff
<1> QED
  BY <1>2, <1>3, <1>5 DEF new

(* A record that is written takes the place of those it overlaps.          *)
LEMMA PutGives ==
    ASSUME NEW img \in RecordImages, NEW p \in 0 .. BLOCK_SIZE - 1, NEW r \in Rec
    PROVE  LET new == Put(img, p, r)
           IN  /\ new \in RecordImages /\ p \in DOMAIN new /\ new[p] = r
               /\ \A q \in DOMAIN new : q # p => q \in DOMAIN img /\ new[q] = img[q]
               /\ \A q \in DOMAIN img :
                     q # p /\ (q + Size(img[q].name) <= p \/ q >= p + Size(r.name)) => q \in DOMAIN new
<1> DEFINE over == {q \in DOMAIN img : Extent(img, q) \cap (p .. p + Size(r.name) - 1) # {}}
           new == Put(img, p, r)
<1>1. new = [q \in (DOMAIN img \ over) \cup {p} |-> IF q = p THEN r ELSE img[q]]
  BY DEF Put
<1>2. DOMAIN img \subseteq 0 .. BLOCK_SIZE - 1 /\ \A q \in DOMAIN img : img[q] \in Rec
  BY RecordImagesIff
<1>3. /\ DOMAIN new = (DOMAIN img \ over) \cup {p} /\ new[p] = r
      /\ \A q \in DOMAIN new : q # p => new[q] = img[q]
      /\ new = [q \in DOMAIN new |-> new[q]]
  BY <1>1
<1>4. ASSUME NEW q \in DOMAIN img, q + Size(img[q].name) <= p \/ q >= p + Size(r.name)
      PROVE  q \notin over
  <2>1. img[q].name \in NameSet /\ r.name \in NameSet
    BY <1>2 DEF Rec
  <2>2. Size(img[q].name) \in Nat /\ Size(r.name) \in Nat /\ q \in Nat /\ p \in Nat
    BY <1>2, <2>1, SizeFacts
  <2>3. Extent(img, q) \cap (p .. p + Size(r.name) - 1) = {}
    BY <1>4, <2>2 DEF Extent
  <2> QED
    BY <2>3
<1>5. new \in RecordImages
  <2>1. DOMAIN new \subseteq 0 .. BLOCK_SIZE - 1
    BY <1>2, <1>3
  <2>2. \A q \in DOMAIN new : new[q] \in Rec
    BY <1>2, <1>3
  <2> HIDE DEF new, over
  <2> QED
    BY <1>3, <2>1, <2>2, RecordImagesIff
<1> HIDE DEF new, over
<1> QED
  BY <1>3, <1>4, <1>5 DEF new, over

(* The record before takes over the bytes of the one at pos.               *)
LEMMA MergeGives ==
    ASSUME NEW img \in BlockImages, DOMAIN img # {}, NEW pos \in Reached(img), NEW prev \in Reached(img),
           prev + img[prev].len = pos
    PROVE  LET new == Merge(img, pos, prev)
           IN  /\ new \in BlockImages /\ DOMAIN new # {} /\ Reached(new) = Reached(img) \ {pos}
               /\ new[prev].name = img[prev].name /\ new[prev].inum = img[prev].inum
               /\ \A q \in Reached(new) : q # prev => new[q] = img[q]
<1> DEFINE R == Reached(img)
           Q == R \ {pos}
           new == Merge(img, pos, prev)
<1>1. img \in RecordImages /\ Chain(img, R) /\ 0 \in R /\ R \subseteq DOMAIN img
  BY BlockImageFacts
<1>2. ASSUME NEW p \in R
      PROVE  /\ p \in Nat /\ img[p].len \in Nat /\ img[p].len > 0 /\ img[p].len >= Size(img[p].name)
             /\ p + img[p].len \in R \cup {BLOCK_SIZE} /\ Size(img[p].name) \in Nat
             /\ \A q \in R : q > p => q >= p + img[p].len
  BY <1>1, ChainFacts DEF Chain
<1>3. /\ new \in RecordImages /\ DOMAIN new = DOMAIN img
      /\ new[prev].len = img[prev].len + img[pos].len /\ new[prev].name = img[prev].name /\ new[prev].inum = img[prev].inum
      /\ \A q \in DOMAIN img : q # prev => new[q] = img[q]
  <2>1. prev \in R /\ pos \in R
    OBVIOUS
  <2>2. img[prev].len \in Nat /\ img[pos].len \in Nat
    BY <1>2, <2>1
  <2>3. img[prev].len + img[pos].len \in Nat /\ prev \in DOMAIN img
    BY <1>1, <2>1, <2>2
  <2> DEFINE len == img[prev].len + img[pos].len
  <2>4. new = SetLen(img, prev, len)
    BY DEF Merge
  <2>5. len \in Nat
    BY <2>3
  <2> HIDE DEF len, new, R
  <2> DEFINE set == SetLen(img, prev, len)
  <2>6. img \in RecordImages /\ prev \in DOMAIN img
    BY <1>1, <2>3
  <2>7. /\ set \in RecordImages /\ DOMAIN set = DOMAIN img
        /\ set[prev].len = len /\ set[prev].name = img[prev].name /\ set[prev].inum = img[prev].inum
        /\ \A q \in DOMAIN img : q # prev => set[q] = img[q]
    BY <2>5, <2>6, SetLenGives
  <2> HIDE DEF set
  <2> QED
    BY <2>4, <2>7 DEF len, set
<1> HIDE DEF new, R
<1>4. pos \in R /\ prev \in R /\ prev # pos /\ prev \in Q
  <2>1. pos \in R /\ prev \in R
    BY DEF R
  <2>2. prev \in Nat /\ img[prev].len \in Nat /\ img[prev].len > 0
    BY <1>2, <2>1
  <2> QED
    BY <2>1, <2>2
<1>5. 0 \in Q
  <2>1. pos # 0
    BY <1>2, <1>4
  <2> QED
    BY <1>1, <2>1
<1>6. ASSUME NEW p \in Q
      PROVE  /\ new[p].len >= Size(new[p].name)
             /\ p + new[p].len \in Q \cup {BLOCK_SIZE}
             /\ \A q \in Q : q > p => q >= p + new[p].len
  <2>1. CASE p = prev
    <3>1. p + new[p].len = pos + img[pos].len
      BY <1>2, <1>3, <1>4, <2>1
    <3>2. /\ pos + img[pos].len \in R \cup {BLOCK_SIZE} /\ pos + img[pos].len # pos
          /\ \A q \in R : q > pos => q >= pos + img[pos].len
      BY <1>2, <1>4
    <3>3. \A q \in Q : q > p => q > pos
      <4> SUFFICES ASSUME NEW q \in Q, q > p
                   PROVE  q > pos
        OBVIOUS
      <4>1. q >= pos /\ q # pos /\ q \in Nat /\ pos \in Nat
        BY <1>2, <1>4, <2>1
      <4> QED
        BY <4>1
    <3>4. new[p].len >= Size(new[p].name)
      BY <1>2, <1>3, <1>4, <2>1
    <3> QED
      BY <3>1, <3>2, <3>3, <3>4
  <2>2. CASE p # prev
    <3>1. new[p] = img[p] /\ p \in R
      BY <1>1, <1>3, <2>2
    <3>2. p + img[p].len # pos
      <4>1. p < prev \/ p > prev
        BY <1>2, <1>4, <2>2, <3>1
      <4>2. CASE p < prev
        BY <1>2, <1>4, <3>1, <4>2
      <4>3. CASE p > prev
        <5>1. p >= pos /\ p \in Nat /\ pos \in Nat /\ img[p].len \in Nat /\ img[p].len > 0
          BY <1>2, <1>4, <3>1, <4>3
        <5> QED
          BY <5>1
      <4> QED
        BY <4>1, <4>2, <4>3
    <3> QED
      BY <1>2, <3>1, <3>2
  <2> QED
    BY <2>1, <2>2
<1>7. Chain(new, Q)
  BY <1>1, <1>3, <1>5, <1>6 DEF Chain
<1>8. Reached(new) = Q
  BY <1>3, <1>7, ChainReached
<1>9. new \in BlockImages /\ DOMAIN new # {}
  <2>1. Q \in SUBSET DOMAIN new /\ DOMAIN new # {}
    BY <1>1, <1>3, <1>5
  <2> QED
    BY <1>3, <1>7, <2>1 DEF BlockImages
<1> QED
  BY <1>1, <1>3, <1>8, <1>9 DEF new, R

(* The second record moves to the front of the block.                      *)
LEMMA MoveUpGives ==
    ASSUME NEW img \in BlockImages, DOMAIN img # {}, img[0].len # BLOCK_SIZE
    PROVE  LET new == MoveUp(img)
               next == img[0].len
           IN  /\ next \in Reached(img) /\ next # 0
               /\ new \in BlockImages /\ DOMAIN new # {} /\ Reached(new) = Reached(img) \ {next}
               /\ new[0].name = img[next].name /\ new[0].inum = img[next].inum
               /\ \A q \in Reached(new) : q # 0 => new[q] = img[q]
<1> DEFINE R == Reached(img)
           n == img[0].len
           r == [img[n] EXCEPT !.len = @ + img[0].len]
           Q == R \ {n}
           new == MoveUp(img)
<1>1. img \in RecordImages /\ Chain(img, R) /\ 0 \in R /\ R \subseteq DOMAIN img
  BY BlockImageFacts
<1>2. ASSUME NEW p \in R
      PROVE  /\ p \in Nat /\ img[p].len \in Nat /\ img[p].len > 0 /\ img[p].len >= Size(img[p].name)
             /\ p + img[p].len \in R \cup {BLOCK_SIZE} /\ Size(img[p].name) \in Nat
             /\ \A q \in R : q > p => q >= p + img[p].len
             /\ img[p] \in Rec
  BY <1>1, ChainFacts DEF Chain
<1>3. n \in R /\ n \in Nat /\ n > 0
  <2>1. 0 + n = n /\ n \in Nat /\ n > 0
    BY <1>1, <1>2
  <2>2. 0 + n \in R \cup {BLOCK_SIZE}
    BY <1>1, <1>2
  <2> QED
    BY <2>1, <2>2
<1> HIDE DEF R, n
<1>4. /\ r \in Rec /\ r.len = img[n].len + n /\ r.name = img[n].name /\ r.inum = img[n].inum
  <2>1. img[n] \in Rec /\ img[n].len + n \in Nat
    BY <1>2, <1>3
  <2> QED
    BY <2>1 DEF Rec, n
<1>5. new = Put(img, 0, r)
  BY DEF MoveUp, n
<1> HIDE DEF r, new
<1>6. /\ new \in RecordImages /\ 0 \in DOMAIN new /\ new[0] = r
      /\ \A q \in DOMAIN new : q # 0 => q \in DOMAIN img /\ new[q] = img[q]
      /\ \A q \in DOMAIN img : q # 0 /\ q >= 0 + Size(r.name) => q \in DOMAIN new
  <2>1. 0 \in 0 .. BLOCK_SIZE - 1
    BY <1>1, RecordImagesIff
  <2> QED
    BY <1>1, <1>4, <1>5, <2>1, PutGives
<1>7. ASSUME NEW q \in Q, q # 0
      PROVE  q \in DOMAIN new /\ new[q] = img[q] /\ q \in R /\ q > n
  <2>1. q \in Nat /\ q >= 0 + n /\ q # n /\ q \in R
    BY <1>1, <1>2, <1>7 DEF n
  <2>2. q >= n + img[n].len
    BY <1>2, <1>3, <2>1
  <2>3. Size(r.name) \in Nat /\ Size(r.name) <= img[n].len /\ img[n].len \in Nat
    BY <1>2, <1>3, <1>4
  <2>4. q >= 0 + Size(r.name)
    BY <1>3, <2>1, <2>2, <2>3
  <2> QED
    BY <1>1, <1>3, <1>6, <1>7, <2>1, <2>4
<1>8. ASSUME NEW p \in Q
      PROVE  /\ new[p].len >= Size(new[p].name)
             /\ p + new[p].len \in Q \cup {BLOCK_SIZE}
             /\ \A q \in Q : q > p => q >= p + new[p].len
  <2>1. CASE p = 0
    <3>1. new[p] = r /\ p + new[p].len = n + img[n].len
      BY <1>2, <1>3, <1>4, <1>6, <2>1
    <3>2. n + img[n].len \in R \cup {BLOCK_SIZE} /\ n + img[n].len # n
      BY <1>2, <1>3
    <3>3. ASSUME NEW q \in Q, q > p
          PROVE  q > n
      <4>1. q \in R
        OBVIOUS
      <4>2. q \in Nat /\ q # 0
        BY <1>2, <2>1, <3>3, <4>1
      <4> QED
        BY <1>7, <4>2
    <3>4. new[p].len >= Size(new[p].name)
      BY <1>2, <1>3, <1>4, <3>1
    <3> QED
      BY <1>2, <1>3, <3>1, <3>2, <3>3, <3>4
  <2>2. CASE p # 0
    <3>1. new[p] = img[p] /\ p \in R /\ p > n
      BY <1>7, <2>2
    <3>2. p + img[p].len # n
      BY <1>2, <1>3, <3>1
    <3> QED
      BY <1>2, <3>1, <3>2
  <2> QED
    BY <2>1, <2>2
<1>9. Q \subseteq DOMAIN new /\ 0 \in Q
  BY <1>1, <1>3, <1>6, <1>7
<1>10. Chain(new, Q)
  BY <1>8, <1>9 DEF Chain
<1>11. Reached(new) = Q
  BY <1>6, <1>10, ChainReached
<1>12. new \in BlockImages /\ DOMAIN new # {}
  BY <1>6, <1>9, <1>10 DEF BlockImages
<1> QED
  BY <1>3, <1>4, <1>6, <1>7, <1>11, <1>12 DEF new, R, n, r

(* A record is added behind the name of one that has room.                 *)
LEMMA SplitGives ==
    ASSUME NEW img \in BlockImages, NEW inum \in Inums, NEW name \in NameSet, Room(img, name) # {}
    PROVE  LET new == Split(img, inum, name)
           IN  /\ new \in BlockImages /\ DOMAIN new # {}
               /\ \E p \in Reached(img), m \in Nat \ Reached(img) :
                     /\ p = Min(Room(img, name)) /\ m = p + Size(img[p].name)
                     /\ Reached(new) = Reached(img) \cup {m}
                     /\ new[m].name = name /\ new[m].inum = inum /\ new[m].len = img[p].len - Size(img[p].name)
                     /\ new[p].name = img[p].name /\ new[p].inum = img[p].inum /\ new[p].len = Size(img[p].name)
                     /\ \A q \in Reached(img) : q # p => new[q] = img[q]
<1> DEFINE R == Reached(img)
           p == Min(Room(img, name))
           own == Size(img[p].name)
           m == p + own
           r == Record(inum, img[p].len - own, name)
           cut == SetLen(img, p, own)
           Q == R \cup {m}
           new == Split(img, inum, name)
<1>1. DOMAIN img # {}
  BY BlockImageFacts DEF Room
<1>2. img \in RecordImages /\ Chain(img, R) /\ 0 \in R /\ R \subseteq DOMAIN img
  BY <1>1, BlockImageFacts
<1>3. ASSUME NEW q \in R
      PROVE  /\ q \in Nat /\ img[q].len \in Nat /\ img[q].len > 0 /\ img[q].len >= Size(img[q].name)
             /\ q + img[q].len \in R \cup {BLOCK_SIZE} /\ Size(img[q].name) \in Nat /\ Size(img[q].name) > 0
             /\ \A k \in R : k > q => k >= q + img[q].len
             /\ img[q] \in Rec /\ q < BLOCK_SIZE /\ q + img[q].len <= BLOCK_SIZE
  BY <1>2, ChainFacts DEF Chain
<1>4. p \in R /\ img[p].len - own >= Size(name)
  <2>1. Room(img, name) \in SUBSET Nat
    BY <1>3 DEF Room
  <2>2. Min(Room(img, name)) \in Room(img, name)
    BY <2>1, LeastExists
  <2> QED
    BY <2>2 DEF Room
<1>5. Size(name) \in Nat /\ Size(name) > 0 /\ BLOCK_SIZE \in Nat
  BY SizeFacts
<1>6. new = Put(cut, m, r)
  BY DEF Split
<1> HIDE DEF R, p, new
<1>7. own \in Nat /\ own > 0 /\ img[p].len \in Nat /\ m \in Nat /\ m > p /\ p \in Nat
  BY <1>3, <1>4
<1>8. /\ cut \in RecordImages /\ DOMAIN cut = DOMAIN img
      /\ cut[p].len = own /\ cut[p].name = img[p].name /\ cut[p].inum = img[p].inum
      /\ \A q \in DOMAIN img : q # p => cut[q] = img[q]
  <2>1. p \in DOMAIN img
    BY <1>2, <1>4
  <2> HIDE DEF own
  <2> QED
    BY <1>2, <1>7, <2>1, SetLenGives
<1>9. r \in Rec /\ r.inum = inum /\ r.len = img[p].len - own /\ r.name = name
  <2>1. img[p].len - own \in Nat
    BY <1>4, <1>5, <1>7
  <2> QED
    BY <2>1 DEF Record, Rec
<1> HIDE DEF cut, r
<1>10. m \in 0 .. BLOCK_SIZE - 1 /\ m + r.len = p + img[p].len /\ m + Size(name) <= p + img[p].len /\ m < p + img[p].len
  <2>1. p + img[p].len <= BLOCK_SIZE
    BY <1>3, <1>4
  <2> HIDE DEF own
  <2> QED
    BY <1>4, <1>5, <1>7, <1>9, <2>1
<1>11. /\ new \in RecordImages /\ m \in DOMAIN new /\ new[m] = r
       /\ \A q \in DOMAIN new : q # m => q \in DOMAIN cut /\ new[q] = cut[q]
       /\ \A q \in DOMAIN cut :
             q # m /\ (q + Size(cut[q].name) <= m \/ q >= m + Size(r.name)) => q \in DOMAIN new
  BY <1>6, <1>8, <1>9, <1>10, PutGives
<1>12. m \notin R
  <2> SUFFICES ASSUME m \in R
               PROVE  FALSE
    OBVIOUS
  <2>1. m >= p + img[p].len
    BY <1>3, <1>4, <1>7
  <2> QED
    BY <1>7, <1>10, <2>1
<1>13. ASSUME NEW q \in R, q # p
       PROVE  (q + img[q].len <= p /\ q < p) \/ (q >= p + img[p].len /\ q > m)
  <2>1. q \in Nat /\ img[q].len \in Nat
    BY <1>3
  <2>2. CASE q < p
    BY <1>3, <1>4, <2>2
  <2>3. CASE q > p
    <3>1. q >= p + img[p].len
      BY <1>3, <1>4, <2>3
    <3> HIDE DEF own
    <3> QED
      BY <1>7, <1>10, <2>1, <3>1
  <2> QED
    BY <1>7, <1>13, <2>1, <2>2, <2>3
<1>14. ASSUME NEW q \in R
       PROVE  q \in DOMAIN new /\ new[q] = cut[q] /\ q \in DOMAIN cut
  <2>1. q \in DOMAIN cut /\ q # m
    BY <1>2, <1>8, <1>12
  <2>2. q + Size(cut[q].name) <= m \/ q >= m + Size(r.name)
    <3>1. CASE q = p
      BY <1>7, <1>8, <3>1
    <3>2. CASE q # p
      <4>1. cut[q] = img[q] /\ q \in Nat /\ img[q].len \in Nat /\ Size(img[q].name) \in Nat /\ Size(img[q].name) <= img[q].len
        BY <1>3, <1>8, <2>1, <3>2
      <4>2. (q + img[q].len <= p /\ q < p) \/ (q >= p + img[p].len /\ q > m)
        BY <1>13, <3>2
      <4> HIDE DEF own
      <4> QED
        BY <1>5, <1>7, <1>9, <1>10, <4>1, <4>2
    <3> QED
      BY <3>1, <3>2
  <2> QED
    BY <1>11, <2>1, <2>2
<1>15. ASSUME NEW q \in Q
       PROVE  /\ new[q].len >= Size(new[q].name)
              /\ q + new[q].len \in Q \cup {BLOCK_SIZE}
              /\ \A k \in Q : k > q => k >= q + new[q].len
  <2>1. CASE q = m
    <3>1. new[q].len >= Size(new[q].name) /\ q + new[q].len = p + img[p].len
      BY <1>4, <1>9, <1>10, <1>11, <2>1
    <3>2. p + img[p].len \in R \cup {BLOCK_SIZE}
      BY <1>3, <1>4
    <3>3. ASSUME NEW k \in Q, k > m
          PROVE  k >= p + img[p].len
      <4>1. k \in R /\ k # p
        BY <1>7, <3>3
      <4>2. k \in Nat
        BY <1>3, <4>1
      <4>3. (k + img[k].len <= p /\ k < p) \/ (k >= p + img[p].len /\ k > m)
        BY <1>13, <4>1
      <4> HIDE DEF m
      <4> QED
        BY <1>7, <3>3, <4>2, <4>3
    <3> QED
      BY <2>1, <3>1, <3>2, <3>3
  <2>2. CASE q = p
    <3>1. new[q].len = own /\ new[q].name = img[p].name
      BY <1>4, <1>8, <1>14, <2>2
    <3>2. ASSUME NEW k \in Q, k > p
          PROVE  k >= m
      <4>1. CASE k = m
        BY <1>7, <4>1
      <4>2. CASE k # m
        <5>1. k \in R /\ k # p /\ k \in Nat
          BY <1>3, <1>7, <3>2, <4>2
        <5>2. (k + img[k].len <= p /\ k < p) \/ (k >= p + img[p].len /\ k > m)
          BY <1>13, <5>1
        <5> HIDE DEF m
        <5> QED
          BY <1>7, <3>2, <5>1, <5>2
      <4> QED
        BY <4>1, <4>2
    <3>3. q + new[q].len = m /\ new[q].len >= Size(new[q].name)
      BY <1>7, <2>2, <3>1
    <3> QED
      BY <2>2, <3>2, <3>3
  <2>3. CASE q # m /\ q # p
    <3>1. q \in R /\ new[q] = img[q]
      BY <1>2, <1>8, <1>14, <2>3
    <3>2. ASSUME NEW k \in Q, k > q
          PROVE  k >= q + img[q].len
      <4>1. CASE k = m
        <5>1. (q + img[q].len <= p /\ q < p) \/ (q >= p + img[p].len /\ q > m)
          BY <1>13, <2>3, <3>1
        <5>2. q \in Nat /\ img[q].len \in Nat
          BY <1>3, <3>1
        <5> HIDE DEF m
        <5> QED
          BY <1>7, <3>2, <4>1, <5>1, <5>2
      <4>2. CASE k # m
        BY <1>3, <3>1, <3>2, <4>2
      <4> QED
        BY <4>1, <4>2
    <3> QED
      BY <1>3, <3>1, <3>2
  <2> QED
    BY <2>1, <2>2, <2>3
<1>16. Q \subseteq DOMAIN new /\ 0 \in Q
  BY <1>2, <1>11, <1>14
<1>17. Chain(new, Q)
  <2> HIDE DEF Q
  <2> QED
    BY <1>15, <1>16 DEF Chain
<1>18. Reached(new) = Q
  <2> HIDE DEF Q
  <2> QED
    BY <1>11, <1>17, ChainReached
<1>19. new \in BlockImages /\ DOMAIN new # {}
  <2>1. Q \in SUBSET DOMAIN new /\ DOMAIN new # {}
    BY <1>16
  <2> HIDE DEF Q
  <2> QED
    BY <1>11, <1>17, <2>1 DEF BlockImages
<1>20. \A q \in R : q # p => new[q] = img[q]
  BY <1>2, <1>8, <1>14
<1>21. new[p].name = img[p].name /\ new[p].inum = img[p].inum /\ new[p].len = own
  BY <1>4, <1>8, <1>14
<1> QED
  BY <1>4, <1>7, <1>9, <1>11, <1>12, <1>18, <1>19, <1>20, <1>21 DEF R, p, new

-----------------------------------------------------------------------------
(* Directories                                                             *)

\* The records of a directory with n blocks: every name is there once, and
\* the first two are "." and "..", with no room behind ".".
Directory(imgs, n) ==
    /\ n \in Nat /\ n >= 1 /\ imgs \in [1 .. n -> BlockImages]
    /\ \A i \in 1 .. n : DOMAIN imgs[i] # {}
    /\ \A i, k \in 1 .. n : \A p \in Reached(imgs[i]), q \in Reached(imgs[k]) :
          imgs[i][p].name = imgs[k][q].name => i = k /\ p = q
    /\ imgs[1][0].name = "." /\ imgs[1][0].len = Size(".")
    /\ Size(".") \in Reached(imgs[1]) /\ imgs[1][Size(".")].name = ".."

HasName(imgs, n, name) == \E i \in 1 .. n : \E p \in Reached(imgs[i]) : imgs[i][p].name = name

\* What find_file finds at a position it reaches: a record with room for its name, and the next
\* record right behind.
LEMMA ReachedFacts ==
    ASSUME NEW img \in BlockImages, NEW p \in Reached(img)
    PROVE  /\ p \in Nat /\ p < BLOCK_SIZE
           /\ img[p] \in Rec /\ img[p].len \in Nat /\ img[p].len > 0 /\ img[p].name \in NameSet /\ img[p].inum \in Inums
           /\ Size(img[p].name) \in Nat /\ Size(img[p].name) > 0 /\ Size(img[p].name) <= img[p].len
           /\ p + img[p].len \in Reached(img) \cup {BLOCK_SIZE}
           /\ \A q \in Reached(img) : q > p => q >= p + img[p].len
           /\ DOMAIN img # {}
<1>1. DOMAIN img # {}
  BY BlockImageFacts
<1>2. img \in RecordImages /\ Chain(img, Reached(img))
  BY <1>1, BlockImageFacts
<1>3. img[p] \in Rec
  BY <1>2, ChainFacts
<1> QED
  BY <1>1, <1>2, <1>3, ChainFacts DEF Chain, Rec

\* A search reaches the first record.
LEMMA FirstReached ==
    ASSUME NEW img \in BlockImages, DOMAIN img # {}
    PROVE  0 \in Reached(img)
  BY BlockImageFacts

(* A record more in the last block.                                        *)
LEMMA NameAdded ==
    ASSUME NEW imgs, NEW n, Directory(imgs, n), NEW inum \in Inums, NEW name \in NameSet,
           ~ HasName(imgs, n, name), Room(imgs[n], name) # {}
    PROVE  Directory([imgs EXCEPT ![n] = Split(imgs[n], inum, name)], n)
<1> DEFINE new == Split(imgs[n], inum, name)
           res == [imgs EXCEPT ![n] = new]
<1>1. /\ n \in Nat /\ n >= 1 /\ imgs \in [1 .. n -> BlockImages] /\ n \in 1 .. n /\ 1 \in 1 .. n
      /\ imgs[n] \in BlockImages
  BY DEF Directory
<1>2. /\ new \in BlockImages /\ DOMAIN new # {}
      /\ \E p \in Reached(imgs[n]), m \in Nat \ Reached(imgs[n]) :
            /\ p = Min(Room(imgs[n], name)) /\ m = p + Size(imgs[n][p].name)
            /\ Reached(new) = Reached(imgs[n]) \cup {m}
            /\ new[m].name = name /\ new[m].inum = inum /\ new[m].len = imgs[n][p].len - Size(imgs[n][p].name)
            /\ new[p].name = imgs[n][p].name /\ new[p].inum = imgs[n][p].inum /\ new[p].len = Size(imgs[n][p].name)
            /\ \A q \in Reached(imgs[n]) : q # p => new[q] = imgs[n][q]
  BY <1>1, SplitGives
<1>3. PICK p \in Reached(imgs[n]), m \in Nat \ Reached(imgs[n]) :
            /\ p = Min(Room(imgs[n], name)) /\ m = p + Size(imgs[n][p].name)
            /\ Reached(new) = Reached(imgs[n]) \cup {m}
            /\ new[m].name = name /\ new[m].inum = inum /\ new[m].len = imgs[n][p].len - Size(imgs[n][p].name)
            /\ new[p].name = imgs[n][p].name /\ new[p].inum = imgs[n][p].inum /\ new[p].len = Size(imgs[n][p].name)
            /\ \A q \in Reached(imgs[n]) : q # p => new[q] = imgs[n][q]
  BY <1>2
<1> HIDE DEF new
<1>4. res \in [1 .. n -> BlockImages] /\ res[n] = new /\ \A i \in 1 .. n : i # n => res[i] = imgs[i]
  BY <1>1, <1>2
<1>5. \A i \in 1 .. n : DOMAIN res[i] # {}
  BY <1>2, <1>4 DEF Directory
<1>6. \A q \in Reached(imgs[n]) : new[q].name = imgs[n][q].name
  BY <1>3
<1> HIDE DEF res
<1>7. ASSUME NEW i \in 1 .. n, NEW q \in Reached(res[i])
      PROVE  \/ i = n /\ q = m /\ res[i][q].name = name
             \/ q \in Reached(imgs[i]) /\ res[i][q].name = imgs[i][q].name
  BY <1>3, <1>4, <1>6
<1>8. ASSUME NEW i \in 1 .. n, NEW k \in 1 .. n, NEW q \in Reached(res[i]), NEW s \in Reached(res[k]),
             res[i][q].name = res[k][s].name
      PROVE  i = k /\ q = s
  <2>1. \A h \in 1 .. n : \A t \in Reached(imgs[h]) : imgs[h][t].name # name
    BY DEF HasName
  <2>2. \/ i = n /\ q = m /\ res[i][q].name = name
        \/ q \in Reached(imgs[i]) /\ res[i][q].name = imgs[i][q].name
    BY <1>7
  <2>3. \/ k = n /\ s = m /\ res[k][s].name = name
        \/ s \in Reached(imgs[k]) /\ res[k][s].name = imgs[k][s].name
    BY <1>7
  <2> QED
    BY <1>8, <2>1, <2>2, <2>3 DEF Directory
<1>9. /\ res[1][0].name = "." /\ res[1][0].len = Size(".")
      /\ Size(".") \in Reached(res[1]) /\ res[1][Size(".")].name = ".."
  <2>1. CASE n = 1
    <3>1. imgs[1][0].name = "." /\ imgs[1][0].len = Size(".") /\ Size(".") \in Reached(imgs[1]) /\ imgs[1][Size(".")].name = ".."
      BY DEF Directory
    <3>2. 0 \in Reached(imgs[n]) /\ 0 # p
      <4>1. 0 \in Reached(imgs[n])
        BY <1>1, FirstReached DEF Directory
      <4>2. p \in Room(imgs[n], name)
        <5>1. Room(imgs[n], name) \in SUBSET Nat
          BY <1>1, ReachedFacts DEF Room
        <5> QED
          BY <1>3, <5>1, LeastExists
      <4>3. imgs[n][p].len - Size(imgs[n][p].name) >= Size(name)
        BY <4>2 DEF Room
      <4>4. Size(".") \in Nat /\ Size(name) \in Nat /\ Size(name) > 0
        BY SizeFacts
      <4> QED
        BY <2>1, <3>1, <4>1, <4>3, <4>4
    <3>3. res[1] = new /\ new[0] = imgs[1][0]
      BY <1>3, <1>4, <2>1, <3>2
    <3> QED
      BY <1>3, <1>6, <2>1, <3>1, <3>3
  <2>2. CASE n # 1
    BY <1>1, <1>4, <2>2 DEF Directory
  <2> QED
    BY <2>1, <2>2
<1> QED
  BY <1>1, <1>4, <1>5, <1>8, <1>9 DEF Directory, res, new

(* A block more, with one record.                                          *)
LEMMA BlockAdded ==
    ASSUME NEW imgs, NEW n, Directory(imgs, n), NEW inum \in Inums, NEW name \in NameSet,
           ~ HasName(imgs, n, name)
    PROVE  Directory([i \in 1 .. n + 1 |-> IF i = n + 1 THEN Lone(inum, name) ELSE imgs[i]], n + 1)
<1> DEFINE new == Lone(inum, name)
           res == [i \in 1 .. n + 1 |-> IF i = n + 1 THEN new ELSE imgs[i]]
<1>1. n \in Nat /\ n >= 1 /\ imgs \in [1 .. n -> BlockImages]
  BY DEF Directory
<1>2. new \in BlockImages /\ DOMAIN new # {} /\ Reached(new) = {0} /\ new[0].name = name
  <2>1. new \in BlockImages /\ DOMAIN new = {0} /\ Reached(new) = {0} /\ new[0] = Record(inum, BLOCK_SIZE, name)
    BY LoneGives
  <2> HIDE DEF new
  <2> QED
    BY <2>1 DEF Record
<1> HIDE DEF new
<1>3. res[n + 1] = new /\ \A i \in 1 .. n : res[i] = imgs[i]
  BY <1>1
<1>4. n + 1 \in Nat /\ n + 1 >= 1 /\ \A i \in 1 .. n + 1 : i = n + 1 \/ i \in 1 .. n
  BY <1>1
<1>5. res \in [1 .. n + 1 -> BlockImages] /\ \A i \in 1 .. n + 1 : DOMAIN res[i] # {}
  <2>1. \A i \in 1 .. n + 1 : res[i] \in BlockImages /\ DOMAIN res[i] # {}
    <3> HIDE DEF res
    <3> QED
      BY <1>1, <1>2, <1>3, <1>4 DEF Directory
  <2> QED
    BY <2>1
<1> HIDE DEF res
<1>6. ASSUME NEW i \in 1 .. n + 1, NEW q \in Reached(res[i])
      PROVE  \/ i = n + 1 /\ q = 0 /\ res[i][q].name = name
             \/ i \in 1 .. n /\ q \in Reached(imgs[i]) /\ res[i][q].name = imgs[i][q].name
  BY <1>2, <1>3, <1>4
<1>7. ASSUME NEW i \in 1 .. n + 1, NEW k \in 1 .. n + 1, NEW q \in Reached(res[i]), NEW s \in Reached(res[k]),
             res[i][q].name = res[k][s].name
      PROVE  i = k /\ q = s
  <2>1. \A h \in 1 .. n : \A t \in Reached(imgs[h]) : imgs[h][t].name # name
    BY DEF HasName
  <2>2. \/ i = n + 1 /\ q = 0 /\ res[i][q].name = name
        \/ i \in 1 .. n /\ q \in Reached(imgs[i]) /\ res[i][q].name = imgs[i][q].name
    BY <1>6
  <2>3. \/ k = n + 1 /\ s = 0 /\ res[k][s].name = name
        \/ k \in 1 .. n /\ s \in Reached(imgs[k]) /\ res[k][s].name = imgs[k][s].name
    BY <1>6
  <2> QED
    BY <1>7, <2>1, <2>2, <2>3 DEF Directory
<1>8. res[1] = imgs[1]
  BY <1>1, <1>3
<1>9. res[1][0].name = "." /\ res[1][0].len = Size(".") /\ Size(".") \in Reached(res[1]) /\ res[1][Size(".")].name = ".."
  BY <1>8 DEF Directory
<1> QED
  BY <1>4, <1>5, <1>7, <1>9 DEF Directory, res, new

(* The first two records.                                                  *)
LEMMA DirectoryMade ==
    ASSUME NEW inum \in Inums, NEW up \in Inums
    PROVE  LET img == Lone(inum, ".")
           IN  /\ Room(img, "..") # {}
               /\ Directory([i \in 1 .. 1 |-> Split(img, up, "..")], 1)
               /\ \A q \in Reached(Split(img, up, "..")) :
                     Split(img, up, "..")[q].inum \in {inum, up} /\ Split(img, up, "..")[q].name \in {".", ".."}
<1> DEFINE img == Lone(inum, ".")
           new == Split(img, up, "..")
           res == [i \in 1 .. 1 |-> new]
<1>1. /\ Size(".") \in Nat /\ Size(".") > 0 /\ Size("..") \in Nat /\ BLOCK_SIZE \in Nat
      /\ Size(".") + Size("..") <= BLOCK_SIZE
  BY SizeFacts, NameAssumption
<1>2. /\ img \in BlockImages /\ Reached(img) = {0} /\ img[0].len = BLOCK_SIZE /\ img[0].name = "." /\ img[0].inum = inum
  <2>1. "." \in NameSet
    BY SizeFacts
  <2>2. img \in BlockImages /\ Reached(img) = {0} /\ img[0] = Record(inum, BLOCK_SIZE, ".")
    BY <2>1, LoneGives
  <2> HIDE DEF img
  <2> QED
    BY <2>2 DEF Record
<1> HIDE DEF img
<1>3. Room(img, "..") = {0}
  <2>1. img[0].len - Size(img[0].name) >= Size("..")
    BY <1>1, <1>2
  <2> QED
    BY <1>2, <2>1 DEF Room
<1>4. Min(Room(img, "..")) = 0
  <2>1. {0} \in SUBSET Nat /\ {0} # {}
    OBVIOUS
  <2>2. Min({0}) \in {0}
    BY <2>1, LeastExists
  <2> QED
    BY <1>3, <2>2
<1>5. /\ new \in BlockImages /\ DOMAIN new # {}
      /\ \E p \in Reached(img), m \in Nat \ Reached(img) :
            /\ p = Min(Room(img, "..")) /\ m = p + Size(img[p].name)
            /\ Reached(new) = Reached(img) \cup {m}
            /\ new[m].name = ".." /\ new[m].inum = up /\ new[m].len = img[p].len - Size(img[p].name)
            /\ new[p].name = img[p].name /\ new[p].inum = img[p].inum /\ new[p].len = Size(img[p].name)
            /\ \A q \in Reached(img) : q # p => new[q] = img[q]
  BY <1>2, <1>3, SizeFacts, SplitGives
<1>6. /\ Reached(new) = {0, Size(".")} /\ new[0].name = "." /\ new[0].len = Size(".")
      /\ new[Size(".")].name = ".." /\ new[Size(".")].inum = up /\ new[0].inum = inum
  <2>1. 0 + Size(".") = Size(".")
    BY <1>1
  <2> QED
    BY <1>2, <1>4, <1>5, <2>1
<1> HIDE DEF new
<1>7. \A i \in 1 .. 1 : i = 1 /\ res[i] = new
  OBVIOUS
<1>8. res \in [1 .. 1 -> BlockImages] /\ 1 \in Nat /\ 1 >= 1 /\ 1 \in 1 .. 1
  BY <1>5
<1> HIDE DEF res
<1>9. ASSUME NEW i \in 1 .. 1, NEW k \in 1 .. 1, NEW q \in Reached(res[i]), NEW s \in Reached(res[k]),
             res[i][q].name = res[k][s].name
      PROVE  i = k /\ q = s
  <2>1. i = 1 /\ k = 1 /\ q \in {0, Size(".")} /\ s \in {0, Size(".")} /\ res[i] = new /\ res[k] = new
    BY <1>6, <1>7
  <2> QED
    BY <1>6, <1>9, <2>1
<1>10. Directory(res, 1)
  BY <1>5, <1>6, <1>7, <1>8, <1>9 DEF Directory
<1> QED
  BY <1>3, <1>6, <1>10 DEF res, new, img

(* The record of a name goes: the one before takes its bytes ...           *)
LEMMA NameMerged ==
    ASSUME NEW imgs, NEW n, Directory(imgs, n), NEW name, name \notin {".", ".."}, NEW at, IsFound(imgs, name, at),
           at.prev # -1
    PROVE  Directory([imgs EXCEPT ![at.block] = Merge(imgs[at.block], at.pos, at.prev)], n)
<1> DEFINE b == at.block
           pos == at.pos
           prev == at.prev
           img == imgs[b]
           new == Merge(img, pos, prev)
           res == [imgs EXCEPT ![b] = new]
<1>1. n \in Nat /\ n >= 1 /\ imgs \in [1 .. n -> BlockImages] /\ 1 \in 1 .. n
  BY DEF Directory
<1>2. /\ b \in 1 .. n /\ img \in BlockImages /\ DOMAIN img # {} /\ pos \in Reached(img) /\ prev \in Reached(img)
      /\ prev + img[prev].len = pos /\ img[pos].name = name
  BY <1>1 DEF IsFound
<1>3. /\ new \in BlockImages /\ DOMAIN new # {} /\ Reached(new) = Reached(img) \ {pos}
      /\ new[prev].name = img[prev].name /\ new[prev].inum = img[prev].inum
      /\ \A q \in Reached(new) : q # prev => new[q] = img[q]
  BY <1>2, MergeGives
<1> HIDE DEF new
<1>4. res \in [1 .. n -> BlockImages] /\ res[b] = new /\ \A i \in 1 .. n : i # b => res[i] = imgs[i]
  BY <1>1, <1>2, <1>3
<1> HIDE DEF res, b, img
<1>5. ASSUME NEW i \in 1 .. n, NEW q \in Reached(res[i])
      PROVE  q \in Reached(imgs[i]) /\ res[i][q].name = imgs[i][q].name
  BY <1>3, <1>4 DEF img
<1>6. \A i \in 1 .. n : DOMAIN res[i] # {}
  BY <1>3, <1>4 DEF Directory
<1>7. ASSUME NEW i \in 1 .. n, NEW k \in 1 .. n, NEW q \in Reached(res[i]), NEW s \in Reached(res[k]),
             res[i][q].name = res[k][s].name
      PROVE  i = k /\ q = s
  BY <1>5, <1>7 DEF Directory
<1>8. res[1][0].name = "." /\ res[1][0].len = Size(".") /\ Size(".") \in Reached(res[1]) /\ res[1][Size(".")].name = ".."
  <2>1. imgs[1][0].name = "." /\ imgs[1][0].len = Size(".") /\ Size(".") \in Reached(imgs[1]) /\ imgs[1][Size(".")].name = ".."
    BY DEF Directory
  <2>2. CASE b = 1
    <3>1. img = imgs[1]
      BY <2>2 DEF img
    <3>2. pos # 0 /\ pos # Size(".")
      BY <1>2, <2>1, <3>1
    <3>3. prev # 0
      <4>1. Size(".") \in Nat
        BY SizeFacts
      <4> QED
        BY <1>2, <2>1, <3>1, <3>2, <4>1
    <3>4. 0 \in Reached(new) /\ Size(".") \in Reached(new)
      BY <1>2, <1>3, <2>1, <3>1, <3>2, FirstReached
    <3>5. new[0] = img[0] /\ new[Size(".")].name = img[Size(".")].name
      BY <1>3, <3>3, <3>4
    <3> QED
      BY <1>4, <2>1, <2>2, <3>1, <3>4, <3>5
  <2>3. CASE b # 1
    BY <1>1, <1>4, <2>1, <2>3
  <2> QED
    BY <2>2, <2>3
<1> QED
  BY <1>1, <1>4, <1>6, <1>7, <1>8 DEF Directory, res, new, img, b

(* ... or the next one moves to its place ...                              *)
LEMMA NameMovedOver ==
    ASSUME NEW imgs, NEW n, Directory(imgs, n), NEW name, name \notin {".", ".."}, NEW at, IsFound(imgs, name, at),
           at.prev = -1, imgs[at.block][at.pos].len # BLOCK_SIZE
    PROVE  Directory([imgs EXCEPT ![at.block] = MoveUp(imgs[at.block])], n)
<1> DEFINE b == at.block
           img == imgs[b]
           next == img[0].len
           new == MoveUp(img)
           res == [imgs EXCEPT ![b] = new]
<1>1. n \in Nat /\ n >= 1 /\ imgs \in [1 .. n -> BlockImages] /\ 1 \in 1 .. n
  BY DEF Directory
<1>2. /\ b \in 1 .. n /\ img \in BlockImages /\ DOMAIN img # {} /\ at.pos = 0 /\ img[0].name = name
      /\ img[0].len # BLOCK_SIZE
  BY <1>1 DEF IsFound
<1>3. /\ next \in Reached(img) /\ next # 0
      /\ new \in BlockImages /\ DOMAIN new # {} /\ Reached(new) = Reached(img) \ {next}
      /\ new[0].name = img[next].name /\ new[0].inum = img[next].inum
      /\ \A q \in Reached(new) : q # 0 => new[q] = img[q]
  BY <1>2, MoveUpGives
<1> HIDE DEF new
<1>4. res \in [1 .. n -> BlockImages] /\ res[b] = new /\ \A i \in 1 .. n : i # b => res[i] = imgs[i]
  BY <1>1, <1>2, <1>3
<1> HIDE DEF res, b, img, next
\* Where a record was before.
<1> DEFINE was(i, q) == IF i = b /\ q = 0 THEN next ELSE q
<1>5. ASSUME NEW i \in 1 .. n, NEW q \in Reached(res[i])
      PROVE  was(i, q) \in Reached(imgs[i]) /\ res[i][q].name = imgs[i][was(i, q)].name
  <2>1. CASE i = b
    <3>1. imgs[i] = img /\ res[i] = new
      BY <1>4, <2>1 DEF img
    <3> QED
      BY <1>3, <2>1, <3>1
  <2>2. CASE i # b
    BY <1>4, <2>2
  <2> QED
    BY <2>1, <2>2
<1>6. \A i \in 1 .. n : DOMAIN res[i] # {}
  BY <1>3, <1>4 DEF Directory
<1>7. ASSUME NEW i \in 1 .. n, NEW k \in 1 .. n, NEW q \in Reached(res[i]), NEW s \in Reached(res[k]),
             res[i][q].name = res[k][s].name
      PROVE  i = k /\ q = s
  <2>1. i = k /\ was(i, q) = was(k, s)
    BY <1>5, <1>7 DEF Directory
  <2>2. i = b => q # next /\ s # next
    BY <1>3, <1>4, <2>1
  <2> QED
    BY <2>1, <2>2
<1>8. b # 1
  <2>1. imgs[1][0].name = "."
    BY DEF Directory
  <2> QED
    BY <1>2, <2>1 DEF img
<1>9. res[1][0].name = "." /\ res[1][0].len = Size(".") /\ Size(".") \in Reached(res[1]) /\ res[1][Size(".")].name = ".."
  BY <1>1, <1>4, <1>8 DEF Directory
<1> QED
  BY <1>1, <1>4, <1>6, <1>7, <1>9 DEF Directory, res, new, img, b

(* ... or the block goes, and the last one takes its place.                *)
LEMMA NameDropped ==
    ASSUME NEW imgs, NEW n, Directory(imgs, n), NEW name, name \notin {".", ".."}, NEW at, IsFound(imgs, name, at),
           at.prev = -1
    PROVE  /\ n > 1
           /\ Directory([i \in 1 .. n - 1 |-> IF i = at.block THEN imgs[n] ELSE imgs[i]], n - 1)
<1> DEFINE b == at.block
           res == [i \in 1 .. n - 1 |-> IF i = b THEN imgs[n] ELSE imgs[i]]
<1>1. n \in Nat /\ n >= 1 /\ imgs \in [1 .. n -> BlockImages]
  BY DEF Directory
<1>2. b \in 1 .. n /\ at.pos = 0 /\ imgs[b][0].name = name
  BY <1>1 DEF IsFound
<1>3. b # 1
  <2>1. imgs[1][0].name = "."
    BY DEF Directory
  <2> QED
    BY <1>2, <2>1
<1>4. n > 1 /\ n - 1 \in Nat /\ n - 1 >= 1 /\ n \in 1 .. n /\ 1 \in 1 .. n - 1
  BY <1>1, <1>2, <1>3
<1> DEFINE was(i) == IF i = b THEN n ELSE i
<1>5. ASSUME NEW i \in 1 .. n - 1
      PROVE  was(i) \in 1 .. n /\ res[i] = imgs[was(i)] /\ i # n /\ res[i] \in BlockImages /\ DOMAIN res[i] # {}
  <2>1. was(i) \in 1 .. n /\ res[i] = imgs[was(i)] /\ i # n
    BY <1>1, <1>4
  <2>2. imgs[was(i)] \in BlockImages /\ DOMAIN imgs[was(i)] # {}
    BY <1>1, <2>1 DEF Directory
  <2> HIDE DEF res, was
  <2> QED
    BY <2>1, <2>2
<1>6. res \in [1 .. n - 1 -> BlockImages]
  BY <1>5
<1>7. res[1] = imgs[1]
  BY <1>3, <1>4
<1> HIDE DEF res
<1>8. ASSUME NEW i \in 1 .. n - 1, NEW k \in 1 .. n - 1, NEW q \in Reached(res[i]), NEW s \in Reached(res[k]),
             res[i][q].name = res[k][s].name
      PROVE  i = k /\ q = s
  <2>1. /\ was(i) \in 1 .. n /\ res[i] = imgs[was(i)] /\ i # n
        /\ was(k) \in 1 .. n /\ res[k] = imgs[was(k)] /\ k # n
    BY <1>5
  <2> HIDE DEF was
  <2>2. was(i) = was(k) /\ q = s
    BY <1>8, <2>1 DEF Directory
  <2> QED
    BY <2>1, <2>2 DEF was
<1>9. res[1][0].name = "." /\ res[1][0].len = Size(".") /\ Size(".") \in Reached(res[1]) /\ res[1][Size(".")].name = ".."
  BY <1>7 DEF Directory
<1> QED
  BY <1>4, <1>5, <1>6, <1>8, <1>9 DEF Directory, res

\* Some record has the name and the number.
Holding(imgs, n, name, inum) ==
    \E i \in 1 .. n : \E p \in Reached(imgs[i]) : imgs[i][p].name = name /\ imgs[i][p].inum = inum

(* With a record more, its name stands for its number; a name that is found*)
(* stands for the number found, and for no other.                          *)
LEMMA HeldAdded ==
    ASSUME NEW imgs, NEW n, Directory(imgs, n), NEW inum \in Inums, NEW name \in NameSet,
           Room(imgs[n], name) # {}, NEW nm, NEW i
    PROVE  Holding([imgs EXCEPT ![n] = Split(imgs[n], inum, name)], n, nm, i)
              <=> Holding(imgs, n, nm, i) \/ (nm = name /\ i = inum)
<1> DEFINE img == imgs[n]
           new == Split(img, inum, name)
           res == [imgs EXCEPT ![n] = new]
<1>1. n \in Nat /\ n >= 1 /\ imgs \in [1 .. n -> BlockImages] /\ n \in 1 .. n
  BY DEF Directory
<1>2. img \in BlockImages
  BY <1>1
<1>3. PICK p \in Reached(img), m \in Nat \ Reached(img) :
         /\ Reached(new) = Reached(img) \cup {m}
         /\ new[m].name = name /\ new[m].inum = inum
         /\ new[p].name = img[p].name /\ new[p].inum = img[p].inum
         /\ \A q \in Reached(img) : q # p => new[q] = img[q]
  BY <1>2, SplitGives
<1> HIDE DEF new, img
<1>4. res[n] = new /\ \A k \in 1 .. n : k # n => res[k] = imgs[k]
  BY <1>1
<1> HIDE DEF res
<1>5. \A q \in Reached(img) : q \in Reached(new) /\ new[q].name = img[q].name /\ new[q].inum = img[q].inum
  BY <1>3
<1>6. ASSUME NEW k \in 1 .. n, NEW q \in Reached(res[k]), res[k][q].name = nm, res[k][q].inum = i
      PROVE  Holding(imgs, n, nm, i) \/ (nm = name /\ i = inum)
  <2>1. CASE k = n
    <3>1. CASE q = m
      BY <1>3, <1>4, <1>6, <2>1, <3>1
    <3>2. CASE q # m
      <4>1. q \in Reached(img) /\ new[q].name = img[q].name /\ new[q].inum = img[q].inum
        BY <1>3, <1>4, <1>5, <1>6, <2>1, <3>2
      <4> QED
        <5>1. q \in Reached(imgs[n]) /\ imgs[n][q].name = nm /\ imgs[n][q].inum = i
          BY <1>4, <1>6, <2>1, <4>1 DEF img
        <5> QED
          BY <1>1, <5>1 DEF Holding
    <3> QED
      BY <3>1, <3>2
  <2>2. CASE k # n
    <3>1. q \in Reached(imgs[k]) /\ imgs[k][q].name = nm /\ imgs[k][q].inum = i
      BY <1>4, <1>6, <2>2
    <3> QED
      BY <3>1 DEF Holding
  <2> QED
    BY <2>1, <2>2
<1>7. ASSUME NEW k \in 1 .. n, NEW q \in Reached(imgs[k]), imgs[k][q].name = nm, imgs[k][q].inum = i
      PROVE  Holding(res, n, nm, i)
  <2>1. CASE k = n
    <3>1. q \in Reached(res[n]) /\ res[n][q].name = nm /\ res[n][q].inum = i
      BY <1>4, <1>5, <1>7, <2>1 DEF img
    <3> QED
      BY <1>1, <3>1 DEF Holding
  <2>2. CASE k # n
    BY <1>4, <1>7, <2>2 DEF Holding
  <2> QED
    BY <2>1, <2>2
<1>8. Holding(res, n, name, inum)
  <2>1. m \in Reached(res[n]) /\ res[n][m].name = name /\ res[n][m].inum = inum
    BY <1>3, <1>4
  <2> QED
    BY <1>1, <2>1 DEF Holding
<1>9. Holding(res, n, nm, i) => Holding(imgs, n, nm, i) \/ (nm = name /\ i = inum)
  BY <1>6 DEF Holding
<1>10. Holding(imgs, n, nm, i) => Holding(res, n, nm, i)
  BY <1>7 DEF Holding
<1> QED
  BY <1>8, <1>9, <1>10 DEF res, new, img

\* The same with a block more.
LEMMA HeldGrown ==
    ASSUME NEW imgs, NEW n, Directory(imgs, n), NEW inum \in Inums, NEW name \in NameSet, NEW nm, NEW i
    PROVE  Holding([j \in 1 .. n + 1 |-> IF j = n + 1 THEN Lone(inum, name) ELSE imgs[j]], n + 1, nm, i)
              <=> Holding(imgs, n, nm, i) \/ (nm = name /\ i = inum)
<1> DEFINE img == Lone(inum, name)
           res == [j \in 1 .. n + 1 |-> IF j = n + 1 THEN img ELSE imgs[j]]
<1>1. n \in Nat /\ n + 1 \in 1 .. n + 1 /\ \A k \in 1 .. n : k \in 1 .. n + 1 /\ k # n + 1
  BY DEF Directory
<1>2. Reached(img) = {0} /\ img[0].name = name /\ img[0].inum = inum
  <2>1. Reached(img) = {0} /\ img[0] = Record(inum, BLOCK_SIZE, name)
    BY LoneGives
  <2> HIDE DEF img
  <2> QED
    BY <2>1 DEF Record
<1> HIDE DEF img
<1>3. res[n + 1] = img /\ \A k \in 1 .. n : res[k] = imgs[k]
  BY <1>1
<1>4. \A k \in 1 .. n + 1 : k \in 1 .. n \/ k = n + 1
  BY <1>1
<1> HIDE DEF res
<1>5. ASSUME NEW k \in 1 .. n + 1, NEW q \in Reached(res[k]), res[k][q].name = nm, res[k][q].inum = i
      PROVE  Holding(imgs, n, nm, i) \/ (nm = name /\ i = inum)
  <2>1. CASE k = n + 1
    BY <1>2, <1>3, <1>5, <2>1
  <2>2. CASE k # n + 1
    <3>1. k \in 1 .. n /\ q \in Reached(imgs[k]) /\ imgs[k][q].name = nm /\ imgs[k][q].inum = i
      BY <1>3, <1>4, <1>5, <2>2
    <3> QED
      BY <3>1 DEF Holding
  <2> QED
    BY <2>1, <2>2
<1>6. Holding(imgs, n, nm, i) => Holding(res, n + 1, nm, i)
  BY <1>1, <1>3 DEF Holding
<1>7. Holding(res, n + 1, name, inum)
  BY <1>1, <1>2, <1>3 DEF Holding
<1>8. Holding(res, n + 1, nm, i) => Holding(imgs, n, nm, i) \/ (nm = name /\ i = inum)
  BY <1>5 DEF Holding
<1> QED
  BY <1>6, <1>7, <1>8 DEF res, img

\* A name is there once, so that the record found is the only one with it.
LEMMA FoundHeld ==
    ASSUME NEW imgs, NEW n, Directory(imgs, n), NEW name, NEW at, IsFound(imgs, name, at)
    PROVE  /\ \A i : Holding(imgs, n, name, i) <=> i = imgs[at.block][at.pos].inum
           /\ \A k \in 1 .. n : \A q \in Reached(imgs[k]) : imgs[k][q].name = name => k = at.block /\ q = at.pos
<1>1. n \in Nat /\ imgs \in [1 .. n -> BlockImages]
  BY DEF Directory
<1>2. at.block \in 1 .. n /\ at.pos \in Reached(imgs[at.block]) /\ imgs[at.block][at.pos].name = name
  BY <1>1 DEF IsFound
<1>3. \A k \in 1 .. n : \A q \in Reached(imgs[k]) : imgs[k][q].name = name => k = at.block /\ q = at.pos
  BY <1>2 DEF Directory
<1> QED
  BY <1>2, <1>3 DEF Holding

\* Without its record the name is gone, and no other: the record before takes over the bytes ...
LEMMA HeldMerged ==
    ASSUME NEW imgs, NEW n, Directory(imgs, n), NEW name, NEW at, IsFound(imgs, name, at), at.prev # -1, NEW nm, NEW i
    PROVE  Holding([imgs EXCEPT ![at.block] = Merge(imgs[at.block], at.pos, at.prev)], n, nm, i)
              <=> Holding(imgs, n, nm, i) /\ nm # name
<1> DEFINE b == at.block
           pos == at.pos
           prev == at.prev
           img == imgs[b]
           new == Merge(img, pos, prev)
           res == [imgs EXCEPT ![b] = new]
<1>1. n \in Nat /\ imgs \in [1 .. n -> BlockImages]
  BY DEF Directory
<1>2. /\ b \in 1 .. n /\ img \in BlockImages /\ DOMAIN img # {} /\ pos \in Reached(img) /\ prev \in Reached(img)
      /\ prev + img[prev].len = pos /\ img[pos].name = name
  BY <1>1 DEF IsFound
<1>3. /\ Reached(new) = Reached(img) \ {pos}
      /\ new[prev].name = img[prev].name /\ new[prev].inum = img[prev].inum
      /\ \A q \in Reached(new) : q # prev => new[q] = img[q]
  BY <1>2, MergeGives
<1>4. \A k \in 1 .. n : \A q \in Reached(imgs[k]) : imgs[k][q].name = name <=> k = b /\ q = pos
  BY <1>2, FoundHeld
<1> HIDE DEF new
<1>5. res[b] = new /\ \A k \in 1 .. n : k # b => res[k] = imgs[k]
  BY <1>1, <1>2
<1> HIDE DEF res
<1>6. \A k \in 1 .. n : \A q : q \in Reached(res[k]) <=> q \in Reached(imgs[k]) /\ ~ (k = b /\ q = pos)
  BY <1>3, <1>5
<1>7. \A k \in 1 .. n : \A q \in Reached(res[k]) : res[k][q].name = imgs[k][q].name /\ res[k][q].inum = imgs[k][q].inum
  BY <1>3, <1>5
<1> HIDE DEF b, pos, img
<1> QED
  BY <1>4, <1>6, <1>7 DEF Holding, res, new, img, b, pos

\* ... or the second record moves to its place ...
LEMMA HeldMovedOver ==
    ASSUME NEW imgs, NEW n, Directory(imgs, n), NEW name, NEW at, IsFound(imgs, name, at), at.prev = -1,
           imgs[at.block][at.pos].len # BLOCK_SIZE, NEW nm, NEW i
    PROVE  Holding([imgs EXCEPT ![at.block] = MoveUp(imgs[at.block])], n, nm, i)
              <=> Holding(imgs, n, nm, i) /\ nm # name
<1> DEFINE b == at.block
           img == imgs[b]
           next == img[0].len
           new == MoveUp(img)
           res == [imgs EXCEPT ![b] = new]
<1>1. n \in Nat /\ imgs \in [1 .. n -> BlockImages]
  BY DEF Directory
<1>2. /\ b \in 1 .. n /\ img \in BlockImages /\ DOMAIN img # {} /\ at.pos = 0 /\ img[0].name = name
      /\ img[0].len # BLOCK_SIZE /\ 0 \in Reached(img)
  BY <1>1 DEF IsFound
<1>3. /\ next \in Reached(img) /\ next # 0 /\ Reached(new) = Reached(img) \ {next}
      /\ new[0].name = img[next].name /\ new[0].inum = img[next].inum
      /\ \A q \in Reached(new) : q # 0 => new[q] = img[q]
  BY <1>2, MoveUpGives
<1>4. \A k \in 1 .. n : \A q \in Reached(imgs[k]) : imgs[k][q].name = name <=> k = b /\ q = 0
  BY <1>2, FoundHeld
<1> HIDE DEF new
<1>5. res[b] = new /\ \A k \in 1 .. n : k # b => res[k] = imgs[k]
  BY <1>1, <1>2
<1> HIDE DEF res, next
<1>6. ASSUME NEW k \in 1 .. n, NEW q \in Reached(res[k]), res[k][q].name = nm, res[k][q].inum = i
      PROVE  Holding(imgs, n, nm, i) /\ nm # name
  <2>1. CASE k = b /\ q = 0
    <3>1. next \in Reached(imgs[b]) /\ imgs[b][next].name = nm /\ imgs[b][next].inum = i
      BY <1>3, <1>5, <1>6, <2>1
    <3> QED
      BY <1>2, <1>3, <1>4, <3>1 DEF Holding
  <2>2. CASE k = b /\ q # 0
    <3>1. q \in Reached(imgs[b]) /\ imgs[b][q].name = nm /\ imgs[b][q].inum = i
      BY <1>3, <1>5, <1>6, <2>2
    <3> QED
      BY <1>2, <1>4, <2>2, <3>1 DEF Holding
  <2>3. CASE k # b
    <3>1. q \in Reached(imgs[k]) /\ imgs[k][q].name = nm /\ imgs[k][q].inum = i
      BY <1>5, <1>6, <2>3
    <3> QED
      BY <1>4, <2>3, <3>1 DEF Holding
  <2> QED
    BY <2>1, <2>2, <2>3
<1>7. ASSUME NEW k \in 1 .. n, NEW q \in Reached(imgs[k]), imgs[k][q].name = nm, imgs[k][q].inum = i, nm # name
      PROVE  Holding(res, n, nm, i)
  <2>1. ~ (k = b /\ q = 0)
    BY <1>4, <1>7
  <2>2. CASE k = b /\ q = next
    <3>1. 0 \in Reached(res[b]) /\ res[b][0].name = nm /\ res[b][0].inum = i
      BY <1>2, <1>3, <1>5, <1>7, <2>2
    <3> QED
      BY <1>2, <3>1 DEF Holding
  <2>3. CASE k = b /\ q # next
    <3>1. q \in Reached(res[b]) /\ res[b][q] = imgs[b][q]
      BY <1>3, <1>5, <1>7, <2>1, <2>3
    <3> QED
      BY <1>2, <1>7, <2>3, <3>1 DEF Holding
  <2>4. CASE k # b
    BY <1>5, <1>7, <2>4 DEF Holding
  <2> QED
    BY <2>2, <2>3, <2>4
<1>8. Holding(res, n, nm, i) => Holding(imgs, n, nm, i) /\ nm # name
  BY <1>6 DEF Holding
<1>9. Holding(imgs, n, nm, i) /\ nm # name => Holding(res, n, nm, i)
  BY <1>7 DEF Holding
<1> QED
  BY <1>8, <1>9 DEF res, new, img, b

\* ... or the block goes, which has no other record.
LEMMA HeldDropped ==
    ASSUME NEW imgs, NEW n, Directory(imgs, n), NEW name, NEW at, IsFound(imgs, name, at), at.prev = -1,
           imgs[at.block][at.pos].len = BLOCK_SIZE, NEW nm, NEW i
    PROVE  Holding([k \in 1 .. n - 1 |-> IF k = at.block THEN imgs[n] ELSE imgs[k]], n - 1, nm, i)
              <=> Holding(imgs, n, nm, i) /\ nm # name
<1> DEFINE b == at.block
           img == imgs[b]
           res == [k \in 1 .. n - 1 |-> IF k = b THEN imgs[n] ELSE imgs[k]]
<1>1. n \in Nat /\ n >= 1 /\ imgs \in [1 .. n -> BlockImages]
  BY DEF Directory
<1>2. /\ b \in 1 .. n /\ img \in BlockImages /\ at.pos = 0 /\ img[0].name = name /\ img[0].len = BLOCK_SIZE
      /\ 0 \in Reached(img)
  BY <1>1 DEF IsFound
<1>3. \A q \in Reached(img) : q = 0
  <2> SUFFICES ASSUME NEW q \in Reached(img), q # 0
               PROVE  FALSE
    OBVIOUS
  <2>1. q \in Nat /\ q < BLOCK_SIZE
    BY <1>2, ReachedFacts
  <2>2. q >= 0 + img[0].len
    BY <1>2, <2>1, ReachedFacts
  <2>3. BLOCK_SIZE \in Nat
    BY SizeFacts
  <2> QED
    BY <1>2, <2>1, <2>2, <2>3
<1>4. \A k \in 1 .. n : \A q \in Reached(imgs[k]) : imgs[k][q].name = name <=> k = b
  BY <1>2, <1>3, FoundHeld
<1>5. \A k \in 1 .. n - 1 : k \in 1 .. n /\ k # n /\ res[k] = IF k = b THEN imgs[n] ELSE imgs[k]
  BY <1>1
<1>6. n \in 1 .. n /\ \A k \in 1 .. n : k # n => k \in 1 .. n - 1
  BY <1>1
<1> HIDE DEF res, img, b
<1>7. ASSUME NEW k \in 1 .. n - 1, NEW q \in Reached(res[k]), res[k][q].name = nm, res[k][q].inum = i
      PROVE  Holding(imgs, n, nm, i) /\ nm # name
  <2>1. CASE k = b
    BY <1>4, <1>5, <1>6, <1>7, <2>1 DEF Holding
  <2>2. CASE k # b
    BY <1>4, <1>5, <1>7, <2>2 DEF Holding
  <2> QED
    BY <2>1, <2>2
<1>8. ASSUME NEW k \in 1 .. n, NEW q \in Reached(imgs[k]), imgs[k][q].name = nm, imgs[k][q].inum = i, nm # name
      PROVE  Holding(res, n - 1, nm, i)
  <2>1. k # b
    BY <1>4, <1>8
  <2>2. CASE k = n
    <3>1. b \in 1 .. n - 1
      BY <1>2, <1>6, <2>1, <2>2
    <3>2. res[b] = imgs[k]
      BY <1>5, <2>2, <3>1
    <3> QED
      BY <1>8, <3>1, <3>2 DEF Holding
  <2>3. CASE k # n
    <3>1. k \in 1 .. n - 1 /\ res[k] = imgs[k]
      BY <1>5, <1>6, <2>1, <2>3
    <3> QED
      BY <1>8, <3>1 DEF Holding
  <2> QED
    BY <2>2, <2>3
<1>9. Holding(res, n - 1, nm, i) => Holding(imgs, n, nm, i) /\ nm # name
  BY <1>7 DEF Holding
<1>10. Holding(imgs, n, nm, i) /\ nm # name => Holding(res, n - 1, nm, i)
  BY <1>8 DEF Holding
<1> QED
  BY <1>9, <1>10 DEF res, b

-----------------------------------------------------------------------------
(* Devices                                                                 *)

Links == {i \in Int : i <= 1}

InodeSet ==
    {node \in [kind : {"none", "file", "dir"}, links : Links, blocks : Seq(Blocks), num_blocks : Nat] :
        node.num_blocks <= Len(node.blocks) /\ (node.kind # "dir" => node.blocks = <<>>)}

Keys == Seq(NameSet) \X BOOLEAN
Caches == UNION {[K -> Inums] : K \in SUBSET Keys}

Devices ==
    [image : [Blocks -> BlockImages], pick : Seq(Blocks), free : SUBSET Blocks, inodes : [Inums -> InodeSet],
     latest : Nat, cache : Caches, removed : SUBSET Inums, misfreed : BOOLEAN, strayed : BOOLEAN]

\* Numbers that were not given yet are nowhere.
Numbers(dev) ==
    /\ ROOT_INODE < dev.latest /\ dev.latest <= inode_count
    /\ \A b \in Blocks : \A q \in Reached(dev.image[b]) : dev.image[b][q].inum < dev.latest
    /\ \A k \in DOMAIN dev.cache : dev.cache[k] < dev.latest
    /\ \A i \in Inums : i >= dev.latest => dev.inodes[i].kind = "none" /\ i \notin dev.removed

\* The blocks create_new_dblock will hand out are free, and it hands out none twice.
Picked(dev) ==
    /\ \A j \in DOMAIN dev.pick : dev.pick[j] \in dev.free
    /\ \A j, k \in DOMAIN dev.pick : dev.pick[j] = dev.pick[k] => j = k

\* The root is a valid number, and numbers are numbers.
LEMMA InodeCount == inode_count \in Nat /\ ROOT_INODE < inode_count /\ ROOT_INODE \in Inums /\ Inums \subseteq Nat
  BY NameAssumption DEF ROOT_INODE, Inums

\* A new inode is one, of its kind and without blocks.
LEMMA NewInodeType ==
    ASSUME NEW kind \in {"none", "file", "dir"}
    PROVE  /\ NewInode(kind) \in InodeSet /\ NewInode(kind).kind = kind
           /\ NewInode(kind).blocks = <<>> /\ NewInode(kind).num_blocks = 0
           /\ BlankInode \in InodeSet /\ BlankInode.kind = "none"
<1>1. <<>> \in Seq(Blocks) /\ Len(<<>>) = 0 /\ 0 \in Links /\ 1 \in Links
  BY DEF Links
<1>2. BlankInode = [kind |-> "none", links |-> 0, blocks |-> <<>>, num_blocks |-> 0]
  BY DEF BlankInode
<1>3. BlankInode \in InodeSet /\ BlankInode.blocks = <<>> /\ BlankInode.num_blocks = 0 /\ BlankInode.kind = "none"
  BY <1>1, <1>2 DEF InodeSet
<1> HIDE DEF BlankInode
<1>4. /\ NewInode(kind) \in InodeSet /\ NewInode(kind).kind = kind
      /\ NewInode(kind).blocks = <<>> /\ NewInode(kind).num_blocks = 0
  <2> DEFINE Inodes == [kind : {"none", "file", "dir"}, links : Links, blocks : Seq(Blocks), num_blocks : Nat]
             new == [BlankInode EXCEPT !.kind = kind, !.links = 1]
  <2>1. BlankInode \in Inodes
    BY <1>3 DEF InodeSet
  <2>2. /\ new \in Inodes /\ new.kind = kind /\ new.blocks = BlankInode.blocks
        /\ new.num_blocks = BlankInode.num_blocks
    BY <1>1, <2>1
  <2> HIDE DEF new
  <2>3. new \in InodeSet
    BY <1>1, <1>3, <2>2 DEF InodeSet
  <2>4. NewInode(kind) = new
    BY DEF NewInode, new
  <2> QED
    BY <1>3, <2>2, <2>3, <2>4
<1> QED
  BY <1>3, <1>4

\* The parts of an inode; only directories have blocks here.
LEMMA InodeFacts ==
    ASSUME NEW node \in InodeSet
    PROVE  /\ node.kind \in {"none", "file", "dir"} /\ node.links \in Int /\ node.links <= 1
           /\ node.blocks \in Seq(Blocks) /\ Len(node.blocks) \in Nat /\ DOMAIN node.blocks = 1 .. Len(node.blocks)
           /\ node.num_blocks \in Nat /\ node.num_blocks <= Len(node.blocks)
           /\ \A j \in 1 .. Len(node.blocks) : node.blocks[j] \in Blocks
           /\ \A j \in 1 .. node.num_blocks : j \in 1 .. Len(node.blocks) /\ node.blocks[j] \in Blocks
           /\ node.kind # "dir" => node.blocks = <<>> /\ node.num_blocks = 0
<1>1. /\ node.kind \in {"none", "file", "dir"} /\ node.links \in Int /\ node.links <= 1
      /\ node.blocks \in Seq(Blocks) /\ node.num_blocks \in Nat /\ node.num_blocks <= Len(node.blocks)
      /\ node.kind # "dir" => node.blocks = <<>>
  BY DEF InodeSet, Links
<1>2. Len(node.blocks) \in Nat /\ DOMAIN node.blocks = 1 .. Len(node.blocks)
  BY <1>1
<1>3. \A j \in 1 .. Len(node.blocks) : node.blocks[j] \in Blocks
  BY <1>1
<1>4. \A j \in 1 .. node.num_blocks : j \in 1 .. Len(node.blocks)
  BY <1>1, <1>2
<1>5. node.blocks = <<>> => node.num_blocks = 0
  BY <1>1
<1> QED
  BY <1>1, <1>2, <1>3, <1>4, <1>5

\* The images find_file goes through are those of the first num_blocks blocks.
LEMMA ImagesFacts ==
    ASSUME NEW dev \in Devices, NEW node \in InodeSet
    PROVE  LET imgs == Images(dev, node)
           IN  /\ imgs \in [1 .. node.num_blocks -> BlockImages]
               /\ \A i \in 1 .. node.num_blocks : imgs[i] = dev.image[node.blocks[i]]
<1>1. (IF node.kind = "dir" THEN node.num_blocks ELSE 0) = node.num_blocks
  BY InodeFacts
<1>2. Images(dev, node) = [i \in 1 .. node.num_blocks |-> dev.image[node.blocks[i]]]
  BY <1>1 DEF Images
<1>3. \A i \in 1 .. node.num_blocks : dev.image[node.blocks[i]] \in BlockImages
  BY InodeFacts DEF Devices
<1> QED
  BY <1>2, <1>3

\* What it is to be a cache, without its set of partial functions.
LEMMA CachesIff ==
    ASSUME NEW c
    PROVE  c \in Caches <=> /\ DOMAIN c \subseteq Keys /\ c = [k \in DOMAIN c |-> c[k]]
                            /\ \A k \in DOMAIN c : c[k] \in Inums
<1>1. ASSUME c \in Caches
      PROVE  DOMAIN c \subseteq Keys /\ c = [k \in DOMAIN c |-> c[k]] /\ \A k \in DOMAIN c : c[k] \in Inums
  <2>1. PICK K \in SUBSET Keys : c \in [K -> Inums]
    BY <1>1 DEF Caches
  <2> QED
    BY <2>1
<1>2. ASSUME DOMAIN c \subseteq Keys, c = [k \in DOMAIN c |-> c[k]], \A k \in DOMAIN c : c[k] \in Inums
      PROVE  c \in Caches
  <2>1. c \in [DOMAIN c -> Inums]
    BY <1>2
  <2> QED
    BY <1>2, <2>1 DEF Caches
<1> QED
  BY <1>1, <1>2

(* The ways add_new_entry goes: no room; a record more in the last block;  *)
(* a block more.                                                           *)
AddFails(e, dev, node) == e.ok = FALSE /\ e.node = node /\ e.dev = dev

AddSplits(e, dev, node, inum, name) ==
    LET last == node.blocks[node.num_blocks]
    IN  /\ e.ok /\ e.node = node /\ node.num_blocks # 0
        /\ last \in Blocks /\ dev.image[last] \in BlockImages /\ Room(dev.image[last], name) # {}
        /\ e.dev = [dev EXCEPT !.image[last] = Split(dev.image[last], inum, name)]
        /\ e.dev \in Devices

AddGrows(e, dev, node, inum, name) ==
    LET b == Head(dev.pick)
        n == node.num_blocks + 1
    IN  /\ e.ok /\ dev.pick # <<>> /\ b \in Blocks
        /\ e.node \in InodeSet
        /\ e.node.kind = node.kind /\ e.node.links = node.links /\ e.node.num_blocks = n
        /\ e.node.blocks[n] = b /\ \A j \in 1 .. node.num_blocks : e.node.blocks[j] = node.blocks[j]
        /\ e.dev = [dev EXCEPT !.image[b] = Lone(inum, name), !.free = @ \ {b}, !.pick = Tail(@)]
        /\ e.dev \in Devices

\* add_new_entry fails and changes nothing, splits a record, or takes a block.
LEMMA AddEntryGives ==
    ASSUME NEW dev \in Devices, NEW node \in InodeSet, node.kind = "dir", NEW inum \in Inums, NEW name \in NameSet
    PROVE  LET e == AddEntry(dev, node, inum, name)
           IN  \/ AddFails(e, dev, node) /\ (dev.pick = <<>> \/ node.num_blocks # 0)
               \/ AddSplits(e, dev, node, inum, name)
               \/ AddGrows(e, dev, node, inum, name)
<1> DEFINE e == AddEntry(dev, node, inum, name)
           last == node.blocks[node.num_blocks]
           n == node.num_blocks + 1
           b == Head(dev.pick)
           node2 == [node EXCEPT !.blocks = SubSeq(@, 1, n - 1) \o <<b>> \o SubSeq(@, n + 1, Len(@)), !.num_blocks = n]
           dev2 == [dev EXCEPT !.image[b] = Lone(inum, name), !.free = @ \ {b}, !.pick = Tail(@)]
           dev1 == [dev EXCEPT !.image[last] = Split(@, inum, name)]
<1>1. CASE node.num_blocks # 0 /\ Room(dev.image[last], name) # {}
  <2>1. e = [ok |-> TRUE, node |-> node, dev |-> dev1]
    BY <1>1 DEF AddEntry
  <2>2. last \in Blocks /\ dev.image[last] \in BlockImages
    <3>1. node.num_blocks \in 1 .. node.num_blocks
      BY <1>1, InodeFacts
    <3>2. last \in Blocks
      BY <3>1, InodeFacts
    <3> QED
      BY <3>2 DEF Devices
  <2>3. Split(dev.image[last], inum, name) \in BlockImages
    BY <1>1, <2>2, SplitGives
  <2>4. dev1 = [dev EXCEPT !.image[last] = Split(dev.image[last], inum, name)] /\ dev1 \in Devices
    <3> HIDE DEF last
    <3> QED
      BY <2>2, <2>3 DEF Devices
  <2> HIDE DEF e, dev1
  <2> QED
    BY <1>1, <2>1, <2>2, <2>4 DEF AddSplits, e
<1>2. CASE /\ ~ (node.num_blocks # 0 /\ Room(dev.image[last], name) # {})
           /\ \/ node.num_blocks # 0 /\ EndOf(dev.image[last]) < BLOCK_SIZE
              \/ dev.pick = <<>>
  BY <1>2 DEF AddEntry, AddFails
<1>3. CASE /\ ~ (node.num_blocks # 0 /\ Room(dev.image[last], name) # {})
           /\ ~ \/ node.num_blocks # 0 /\ EndOf(dev.image[last]) < BLOCK_SIZE
                \/ dev.pick = <<>>
  <2>1. e = [ok |-> TRUE, node |-> node2, dev |-> dev2]
    BY <1>3 DEF AddEntry
  <2>2. dev.pick # <<>> /\ dev.pick \in Seq(Blocks)
    BY <1>3 DEF Devices
  <2>3. b \in Blocks /\ Tail(dev.pick) \in Seq(Blocks)
    BY <2>2
  <2>4. Lone(inum, name) \in BlockImages
    BY LoneGives
  <2>5. dev2 \in Devices
    <3> HIDE DEF b
    <3> QED
      BY <2>3, <2>4 DEF Devices
  <2>6. /\ node2 \in InodeSet
        /\ node2.kind = node.kind /\ node2.links = node.links /\ node2.num_blocks = n
        /\ node2.blocks[n] = b /\ \A j \in 1 .. node.num_blocks : node2.blocks[j] = node.blocks[j]
    <3> DEFINE s == SubSeq(node.blocks, 1, n - 1)
               t == SubSeq(node.blocks, n + 1, Len(node.blocks))
               new == s \o <<b>> \o t
    <3>1. node.blocks \in Seq(Blocks) /\ n \in Nat /\ n - 1 <= Len(node.blocks) /\ n - 1 = node.num_blocks
      BY InodeFacts
    <3>2. s \in Seq(Blocks) /\ Len(s) = n - 1 /\ \A j \in 1 .. n - 1 : s[j] = node.blocks[j]
      <4> HIDE DEF n
      <4>1. n - 1 \in Nat /\ \A j \in 1 .. n - 1 : node.blocks[j] \in Blocks
        BY <3>1, InodeFacts
      <4>2. /\ SubSeq(node.blocks, 1, n - 1) \in Seq(Blocks)
            /\ Len(SubSeq(node.blocks, 1, n - 1)) = IF 1 <= n - 1 THEN (n - 1) - 1 + 1 ELSE 0
            /\ \A i \in 1 .. (n - 1) - 1 + 1 : SubSeq(node.blocks, 1, n - 1)[i] = node.blocks[1 + i - 1]
        BY <4>1, SubSeqProperties
      <4>3. (n - 1) - 1 + 1 = n - 1 /\ \A i \in 1 .. n - 1 : 1 + i - 1 = i
        BY <4>1
      <4> QED
        BY <4>1, <4>2, <4>3
    <3>3. t \in Seq(Blocks)
      <4>1. n + 1 \in Int /\ Len(node.blocks) \in Int /\ n + 1 >= 1
        BY InodeFacts
      <4> HIDE DEF n
      <4>2. \A j \in n + 1 .. Len(node.blocks) : node.blocks[j] \in Blocks
        BY <3>1, <4>1, InodeFacts
      <4> QED
        BY <3>1, <4>1, <4>2, SubSeqProperties
    <3> HIDE DEF s, t, b, n
    <3>4. <<b>> \o t \in Seq(Blocks) /\ (<<b>> \o t)[1] = b /\ Len(<<b>> \o t) >= 1
      BY <2>3, <3>3
    <3>5. new = s \o (<<b>> \o t)
      BY <2>3, <3>2, <3>3
    <3>6. /\ new \in Seq(Blocks) /\ Len(new) >= n /\ new[n] = b
          /\ \A j \in 1 .. n - 1 : new[j] = node.blocks[j]
      <4> DEFINE u == <<b>> \o t
      <4>1. u \in Seq(Blocks) /\ u[1] = b /\ Len(u) >= 1 /\ Len(u) \in Nat
        BY <3>4
      <4> HIDE DEF u
      <4>2. s \o u \in Seq(Blocks) /\ Len(s \o u) = Len(s) + Len(u)
        BY <3>2, <4>1
      <4>3. (s \o u)[n] = u[1] /\ \A j \in 1 .. n - 1 : (s \o u)[j] = s[j]
        BY <3>1, <3>2, <4>1
      <4> QED
        BY <3>1, <3>2, <3>5, <4>1, <4>2, <4>3 DEF u
    <3>7. node2 = [node EXCEPT !.blocks = new, !.num_blocks = n]
      BY DEF s, t
    <3> HIDE DEF new
    <3> QED
      BY <3>1, <3>6, <3>7 DEF InodeSet
  <2> HIDE DEF dev2, node2
  <2> QED
    BY <2>1, <2>2, <2>3, <2>5, <2>6 DEF AddGrows, dev2, e
<1> QED
  BY <1>1, <1>2, <1>3

\* The last two of these are its successes.
LEMMA AddSucceeds ==
    ASSUME NEW e, NEW dev, NEW node, NEW inum, NEW name,
           AddSplits(e, dev, node, inum, name) \/ AddGrows(e, dev, node, inum, name)
    PROVE  e.ok
  BY DEF AddSplits, AddGrows

\* No number in the records reaches up to n.
Under(img, n) == \A q \in Reached(img) : img[q].inum < n

\* A block with one record holds only numbers that were given, if the record does.
LEMMA LoneUnder ==
    ASSUME NEW inum \in Inums, NEW name \in NameSet, NEW n, inum < n
    PROVE  Under(Lone(inum, name), n)
<1>1. Reached(Lone(inum, name)) = {0} /\ Lone(inum, name)[0] = Record(inum, BLOCK_SIZE, name)
  BY LoneGives
<1> QED
  BY <1>1 DEF Under, Record

\* Splitting a record brings in no number but the new one.
LEMMA SplitUnder ==
    ASSUME NEW img \in BlockImages, NEW inum \in Inums, NEW name \in NameSet, Room(img, name) # {},
           NEW n, inum < n, Under(img, n)
    PROVE  Under(Split(img, inum, name), n)
<1> DEFINE new == Split(img, inum, name)
<1>1. \E p \in Reached(img), m \in Nat \ Reached(img) :
         /\ p = Min(Room(img, name)) /\ m = p + Size(img[p].name)
         /\ Reached(new) = Reached(img) \cup {m}
         /\ new[m].name = name /\ new[m].inum = inum /\ new[m].len = img[p].len - Size(img[p].name)
         /\ new[p].name = img[p].name /\ new[p].inum = img[p].inum /\ new[p].len = Size(img[p].name)
         /\ \A q \in Reached(img) : q # p => new[q] = img[q]
  BY SplitGives
<1> HIDE DEF new
<1>2. \A q \in Reached(new) : new[q].inum < n
  BY <1>1 DEF Under
<1> QED
  BY <1>2 DEF Under, new

\* Removing a record by merging it brings in no number.
LEMMA MergeUnder ==
    ASSUME NEW img \in BlockImages, DOMAIN img # {}, NEW pos \in Reached(img), NEW prev \in Reached(img),
           prev + img[prev].len = pos, NEW n, Under(img, n)
    PROVE  Under(Merge(img, pos, prev), n)
<1> DEFINE new == Merge(img, pos, prev)
<1>1. /\ Reached(new) = Reached(img) \ {pos}
      /\ new[prev].inum = img[prev].inum
      /\ \A q \in Reached(new) : q # prev => new[q] = img[q]
  BY MergeGives
<1> HIDE DEF new
<1> QED
  BY <1>1 DEF Under, new

\* Moving the second record up brings in no number.
LEMMA MoveUpUnder ==
    ASSUME NEW img \in BlockImages, DOMAIN img # {}, img[0].len # BLOCK_SIZE, NEW n, Under(img, n)
    PROVE  Under(MoveUp(img), n)
<1> DEFINE new == MoveUp(img)
<1>1. /\ Reached(new) = Reached(img) \ {img[0].len} /\ img[0].len \in Reached(img)
      /\ new[0].inum = img[img[0].len].inum
      /\ \A q \in Reached(new) : q # 0 => new[q] = img[q]
  BY MoveUpGives
<1> HIDE DEF new
<1> QED
  BY <1>1 DEF Under, new

\* A block of zeros is the image of a directory's block, and holds no number.
LEMMA EmptyUnder ==
    /\ EmptyImage \in BlockImages /\ DOMAIN EmptyImage = {} /\ Reached(EmptyImage) = {}
    /\ \A n : Under(EmptyImage, n)
<1>1. DOMAIN EmptyImage = {} /\ EmptyImage = [p \in DOMAIN EmptyImage |-> EmptyImage[p]]
  BY DEF EmptyImage
<1>2. EmptyImage \in RecordImages
  BY <1>1, RecordImagesIff
<1>3. EmptyImage \in BlockImages
  BY <1>1, <1>2 DEF BlockImages
<1>4. Reached(EmptyImage) = {}
  BY <1>1, <1>3, BlockImageFacts
<1> QED
  BY <1>1, <1>3, <1>4 DEF Under

-----------------------------------------------------------------------------
(* Devices whose directories are whole                                     *)

Live(dev) == {i \in Inums \ dev.removed : dev.inodes[i].kind = "dir"}

Holds(node, b) == \E j \in 1 .. node.num_blocks : node.blocks[j] = b
Distinct(node) == \A j, k \in 1 .. node.num_blocks : node.blocks[j] = node.blocks[k] => j = k
SameBlocks(node, old) == node.kind = old.kind /\ node.blocks = old.blocks /\ node.num_blocks = old.num_blocks

\* Free are the blocks no directory holds; no two hold the same; and the
\* records in them are those of a directory.
Sane(dev) ==
    /\ \A b \in Blocks : b \in dev.free <=> \A d \in Live(dev) : ~ Holds(dev.inodes[d], b)
    /\ \A d, e \in Live(dev) : \A b \in Blocks : Holds(dev.inodes[d], b) /\ Holds(dev.inodes[e], b) => d = e
    /\ \A d \in Live(dev) : Distinct(dev.inodes[d])
    /\ \A d \in Live(dev) : Directory(Images(dev, dev.inodes[d]), dev.inodes[d].num_blocks)

\* A directory whose blocks were not written has the images it had.
LEMMA SameImages ==
    ASSUME NEW dev \in Devices, NEW dev2 \in Devices, NEW node \in InodeSet, NEW old \in InodeSet,
           SameBlocks(node, old), \A b \in Blocks : Holds(node, b) => dev2.image[b] = dev.image[b]
    PROVE  Images(dev2, node) = Images(dev, old)
<1>1. /\ Images(dev2, node) \in [1 .. node.num_blocks -> BlockImages]
      /\ \A i \in 1 .. node.num_blocks : Images(dev2, node)[i] = dev2.image[node.blocks[i]]
      /\ Images(dev, old) \in [1 .. old.num_blocks -> BlockImages]
      /\ \A i \in 1 .. old.num_blocks : Images(dev, old)[i] = dev.image[old.blocks[i]]
  BY ImagesFacts
<1>2. node.num_blocks = old.num_blocks /\ node.blocks = old.blocks
  BY DEF SameBlocks
<1>3. \A i \in 1 .. node.num_blocks : Images(dev2, node)[i] = Images(dev, old)[i]
  <2> SUFFICES ASSUME NEW i \in 1 .. node.num_blocks
               PROVE  Images(dev2, node)[i] = Images(dev, old)[i]
    OBVIOUS
  <2>1. node.blocks[i] \in Blocks
    BY InodeFacts
  <2>2. Holds(node, node.blocks[i])
    BY DEF Holds
  <2> QED
    BY <1>1, <1>2, <2>1, <2>2
<1> DEFINE f == Images(dev2, node)
           g == Images(dev, old)
<1>4. f \in [1 .. node.num_blocks -> BlockImages] /\ g \in [1 .. node.num_blocks -> BlockImages]
  BY <1>1, <1>2
<1>5. \A i \in 1 .. node.num_blocks : f[i] = g[i]
  BY <1>3
<1> HIDE DEF f, g
<1>6. f = g
  <2> DEFINE D == 1 .. node.num_blocks
  <2>1. f \in [D -> BlockImages] /\ g \in [D -> BlockImages] /\ \A i \in D : f[i] = g[i]
    BY <1>4, <1>5
  <2> HIDE DEF D
  <2>2. f = [i \in D |-> f[i]] /\ g = [i \in D |-> g[i]]
    BY <2>1
  <2> QED
    BY <2>1, <2>2
<1> QED
  BY <1>6 DEF f, g

(* A directory that is made, or changes its blocks.                        *)
LEMMA DirectoryChanged ==
    ASSUME NEW dev \in Devices, NEW dev2 \in Devices, Sane(dev), NEW d \in Inums \ dev.removed,
           dev2.removed = dev.removed,
           dev2.inodes[d].kind = "dir", Distinct(dev2.inodes[d]),
           Directory(Images(dev2, dev2.inodes[d]), dev2.inodes[d].num_blocks),
           \A i \in Inums \ {d} : SameBlocks(dev2.inodes[i], dev.inodes[i]),
           \A b \in Blocks : Holds(dev2.inodes[d], b) => b \in dev.free \/ Holds(dev.inodes[d], b),
           \A b \in Blocks : b \in dev2.free <=> /\ b \in dev.free \/ Holds(dev.inodes[d], b)
                                                 /\ ~ Holds(dev2.inodes[d], b),
           \A b \in Blocks : dev2.image[b] # dev.image[b] => b \in dev.free \/ Holds(dev.inodes[d], b)
    PROVE  Sane(dev2)
<1>1. \A i \in Inums : dev.inodes[i] \in InodeSet /\ dev2.inodes[i] \in InodeSet
  BY DEF Devices
<1>2. d \in Live(dev2) /\ \A i \in Inums : i # d => (i \in Live(dev2) <=> i \in Live(dev))
  BY DEF Live, SameBlocks
<1>3. \A i \in Inums \ {d} : \A b : Holds(dev2.inodes[i], b) <=> Holds(dev.inodes[i], b)
  BY DEF SameBlocks, Holds
<1>4. ASSUME NEW b, Holds(dev.inodes[d], b)
      PROVE  d \in Live(dev)
  <2>1. dev.inodes[d].num_blocks # 0
    <3> SUFFICES ASSUME dev.inodes[d].num_blocks = 0
                 PROVE  FALSE
      OBVIOUS
    <3>1. 1 .. dev.inodes[d].num_blocks = {}
      OBVIOUS
    <3> QED
      BY <1>4, <3>1 DEF Holds
  <2>2. dev.inodes[d].kind = "dir"
    BY <1>1, <2>1, InodeFacts
  <2> QED
    BY <2>2 DEF Live
<1>5. ASSUME NEW i \in Live(dev2), i # d, NEW b \in Blocks, Holds(dev2.inodes[i], b)
      PROVE  /\ i \in Live(dev) /\ Holds(dev.inodes[i], b)
             /\ b \notin dev.free /\ ~ Holds(dev.inodes[d], b)
  <2>1. i \in Live(dev) /\ Holds(dev.inodes[i], b)
    BY <1>2, <1>3, <1>5 DEF Live
  <2>2. b \notin dev.free
    BY <2>1 DEF Sane
  <2>3. ~ Holds(dev.inodes[d], b)
    BY <1>4, <1>5, <2>1 DEF Sane
  <2> QED
    BY <2>1, <2>2, <2>3
<1>6. ASSUME NEW b \in Blocks
      PROVE  b \in dev2.free <=> \A i \in Live(dev2) : ~ Holds(dev2.inodes[i], b)
  <2>1. ASSUME b \in dev2.free, NEW i \in Live(dev2), Holds(dev2.inodes[i], b)
        PROVE  FALSE
    BY <1>5, <2>1
  <2>2. ASSUME \A i \in Live(dev2) : ~ Holds(dev2.inodes[i], b)
        PROVE  b \in dev2.free
    <3>1. ~ Holds(dev2.inodes[d], b)
      BY <1>2, <2>2
    <3>2. ASSUME b \notin dev.free
          PROVE  Holds(dev.inodes[d], b)
      <4>1. PICK i \in Live(dev) : Holds(dev.inodes[i], b)
        BY <3>2 DEF Sane
      <4>2. i = d
        BY <1>2, <1>3, <2>2, <4>1 DEF Live
      <4> QED
        BY <4>1, <4>2
    <3> QED
      BY <3>1, <3>2
  <2> QED
    BY <2>1, <2>2
<1>7. ASSUME NEW i \in Live(dev2), NEW k \in Live(dev2), NEW b \in Blocks,
             Holds(dev2.inodes[i], b), Holds(dev2.inodes[k], b)
      PROVE  i = k
  <2>1. CASE i # d /\ k # d
    BY <1>5, <1>7, <2>1 DEF Sane
  <2>2. CASE i = d /\ k # d
    BY <1>5, <1>7, <2>2
  <2>3. CASE i # d /\ k = d
    BY <1>5, <1>7, <2>3
  <2> QED
    BY <2>1, <2>2, <2>3
<1>8. ASSUME NEW i \in Live(dev2)
      PROVE  /\ Distinct(dev2.inodes[i])
             /\ Directory(Images(dev2, dev2.inodes[i]), dev2.inodes[i].num_blocks)
  <2>1. CASE i = d
    BY <2>1
  <2>2. CASE i # d
    <3>1. i \in Live(dev) /\ SameBlocks(dev2.inodes[i], dev.inodes[i]) /\ i \in Inums
      BY <1>2, <2>2 DEF Live
    <3>2. \A b \in Blocks : Holds(dev2.inodes[i], b) => dev2.image[b] = dev.image[b]
      BY <1>5, <2>2
    <3>3. Images(dev2, dev2.inodes[i]) = Images(dev, dev.inodes[i])
      BY <1>1, <3>1, <3>2, SameImages
    <3>4. Distinct(dev.inodes[i]) /\ Directory(Images(dev, dev.inodes[i]), dev.inodes[i].num_blocks)
      BY <3>1 DEF Sane
    <3> QED
      BY <3>1, <3>3, <3>4 DEF SameBlocks, Distinct
  <2> QED
    BY <2>1, <2>2
<1> QED
  BY <1>6, <1>7, <1>8 DEF Sane

(* An inode that is freed, with blocks that nobody else had.               *)
LEMMA DirectoryFreed ==
    ASSUME NEW dev \in Devices, NEW dev2 \in Devices, Sane(dev), NEW x \in Inums, NEW R \in SUBSET Blocks,
           dev2.removed = dev.removed \cup {x},
           \A i \in Live(dev) \ {x} : SameBlocks(dev2.inodes[i], dev.inodes[i]),
           \A i \in Inums \ {x} : dev2.inodes[i].kind = dev.inodes[i].kind,
           \A b \in Blocks : b \in dev2.free <=> b \in dev.free \/ b \in R,
           \A i \in Live(dev) \ {x} : \A b \in R : ~ Holds(dev.inodes[i], b),
           \A b \in Blocks : x \in Live(dev) /\ Holds(dev.inodes[x], b) => b \in R,
           \A b \in Blocks : b \notin R => dev2.image[b] = dev.image[b]
    PROVE  Sane(dev2)
<1>1. \A i \in Inums : dev.inodes[i] \in InodeSet /\ dev2.inodes[i] \in InodeSet
  BY DEF Devices
<1>2. \A i : i \in Live(dev2) <=> i \in Live(dev) /\ i # x
  BY DEF Live
<1>3. \A i \in Live(dev2) : \A b : Holds(dev2.inodes[i], b) <=> Holds(dev.inodes[i], b)
  BY <1>2 DEF SameBlocks, Holds
<1>4. ASSUME NEW b \in Blocks
      PROVE  b \in dev2.free <=> \A i \in Live(dev2) : ~ Holds(dev2.inodes[i], b)
  <2>1. ASSUME b \in dev2.free, NEW i \in Live(dev2), Holds(dev2.inodes[i], b)
        PROVE  FALSE
    <3>1. i \in Live(dev) /\ i # x /\ Holds(dev.inodes[i], b)
      BY <1>2, <1>3, <2>1
    <3>2. b \notin dev.free
      BY <3>1 DEF Sane
    <3> QED
      BY <2>1, <3>1, <3>2
  <2>2. ASSUME \A i \in Live(dev2) : ~ Holds(dev2.inodes[i], b), b \notin dev.free
        PROVE  b \in R
    <3>1. PICK i \in Live(dev) : Holds(dev.inodes[i], b)
      BY <2>2 DEF Sane
    <3>2. i = x
      BY <1>2, <1>3, <2>2, <3>1
    <3> QED
      BY <3>1, <3>2
  <2> QED
    BY <2>1, <2>2
<1>5. ASSUME NEW i \in Live(dev2), NEW k \in Live(dev2), NEW b \in Blocks,
             Holds(dev2.inodes[i], b), Holds(dev2.inodes[k], b)
      PROVE  i = k
  BY <1>2, <1>3, <1>5 DEF Sane
<1>6. ASSUME NEW i \in Live(dev2)
      PROVE  /\ Distinct(dev2.inodes[i])
             /\ Directory(Images(dev2, dev2.inodes[i]), dev2.inodes[i].num_blocks)
  <2>1. i \in Live(dev) /\ i # x /\ i \in Inums
    BY <1>2 DEF Live
  <2>2. SameBlocks(dev2.inodes[i], dev.inodes[i])
    BY <2>1
  <2>3. \A b \in Blocks : Holds(dev2.inodes[i], b) => dev2.image[b] = dev.image[b]
    BY <1>3, <2>1
  <2>4. Images(dev2, dev2.inodes[i]) = Images(dev, dev.inodes[i])
    BY <1>1, <2>1, <2>2, <2>3, SameImages
  <2>5. Distinct(dev.inodes[i]) /\ Directory(Images(dev, dev.inodes[i]), dev.inodes[i].num_blocks)
    BY <2>1 DEF Sane
  <2> QED
    BY <2>2, <2>4, <2>5 DEF SameBlocks, Distinct
<1> QED
  BY <1>4, <1>5, <1>6 DEF Sane

(* Sane says nothing of links, the cache, files and the history.           *)
LEMMA SaneElsewhere ==
    ASSUME NEW dev \in Devices, NEW dev2 \in Devices, Sane(dev),
           dev2.image = dev.image, dev2.free = dev.free, Live(dev2) = Live(dev),
           \A i \in Live(dev) : SameBlocks(dev2.inodes[i], dev.inodes[i])
    PROVE  Sane(dev2)
<1>1. \A i \in Inums : dev.inodes[i] \in InodeSet /\ dev2.inodes[i] \in InodeSet
  BY DEF Devices
<1>2. \A i \in Live(dev) : i \in Inums
  BY DEF Live
<1>3. \A i \in Live(dev) : \A b : Holds(dev2.inodes[i], b) <=> Holds(dev.inodes[i], b)
  BY DEF SameBlocks, Holds
<1>4. \A i \in Live(dev) : Images(dev2, dev2.inodes[i]) = Images(dev, dev.inodes[i])
  BY <1>1, <1>2, SameImages
<1>5. \A i \in Live(dev) : Distinct(dev2.inodes[i]) <=> Distinct(dev.inodes[i])
  BY DEF SameBlocks, Distinct
<1>6. \A i \in Live(dev) : dev2.inodes[i].num_blocks = dev.inodes[i].num_blocks
  BY DEF SameBlocks
<1> QED
  BY <1>3, <1>4, <1>5, <1>6 DEF Sane

-----------------------------------------------------------------------------
(* Looking up paths                                                        *)

Results == [dev : Devices, inum : Inums \cup {NoInode}]

\* r comes from a lookup on dev: the device is the same but for the cache and strayed.
LooksUp(r, dev) ==
    /\ r \in Results
    /\ r.dev = [dev EXCEPT !.cache = r.dev.cache, !.strayed = r.dev.strayed]
    /\ dev.strayed => r.dev.strayed
    /\ Numbers(dev) => Numbers(r.dev) /\ r.inum < dev.latest

\* A lookup changes the cache and nothing else.
LEMMA LooksUpSame ==
    ASSUME NEW dev \in Devices, NEW r, LooksUp(r, dev)
    PROVE  /\ r.dev \in Devices /\ r.inum \in Inums \cup {NoInode}
           /\ r.dev.image = dev.image /\ r.dev.pick = dev.pick /\ r.dev.free = dev.free
           /\ r.dev.inodes = dev.inodes /\ r.dev.latest = dev.latest /\ r.dev.removed = dev.removed
           /\ r.dev.misfreed = dev.misfreed
<1>1. r.dev \in Devices /\ r.inum \in Inums \cup {NoInode}
  BY DEF LooksUp, Results
<1>2. r.dev = [dev EXCEPT !.cache = r.dev.cache, !.strayed = r.dev.strayed]
  BY DEF LooksUp
<1> DEFINE c == r.dev.cache
           s == r.dev.strayed
<1>3. r.dev = [dev EXCEPT !.cache = c, !.strayed = s]
  BY <1>2
<1> HIDE DEF c, s
<1> QED
  BY <1>1, <1>3 DEF Devices

\* What one name adds to a lookup.
Found(up, key, inum) ==
    [inum |-> inum,
     dev |-> [up.dev EXCEPT !.cache = [k \in DOMAIN @ \cup {key} |-> IF k = key THEN inum ELSE @[k]],
                            !.strayed = @ \/ up.inum \in up.dev.removed]]

\* Caching what was found is part of a lookup.
LEMMA FoundLooksUp ==
    ASSUME NEW dev \in Devices, NEW up, LooksUp(up, dev), NEW key \in Keys, NEW inum \in Inums,
           Numbers(dev) => inum < dev.latest
    PROVE  /\ LooksUp(Found(up, key, inum), dev)
           /\ key \in DOMAIN Found(up, key, inum).dev.cache /\ Found(up, key, inum).dev.cache[key] = inum
<1> DEFINE r == Found(up, key, inum)
           c == [k \in DOMAIN up.dev.cache \cup {key} |-> IF k = key THEN inum ELSE up.dev.cache[k]]
           s == up.dev.strayed \/ up.inum \in up.dev.removed
<1>1. up.dev \in Devices
  BY LooksUpSame
<1>2. r = [inum |-> inum, dev |-> [up.dev EXCEPT !.cache = c, !.strayed = s]]
  BY DEF Found
<1>3. up.dev.cache \in Caches /\ up.dev.strayed \in BOOLEAN
  BY <1>1 DEF Devices
<1>4. /\ DOMAIN up.dev.cache \subseteq Keys /\ \A k \in DOMAIN up.dev.cache : up.dev.cache[k] \in Inums
  BY <1>3, CachesIff
<1>5. c \in Caches
  <2>1. DOMAIN c \subseteq Keys /\ c = [k \in DOMAIN c |-> c[k]] /\ \A k \in DOMAIN c : c[k] \in Inums
    BY <1>4
  <2> HIDE DEF c
  <2> QED
    BY <2>1, CachesIff
<1>6. key \in DOMAIN c /\ c[key] = inum /\ DOMAIN c = DOMAIN up.dev.cache \cup {key}
      /\ \A k \in DOMAIN up.dev.cache : k # key => c[k] = up.dev.cache[k]
  OBVIOUS
<1>7. s \in BOOLEAN /\ (up.dev.strayed => s)
  BY <1>3
<1> HIDE DEF c, s, r
<1> DEFINE d == [up.dev EXCEPT !.cache = c, !.strayed = s]
<1>8. /\ d \in Devices /\ d.cache = c /\ d.strayed = s /\ d.image = up.dev.image /\ d.latest = up.dev.latest
      /\ d.inodes = up.dev.inodes /\ d.removed = up.dev.removed
  BY <1>1, <1>5, <1>7 DEF Devices
<1>9. d = [dev EXCEPT !.cache = c, !.strayed = s]
  <2> DEFINE uc == up.dev.cache
             us == up.dev.strayed
  <2>1. up.dev = [dev EXCEPT !.cache = uc, !.strayed = us]
    BY DEF LooksUp
  <2> HIDE DEF uc, us
  <2>2. [[dev EXCEPT !.cache = uc, !.strayed = us] EXCEPT !.cache = c, !.strayed = s]
          = [dev EXCEPT !.cache = c, !.strayed = s]
    BY DEF Devices
  <2> QED
    BY <2>1, <2>2
<1>10. r.dev = d /\ r.inum = inum /\ r \in Results
  BY <1>2, <1>8 DEF Results
<1> HIDE DEF d
<1>11. ASSUME Numbers(dev)
       PROVE  Numbers(d) /\ inum < dev.latest
  <2>1. Numbers(up.dev) /\ up.dev.latest = dev.latest
    BY <1>11, LooksUpSame DEF LooksUp
  <2>2. \A k \in DOMAIN c : c[k] < d.latest
    BY <1>6, <1>8, <1>11, <2>1 DEF Numbers
  <2> QED
    BY <1>8, <1>11, <2>1, <2>2 DEF Numbers
<1>12. dev.strayed => d.strayed
  BY <1>7, <1>8 DEF LooksUp
<1>13. r.dev = [dev EXCEPT !.cache = r.dev.cache, !.strayed = r.dev.strayed]
  BY <1>8, <1>9, <1>10
<1>14. LooksUp(r, dev)
  BY <1>10, <1>11, <1>12, <1>13 DEF LooksUp
<1> QED
  BY <1>6, <1>8, <1>10, <1>14 DEF r

\* The keys get_inode_num_from_path makes of a path are keys.
LEMMA KeyType ==
    ASSUME NEW path \in Seq(NameSet), NEW n \in 0 .. Len(path), NEW slash \in BOOLEAN
    PROVE  Key(path, n, slash) \in Keys
<1>1. Len(path) \in Nat
  OBVIOUS
<1>2. \A i \in 1 .. n : path[i] \in NameSet
  BY <1>1
<1>3. SubSeq(path, 1, n) \in Seq(NameSet)
  BY <1>1, <1>2, SubSeqProperties
<1>4. (slash \/ n < Len(path)) \in BOOLEAN
  OBVIOUS
<1> QED
  BY <1>3, <1>4 DEF Key, Keys

\* One step of a lookup.
LookStep(dev, path, slash, up, n) ==
    IF Key(path, n, slash) \in DOMAIN dev.cache
    THEN [dev |-> dev, inum |-> dev.cache[Key(path, n, slash)]]
    ELSE Further(up, Key(path, n, slash), path[n])

\* The ways one name of a lookup goes.
FurtherWays(r, dev, up, key, name) ==
    LET imgs == Images(dev, dev.inodes[up.inum])
        at == FindFile(imgs, name)
    IN  \/ up.inum = NoInode /\ r = up
        \/ up.inum \in Inums /\ at.pos = -1 /\ r = [up EXCEPT !.inum = NoInode]
        \/ /\ up.inum \in Inums /\ at.pos # -1
           /\ imgs[at.block][at.pos].inum \in Inums
           /\ Numbers(dev) => imgs[at.block][at.pos].inum < dev.latest
           /\ r = Found(up, key, imgs[at.block][at.pos].inum)

\* The search of get_inode_num_from_path in one directory finds the name and caches it, or does
\* not.
LEMMA FurtherGives ==
    ASSUME NEW dev \in Devices, NEW up, LooksUp(up, dev), NEW key \in Keys, NEW name
    PROVE  FurtherWays(Further(up, key, name), dev, up, key, name)
<1> DEFINE r == Further(up, key, name)
           imgs == Images(dev, dev.inodes[up.inum])
           at == FindFile(imgs, name)
           inum == imgs[at.block][at.pos].inum
<1>1. /\ up.inum \in Inums \cup {NoInode} /\ up.dev.inodes = dev.inodes /\ up.dev.image = dev.image
      /\ NoInode \notin Inums
  BY LooksUpSame, InodeCount DEF NoInode
<1>2. Images(up.dev, up.dev.inodes[up.inum]) = imgs
  BY <1>1 DEF Images
<1>3. r = IF up.inum = NoInode THEN up
          ELSE IF at.pos = -1 THEN [up EXCEPT !.inum = NoInode]
          ELSE Found(up, key, inum)
  BY <1>2 DEF Further, Found
<1>4. ASSUME up.inum \in Inums, at.pos # -1
      PROVE  inum \in Inums /\ (Numbers(dev) => inum < dev.latest)
  <2> DEFINE node == dev.inodes[up.inum]
             n == node.num_blocks
  <2>1. node \in InodeSet
    BY <1>4 DEF Devices
  <2>2. n \in Nat /\ imgs \in [1 .. n -> BlockImages] /\ \A i \in 1 .. n : imgs[i] = dev.image[node.blocks[i]] /\ node.blocks[i] \in Blocks
    BY <2>1, ImagesFacts, InodeFacts
  <2> HIDE DEF imgs, n, node
  <2>3. IsFound(imgs, name, at)
    BY <1>4, <2>2, FindFileGives
  <2>4. at.block \in 1 .. n /\ at.pos \in Reached(imgs[at.block])
    BY <2>2, <2>3 DEF IsFound
  <2>5. imgs[at.block] \in BlockImages
    BY <2>2, <2>4
  <2>6. inum \in Inums
    BY <2>4, <2>5, ReachedFacts
  <2>7. Numbers(dev) => inum < dev.latest
    BY <2>2, <2>4 DEF Numbers
  <2> QED
    BY <2>6, <2>7
<1> HIDE DEF at, r, inum, imgs
<1>5. \/ up.inum = NoInode /\ r = up
      \/ up.inum \in Inums /\ at.pos = -1 /\ r = [up EXCEPT !.inum = NoInode]
      \/ /\ up.inum \in Inums /\ at.pos # -1 /\ inum \in Inums /\ (Numbers(dev) => inum < dev.latest)
         /\ r = Found(up, key, inum)
  BY <1>1, <1>3, <1>4
<1> QED
  BY <1>5 DEF at, r, inum, imgs, FurtherWays

\* What one name of a lookup finds is in the cache afterwards.
StepWays(r, dev, path, slash, up, n) ==
    LET key == Key(path, n, slash)
    IN  /\ LooksUp(r, dev)
        /\ r.inum # NoInode => key \in DOMAIN r.dev.cache /\ r.dev.cache[key] = r.inum
        /\ r.inum = NoInode => \/ up.inum = NoInode
                               \/ /\ up.inum \in Inums
                                  /\ FindFile(Images(dev, dev.inodes[up.inum]), path[n]).pos = -1

\* One prefix of the path: it is answered from the cache, searched for in its parent, or the parent
\* was not found.
LEMMA StepLooksUp ==
    ASSUME NEW dev \in Devices, NEW path \in Seq(NameSet), NEW slash \in BOOLEAN, NEW n \in 1 .. Len(path),
           NEW up, LooksUp(up, dev)
    PROVE  StepWays(LookStep(dev, path, slash, up, n), dev, path, slash, up, n)
<1> DEFINE key == Key(path, n, slash)
           r == LookStep(dev, path, slash, up, n)
           imgs == Images(dev, dev.inodes[up.inum])
           at == FindFile(imgs, path[n])
<1>1. key \in Keys
  <2>1. n \in 0 .. Len(path)
    OBVIOUS
  <2> QED
    BY <2>1, KeyType
<1>2. NoInode \notin Inums /\ -1 < dev.latest /\ NoInode < dev.latest
  BY InodeCount DEF NoInode, Devices
<1> HIDE DEF key
<1>3. CASE key \in DOMAIN dev.cache
  <2>1. dev.cache[key] \in Inums
    BY <1>3, CachesIff DEF Devices
  <2>2. r = [dev |-> dev, inum |-> dev.cache[key]]
    BY <1>3 DEF LookStep, key
  <2> DEFINE c == dev.cache
             s == dev.strayed
  <2>3. dev = [dev EXCEPT !.cache = c, !.strayed = s]
    BY DEF Devices
  <2>4. LooksUp(r, dev)
    <3>1. r \in Results /\ r.dev = dev /\ r.inum = dev.cache[key]
      BY <2>1, <2>2 DEF Results
    <3>2. Numbers(dev) => dev.cache[key] < dev.latest
      BY <1>3 DEF Numbers
    <3> HIDE DEF r
    <3> QED
      BY <2>3, <3>1, <3>2 DEF LooksUp
  <2> HIDE DEF r
  <2> QED
    BY <1>2, <1>3, <2>1, <2>2, <2>4 DEF StepWays, r, key
<1>4. CASE key \notin DOMAIN dev.cache
  <2>1. r = Further(up, key, path[n])
    BY <1>4 DEF LookStep, key
  <2>2. \/ up.inum = NoInode /\ r = up
        \/ up.inum \in Inums /\ at.pos = -1 /\ r = [up EXCEPT !.inum = NoInode]
        \/ /\ up.inum \in Inums /\ at.pos # -1
           /\ imgs[at.block][at.pos].inum \in Inums
           /\ Numbers(dev) => imgs[at.block][at.pos].inum < dev.latest
           /\ r = Found(up, key, imgs[at.block][at.pos].inum)
    <3> HIDE DEF r, at, imgs
    <3>1. FurtherWays(r, dev, up, key, path[n])
      BY <1>1, <2>1, FurtherGives
    <3> QED
      BY <3>1 DEF FurtherWays, at, imgs
  <2> HIDE DEF r, at, imgs
  <2>3. CASE up.inum = NoInode /\ r = up
    BY <2>3 DEF StepWays, r
  <2>4. CASE up.inum \in Inums /\ at.pos = -1 /\ r = [up EXCEPT !.inum = NoInode]
    <3>1. r \in Results /\ r.dev = up.dev /\ r.inum = NoInode
      BY <2>4 DEF LooksUp, Results
    <3>2. LooksUp(r, dev)
      BY <1>2, <3>1 DEF LooksUp
    <3> QED
      BY <2>4, <3>1, <3>2 DEF StepWays, r, at, imgs
  <2>5. CASE /\ up.inum \in Inums /\ at.pos # -1
             /\ imgs[at.block][at.pos].inum \in Inums
             /\ Numbers(dev) => imgs[at.block][at.pos].inum < dev.latest
             /\ r = Found(up, key, imgs[at.block][at.pos].inum)
    <3> DEFINE inum == imgs[at.block][at.pos].inum
    <3>1. inum \in Inums /\ (Numbers(dev) => inum < dev.latest) /\ r = Found(up, key, inum)
      BY <2>5
    <3> HIDE DEF inum
    <3>2. LooksUp(r, dev) /\ key \in DOMAIN r.dev.cache /\ r.dev.cache[key] = inum
      BY <1>1, <3>1, FoundLooksUp
    <3>3. r.inum = inum
      BY <3>1 DEF Found
    <3> QED
      BY <1>2, <3>1, <3>2, <3>3 DEF StepWays, r, key
  <2> QED
    BY <2>2, <2>3, <2>4, <2>5
<1> QED
  BY <1>3, <1>4

(* get_inode_num_from_path, unrolled.                                      *)
LEMMA ResolveGives ==
    ASSUME NEW dev \in Devices, NEW path \in Seq(NameSet), NEW slash \in BOOLEAN
    PROVE  \E to : /\ Resolve(dev, path, slash) = to[Len(path)]
                   /\ \A n \in 0 .. Len(path) : LooksUp(to[n], dev)
                   /\ to[0] = [dev |-> dev, inum |-> ROOT_INODE]
                   /\ \A n \in 1 .. Len(path) : to[n] = LookStep(dev, path, slash, to[n - 1], n)
<1> DEFINE N == Len(path)
           X == {up \in Results : LooksUp(up, dev)}
           start == [dev |-> dev, inum |-> ROOT_INODE]
           G == [y \in X \X (1 .. N) |-> LookStep(dev, path, slash, y[1], y[2])]
           Is(f) == f = [n \in 0 .. N |->
                            LET key == Key(path, n, slash)
                            IN  IF n = 0 THEN [dev |-> dev, inum |-> ROOT_INODE]
                                ELSE IF key \in DOMAIN dev.cache THEN [dev |-> dev, inum |-> dev.cache[key]]
                                ELSE Further(f[n - 1], key, path[n])]
           to == CHOOSE f : Is(f)
<1>1. N \in Nat
  OBVIOUS
<1>2. G \in [X \X (1 .. N) -> X]
  <2>1. ASSUME NEW y \in X \X (1 .. N)
        PROVE  LookStep(dev, path, slash, y[1], y[2]) \in X
    <3>1. LooksUp(y[1], dev) /\ y[2] \in 1 .. N
      OBVIOUS
    <3>2. LooksUp(LookStep(dev, path, slash, y[1], y[2]), dev)
      BY <3>1, StepLooksUp DEF StepWays
    <3> QED
      BY <3>2 DEF LooksUp
  <2> QED
    BY <2>1
<1>3. start \in X
  <2> DEFINE c == dev.cache
             s == dev.strayed
  <2>1. dev = [dev EXCEPT !.cache = c, !.strayed = s]
    BY DEF Devices
  <2>2. start \in Results /\ start.dev = dev /\ start.inum = ROOT_INODE
    BY InodeCount DEF Results
  <2>3. Numbers(dev) => ROOT_INODE < dev.latest
    BY DEF Numbers
  <2> HIDE DEF start
  <2> QED
    BY <2>1, <2>2, <2>3 DEF LooksUp
<1>4. PICK f : f \in [0 .. N -> X] /\ f[0] = start /\ \A i \in 1 .. N : f[i] = G[<<f[i - 1], i>>]
  <2> HIDE DEF N, X, G, start
  <2>1. \E f : StepsOf(f, X, N, G, start)
    BY <1>1, <1>2, <1>3, Stepwise
  <2> QED
    BY <2>1 DEF StepsOf
<1>5. \A i \in 1 .. N : f[i] = LookStep(dev, path, slash, f[i - 1], i)
  <2> SUFFICES ASSUME NEW i \in 1 .. N
               PROVE  f[i] = LookStep(dev, path, slash, f[i - 1], i)
    OBVIOUS
  <2>1. i - 1 \in 0 .. N
    BY <1>1
  <2>2. <<f[i - 1], i>> \in X \X (1 .. N)
    <3> HIDE DEF X
    <3> QED
      BY <1>4, <2>1
  <2> HIDE DEF X, N
  <2> QED
    BY <1>4, <2>2
<1>6. Is(f)
  <2>1. f = [n \in 0 .. N |-> f[n]]
    <3> HIDE DEF X, N
    <3> QED
      BY <1>4
  <2>2. ASSUME NEW n \in 0 .. N
        PROVE  f[n] = IF n = 0 THEN start ELSE LookStep(dev, path, slash, f[n - 1], n)
    <3>1. n = 0 \/ n \in 1 .. N
      BY <1>1
    <3> HIDE DEF N, X, G, start
    <3> QED
      BY <1>4, <1>5, <3>1
  <2> HIDE DEF N
  <2> QED
    BY <2>1, <2>2 DEF LookStep
<1>7. Is(to)
  <2> HIDE DEF Is
  <2> QED
    BY <1>6
<1>8. Resolve(dev, path, slash) = to[N]
  BY DEF Resolve
<1> HIDE DEF to
<1>9. to[0] = start /\ \A n \in 1 .. N : to[n] = LookStep(dev, path, slash, to[n - 1], n)
  <2>1. to = [n \in 0 .. N |-> IF n = 0 THEN start ELSE LookStep(dev, path, slash, to[n - 1], n)]
    BY <1>7 DEF LookStep
  <2> HIDE DEF N, start, Is
  <2> QED
    BY <1>1, <2>1
<1> DEFINE S == {n \in Nat : n <= N => LooksUp(to[n], dev)}
<1>10. Nat \subseteq S
  <2>1. 0 \in S
    BY <1>3, <1>9
  <2>2. ASSUME NEW n \in Nat, n \in S
        PROVE  n + 1 \in S
    <3> SUFFICES ASSUME n + 1 <= N
                 PROVE  LooksUp(to[n + 1], dev)
      OBVIOUS
    <3>1. n + 1 \in 1 .. N /\ (n + 1) - 1 = n /\ LooksUp(to[n], dev)
      BY <1>1, <2>2
    <3>2. to[n + 1] = LookStep(dev, path, slash, to[n], n + 1)
      BY <1>9, <3>1
    <3> QED
      BY <3>1, <3>2, StepLooksUp DEF StepWays
  <2> HIDE DEF S
  <2> QED
    BY <2>1, <2>2, SetInduction
<1>11. \A n \in 0 .. N : LooksUp(to[n], dev)
  BY <1>1, <1>10
<1> QED
  BY <1>8, <1>9, <1>11

\* get_inode_num_from_path is a lookup.
LEMMA ResolveLooksUp ==
    ASSUME NEW dev \in Devices, NEW path \in Seq(NameSet), NEW slash \in BOOLEAN
    PROVE  LooksUp(Resolve(dev, path, slash), dev)
<1>1. Len(path) \in 0 .. Len(path)
  OBVIOUS
<1> QED
  BY <1>1, ResolveGives

\* A path that is not the root has a parent and a name in it, and the key of the parent is a
\* prefix's.
LEMMA PathFacts ==
    ASSUME NEW path \in Seq(NameSet), Len(path) > 0
    PROVE  /\ Front(path) \in Seq(NameSet) /\ Len(Front(path)) = Len(path) - 1
           /\ Last(path) = path[Len(path)] /\ Last(path) \in NameSet
           /\ Len(path) \in Nat /\ Len(path) - 1 \in 0 .. Len(path) /\ Len(path) \in 1 .. Len(path)
           /\ Key(Front(path), Len(path) - 1, TRUE) = Key(path, Len(path) - 1, FALSE)
<1> DEFINE n == Len(path)
           f == SubSeq(path, 1, n - 1)
<1>1. n \in Nat /\ n - 1 \in Nat /\ n - 1 \in Int /\ 1 \in Int /\ n - 1 \in 0 .. n /\ n \in 1 .. n
  OBVIOUS
<1>2. \A i \in 1 .. n : path[i] \in NameSet
  OBVIOUS
<1>3. \A i \in 1 .. n - 1 : path[i] \in NameSet
  BY <1>1, <1>2
<1> HIDE DEF n
<1>4. /\ f \in Seq(NameSet)
      /\ Len(f) = IF 1 <= n - 1 THEN n - 1 - 1 + 1 ELSE 0
      /\ \A i \in 1 .. n - 1 - 1 + 1 : f[i] = path[1 + i - 1]
  BY <1>1, <1>3, SubSeqProperties
<1>5. Len(f) = n - 1 /\ \A i \in 1 .. n - 1 : f[i] = path[i]
  BY <1>1, <1>4
<1>6. SubSeq(f, 1, n - 1) = f
  <2> HIDE DEF f
  <2> QED
    BY <1>4, <1>5, SubSeqFull
<1>7. n - 1 < n
  BY <1>1
<1> HIDE DEF f
<1>8. Front(path) = f
  BY DEF Front, f, n
<1>9. Key(Front(path), n - 1, TRUE) = <<f, TRUE>>
  BY <1>6, <1>8 DEF Key
<1>10. Key(path, n - 1, FALSE) = <<f, TRUE>>
  BY <1>7 DEF Key, f, n
<1> QED
  BY <1>1, <1>2, <1>4, <1>5, <1>8, <1>9, <1>10 DEF n, Last

(* When the parent was found and the child was not, the child's name is not*)
(* in the parent: both lookups come to the same inode.                     *)
LEMMA ChildNotThere ==
    ASSUME NEW dev \in Devices, NEW path \in Seq(NameSet), Len(path) > 0, NEW p, p = Parent(dev, path),
           p.inum # NoInode, Resolve(p.dev, path, FALSE).inum = NoInode
    PROVE  FindFile(Images(p.dev, p.dev.inodes[p.inum]), Last(path)).pos = -1
<1> DEFINE n == Len(path)
           front == Front(path)
           key == Key(path, n - 1, FALSE)
<1>1. /\ front \in Seq(NameSet) /\ Len(front) = n - 1 /\ Last(path) = path[n] /\ n \in Nat /\ n > 0
      /\ n - 1 \in 0 .. n /\ n \in 1 .. n /\ n \in 0 .. n /\ Key(front, n - 1, TRUE) = key
  <2> DEFINE N == Len(path)
  <2>1. N \in Nat /\ N > 0
    OBVIOUS
  <2>2. /\ Front(path) \in Seq(NameSet) /\ Len(Front(path)) = N - 1 /\ Last(path) = path[N]
        /\ N - 1 \in 0 .. N /\ N \in 1 .. N
        /\ Key(Front(path), N - 1, TRUE) = Key(path, N - 1, FALSE)
    BY PathFacts
  <2> HIDE DEF N
  <2>3. N \in 0 .. N
    BY <2>1
  <2> QED
    BY <2>1, <2>2, <2>3 DEF N
<1>2. p = Resolve(dev, front, TRUE)
  BY DEF Parent
<1>3. LooksUp(p, dev) /\ p.dev \in Devices
  BY <1>1, <1>2, ResolveLooksUp, LooksUpSame
<1>4. PICK to : /\ Resolve(dev, front, TRUE) = to[Len(front)]
                /\ \A i \in 0 .. Len(front) : LooksUp(to[i], dev)
                /\ to[0] = [dev |-> dev, inum |-> ROOT_INODE]
                /\ \A i \in 1 .. Len(front) : to[i] = LookStep(dev, front, TRUE, to[i - 1], i)
  BY <1>1, ResolveGives
<1>5. PICK down : /\ Resolve(p.dev, path, FALSE) = down[n]
                  /\ \A i \in 0 .. n : LooksUp(down[i], p.dev)
                  /\ down[0] = [dev |-> p.dev, inum |-> ROOT_INODE]
                  /\ \A i \in 1 .. n : down[i] = LookStep(p.dev, path, FALSE, down[i - 1], i)
  BY <1>3, ResolveGives
<1> HIDE DEF n, front, key
<1>6. down[n - 1].inum = p.inum
  <2>1. CASE n = 1
    <3>1. n - 1 = 0 /\ Len(front) = 0
      BY <1>1, <2>1
    <3>2. p = [dev |-> dev, inum |-> ROOT_INODE]
      BY <1>2, <1>4, <3>1
    <3> QED
      BY <1>5, <3>1, <3>2
  <2>2. CASE n # 1
    <3>1. n - 1 \in 1 .. n /\ n - 1 \in 1 .. Len(front) /\ (n - 1) - 1 \in 0 .. Len(front) /\ (n - 1) - 1 \in 0 .. n
      BY <1>1, <2>2
    <3>2. p = LookStep(dev, front, TRUE, to[(n - 1) - 1], n - 1)
      BY <1>1, <1>2, <1>4, <3>1
    <3>3. LooksUp(to[(n - 1) - 1], dev)
      BY <1>4, <3>1
    <3>4. key \in DOMAIN p.dev.cache /\ p.dev.cache[key] = p.inum
      <4>1. StepWays(p, dev, front, TRUE, to[(n - 1) - 1], n - 1)
        BY <1>1, <3>1, <3>2, <3>3, StepLooksUp
      <4> QED
        BY <1>1, <4>1 DEF StepWays
    <3>5. down[n - 1] = LookStep(p.dev, path, FALSE, down[(n - 1) - 1], n - 1)
      BY <1>5, <3>1
    <3>6. down[n - 1] = [dev |-> p.dev, inum |-> p.dev.cache[key]]
      BY <3>4, <3>5 DEF LookStep, key
    <3> QED
      BY <3>4, <3>6
  <2> QED
    BY <2>1, <2>2
<1>7. down[n].inum = NoInode /\ down[n] = LookStep(p.dev, path, FALSE, down[n - 1], n)
  BY <1>1, <1>5
<1>8. LooksUp(down[n - 1], p.dev)
  BY <1>1, <1>5
<1>9. n \in 1 .. Len(path)
  BY <1>1 DEF n
<1>10. \/ down[n - 1].inum = NoInode
       \/ FindFile(Images(p.dev, p.dev.inodes[down[n - 1].inum]), path[n]).pos = -1
  <2>1. StepWays(down[n], p.dev, path, FALSE, down[n - 1], n)
    BY <1>3, <1>7, <1>8, <1>9, StepLooksUp
  <2> QED
    BY <1>7, <2>1 DEF StepWays
<1> QED
  BY <1>1, <1>6, <1>10

-----------------------------------------------------------------------------
(* Freeing                                                                 *)

\* free_dblock empties one block and makes it free.
LEMMA FreeDblockGives ==
    ASSUME NEW dev \in Devices, NEW b \in Blocks
    PROVE  LET d == FreeDblock(dev, b)
           IN  /\ d \in Devices
               /\ d.pick = dev.pick /\ d.inodes = dev.inodes /\ d.latest = dev.latest /\ d.cache = dev.cache
               /\ d.removed = dev.removed /\ d.strayed = dev.strayed
               /\ d.free = dev.free \cup {b} /\ d.misfreed = (dev.misfreed \/ b \in dev.free \/ dev.free = {})
               /\ d.image[b] = EmptyImage /\ \A c \in Blocks : c # b => d.image[c] = dev.image[c]
<1> DEFINE d == FreeDblock(dev, b)
           m == dev.misfreed \/ b \in dev.free \/ dev.free = {}
           f == dev.free \cup {b}
           img == [dev.image EXCEPT ![b] = EmptyImage]
<1>1. d = [dev EXCEPT !.free = f, !.image = img, !.misfreed = m]
  BY DEF FreeDblock
<1>2. /\ m \in BOOLEAN /\ f \in SUBSET Blocks /\ img \in [Blocks -> BlockImages]
      /\ img[b] = EmptyImage /\ \A c \in Blocks : c # b => img[c] = dev.image[c]
  BY EmptyUnder DEF Devices
<1> HIDE DEF d, m, f, img
<1>3. /\ d \in Devices
      /\ d.pick = dev.pick /\ d.inodes = dev.inodes /\ d.latest = dev.latest /\ d.cache = dev.cache
      /\ d.removed = dev.removed /\ d.strayed = dev.strayed
      /\ d.free = f /\ d.misfreed = m /\ d.image = img
  BY <1>1, <1>2 DEF Devices
<1> QED
  BY <1>2, <1>3 DEF d, m, f, img

\* d is what is left of dev when R was freed.
Freed(d, dev, R) ==
    /\ d \in Devices
    /\ d.pick = dev.pick /\ d.inodes = dev.inodes /\ d.latest = dev.latest /\ d.cache = dev.cache
    /\ d.removed = dev.removed /\ d.strayed = dev.strayed
    /\ d.free = dev.free \cup R
    /\ \A b \in Blocks : d.image[b] = IF b \in R THEN EmptyImage ELSE dev.image[b]
    /\ ~ d.misfreed => ~ dev.misfreed /\ R \cap dev.free = {}

\* One more block is freed.
LEMMA FreedMore ==
    ASSUME NEW dev \in Devices, NEW d, NEW R, Freed(d, dev, R), NEW b \in Blocks
    PROVE  Freed(FreeDblock(d, b), dev, R \cup {b})
<1> DEFINE e == FreeDblock(d, b)
<1>1. /\ e \in Devices
      /\ e.pick = d.pick /\ e.inodes = d.inodes /\ e.latest = d.latest /\ e.cache = d.cache
      /\ e.removed = d.removed /\ e.strayed = d.strayed
      /\ e.free = d.free \cup {b} /\ e.misfreed = (d.misfreed \/ b \in d.free \/ d.free = {})
      /\ e.image[b] = EmptyImage /\ \A c \in Blocks : c # b => e.image[c] = d.image[c]
  BY FreeDblockGives DEF Freed
<1> HIDE DEF e
<1>2. e.free = dev.free \cup (R \cup {b})
  BY <1>1 DEF Freed
<1>3. \A c \in Blocks : e.image[c] = IF c \in R \cup {b} THEN EmptyImage ELSE dev.image[c]
  BY <1>1 DEF Freed
<1>4. ASSUME ~ e.misfreed
      PROVE  ~ dev.misfreed /\ (R \cup {b}) \cap dev.free = {}
  BY <1>1, <1>4 DEF Freed
<1> QED
  BY <1>1, <1>2, <1>3, <1>4 DEF Freed, e

BlocksOf(node) == {node.blocks[j] : j \in DOMAIN node.blocks}

\* d is what is left of dev when the inode x and its blocks R were freed.
FreeWays(d, dev, x, R) ==
    /\ R \in SUBSET Blocks
    /\ d \in Devices
    /\ d.pick = dev.pick /\ d.inodes = dev.inodes /\ d.latest = dev.latest /\ d.cache = dev.cache
    /\ d.removed = dev.removed \cup {x} /\ d.strayed = dev.strayed
    /\ d.free = dev.free \cup R
    /\ \A b \in Blocks : d.image[b] = IF b \in R THEN EmptyImage ELSE dev.image[b]
    /\ ~ d.misfreed =>
          /\ ~ dev.misfreed /\ R \cap dev.free = {}
          /\ \A i \in Inums \ (dev.removed \cup {x}) : \A b \in R : ~ Holds(dev.inodes[i], b)

(* The loop of free_inode, unrolled.                                       *)
LEMMA FreeInodeGives ==
    ASSUME NEW dev \in Devices, NEW x \in Inums
    PROVE  FreeWays(FreeInode(dev, x), dev, x, BlocksOf(dev.inodes[x]))
<1> DEFINE blocks == dev.inodes[x].blocks
           N == Len(blocks)
           R == BlocksOf(dev.inodes[x])
           others == UNION {UsedBy(dev, i) : i \in Inums \ (dev.removed \cup {x})}
           G == [y \in Devices \X (1 .. N) |-> FreeDblock(y[1], blocks[y[2]])]
           Is(f) == f = [n \in 0 .. N |-> IF n = 0 THEN dev ELSE FreeDblock(f[n - 1], blocks[n])]
           freed == CHOOSE f : Is(f)
           d == FreeInode(dev, x)
<1>1. /\ dev.inodes[x] \in InodeSet /\ N \in Nat /\ DOMAIN blocks = 1 .. N
      /\ \A j \in 1 .. N : blocks[j] \in Blocks
  BY InodeFacts DEF Devices
<1>2. G \in [Devices \X (1 .. N) -> Devices]
  <2>1. ASSUME NEW y \in Devices \X (1 .. N)
        PROVE  FreeDblock(y[1], blocks[y[2]]) \in Devices
    <3>1. y[1] \in Devices /\ blocks[y[2]] \in Blocks
      BY <1>1
    <3> QED
      BY <3>1, FreeDblockGives
  <2> QED
    BY <2>1
<1>3. PICK f : f \in [0 .. N -> Devices] /\ f[0] = dev /\ \A i \in 1 .. N : f[i] = G[<<f[i - 1], i>>]
  <2> HIDE DEF N, G
  <2>1. \E f : StepsOf(f, Devices, N, G, dev)
    BY <1>1, <1>2, Stepwise
  <2> QED
    BY <2>1 DEF StepsOf
<1>4. \A i \in 1 .. N : f[i] = FreeDblock(f[i - 1], blocks[i])
  <2> SUFFICES ASSUME NEW i \in 1 .. N
               PROVE  f[i] = FreeDblock(f[i - 1], blocks[i])
    OBVIOUS
  <2>1. i - 1 \in 0 .. N
    BY <1>1
  <2>2. <<f[i - 1], i>> \in Devices \X (1 .. N)
    BY <1>3, <2>1
  <2> HIDE DEF N, blocks
  <2> QED
    BY <1>3, <2>2
<1>5. Is(f)
  <2>1. f = [n \in 0 .. N |-> f[n]]
    BY <1>3
  <2>2. ASSUME NEW n \in 0 .. N
        PROVE  f[n] = IF n = 0 THEN dev ELSE FreeDblock(f[n - 1], blocks[n])
    <3>1. n = 0 \/ n \in 1 .. N
      BY <1>1
    <3> HIDE DEF N, G, blocks
    <3> QED
      BY <1>3, <1>4, <3>1
  <2> HIDE DEF N, blocks
  <2> QED
    BY <2>1, <2>2
<1>6. Is(freed)
  <2> HIDE DEF Is
  <2> QED
    BY <1>5
<1>7. d = [freed[N] EXCEPT !.removed = @ \cup {x}, !.misfreed = @ \/ \E j \in DOMAIN blocks : blocks[j] \in others]
  BY DEF FreeInode
<1> HIDE DEF freed
<1>8. freed[0] = dev /\ \A n \in 1 .. N : freed[n] = FreeDblock(freed[n - 1], blocks[n])
  <2> HIDE DEF N, blocks
  <2> QED
    BY <1>1, <1>6
<1> DEFINE Upto(n) == {blocks[j] : j \in 1 .. n}
           S == {n \in Nat : n <= N => Freed(freed[n], dev, Upto(n))}
<1>9. Nat \subseteq S
  <2>1. 0 \in S
    <3>1. Upto(0) = {}
      OBVIOUS
    <3>2. Freed(dev, dev, {})
      BY DEF Freed, Devices
    <3> QED
      BY <1>8, <3>1, <3>2
  <2>2. ASSUME NEW n \in Nat, n \in S
        PROVE  n + 1 \in S
    <3> SUFFICES ASSUME n + 1 <= N
                 PROVE  Freed(freed[n + 1], dev, Upto(n + 1))
      OBVIOUS
    <3>1. n + 1 \in 1 .. N /\ (n + 1) - 1 = n /\ Freed(freed[n], dev, Upto(n))
      BY <1>1, <2>2
    <3>2. Upto(n + 1) = Upto(n) \cup {blocks[n + 1]}
      <4>1. \A j : j \in 1 .. n + 1 <=> j \in 1 .. n \/ j = n + 1
        OBVIOUS
      <4> QED
        BY <4>1
    <3>3. blocks[n + 1] \in Blocks /\ freed[n + 1] = FreeDblock(freed[n], blocks[n + 1])
      BY <1>1, <1>8, <3>1
    <3> HIDE DEF Upto, blocks
    <3> QED
      BY <3>1, <3>2, <3>3, FreedMore
  <2> HIDE DEF S
  <2> QED
    BY <2>1, <2>2, SetInduction
<1>10. Freed(freed[N], dev, R)
  <2>1. Upto(N) = R
    BY <1>1 DEF BlocksOf
  <2>2. N \in S
    <3> HIDE DEF S, N
    <3> QED
      BY <1>1, <1>9
  <2> HIDE DEF N, R, Upto
  <2> QED
    BY <1>1, <2>1, <2>2
<1>11. R \in SUBSET Blocks
  BY <1>1 DEF BlocksOf
<1>12. ASSUME ~ \E j \in DOMAIN blocks : blocks[j] \in others
       PROVE  \A i \in Inums \ (dev.removed \cup {x}) : \A b \in R : ~ Holds(dev.inodes[i], b)
  <2> SUFFICES ASSUME NEW i \in Inums \ (dev.removed \cup {x}), NEW b \in R, Holds(dev.inodes[i], b)
               PROVE  FALSE
    OBVIOUS
  <2>1. dev.inodes[i] \in InodeSet
    BY DEF Devices
  <2>2. PICK j \in 1 .. dev.inodes[i].num_blocks : dev.inodes[i].blocks[j] = b
    BY DEF Holds
  <2>3. dev.inodes[i].kind = "dir"
    BY <2>1, <2>2, InodeFacts
  <2>4. b \in UsedBy(dev, i)
    BY <2>2, <2>3 DEF UsedBy
  <2>5. b \in others
    BY <2>4
  <2> QED
    BY <1>12, <2>5 DEF BlocksOf
<1> DEFINE m == freed[N].misfreed \/ \E j \in DOMAIN blocks : blocks[j] \in others
           r == dev.removed \cup {x}
<1>13. d = [freed[N] EXCEPT !.removed = r, !.misfreed = m]
  BY <1>7, <1>10 DEF Freed
<1>14. m \in BOOLEAN /\ r \in SUBSET Inums
  BY <1>10 DEF Freed, Devices
<1> DEFINE g == freed[N]
<1>15. ~ m => ~ g.misfreed /\ ~ \E j \in DOMAIN blocks : blocks[j] \in others
  OBVIOUS
<1> HIDE DEF m, r, d, R, g, others, blocks
<1>16. /\ d \in Devices
       /\ d.pick = g.pick /\ d.inodes = g.inodes /\ d.latest = g.latest /\ d.cache = g.cache
       /\ d.removed = r /\ d.strayed = g.strayed /\ d.free = g.free /\ d.image = g.image /\ d.misfreed = m
  BY <1>10, <1>13, <1>14 DEF Freed, Devices, g
<1>17. Freed(g, dev, R)
  BY <1>10 DEF g
<1> QED
  BY <1>11, <1>12, <1>15, <1>16, <1>17 DEF FreeWays, Freed, d, R, r

-----------------------------------------------------------------------------
(* Entries come and go                                                     *)

\* What is left alone by the operations on the records of one directory.
SameOtherwise(d, dev) ==
    /\ d.inodes = dev.inodes /\ d.latest = dev.latest /\ d.cache = dev.cache
    /\ d.removed = dev.removed /\ d.strayed = dev.strayed

AllUnder(dev, n) == \A b \in Blocks : Under(dev.image[b], n)

\* An entry was added, or there was no room for it.
EntryTypes(e, dev, node, inum, name) ==
    /\ e.ok \in BOOLEAN
    /\ e.node \in InodeSet /\ e.node.kind = node.kind
    /\ e.dev \in Devices /\ SameOtherwise(e.dev, dev) /\ e.dev.misfreed = dev.misfreed
    /\ Picked(dev) => Picked(e.dev)
    /\ \A n : inum < n /\ AllUnder(dev, n) => AllUnder(e.dev, n)

\* What add_new_entry leaves keeps its types.
LEMMA EntryTyped ==
    ASSUME NEW dev \in Devices, NEW node \in InodeSet, node.kind = "dir", NEW inum \in Inums, NEW name \in NameSet
    PROVE  EntryTypes(AddEntry(dev, node, inum, name), dev, node, inum, name)
<1> DEFINE e == AddEntry(dev, node, inum, name)
<1>1. \/ AddFails(e, dev, node)
      \/ AddSplits(e, dev, node, inum, name)
      \/ AddGrows(e, dev, node, inum, name)
  BY AddEntryGives
<1> HIDE DEF e
<1>2. CASE AddFails(e, dev, node)
  BY <1>2 DEF AddFails, EntryTypes, SameOtherwise, e
<1>3. CASE AddSplits(e, dev, node, inum, name)
  <2> DEFINE last == node.blocks[node.num_blocks]
             img == Split(dev.image[last], inum, name)
  <2>1. /\ e.ok /\ e.node = node /\ last \in Blocks /\ dev.image[last] \in BlockImages
        /\ Room(dev.image[last], name) # {} /\ e.dev = [dev EXCEPT !.image[last] = img] /\ e.dev \in Devices
    BY <1>3 DEF AddSplits
  <2>2. \A n : inum < n /\ Under(dev.image[last], n) => Under(img, n)
    BY <2>1, SplitUnder
  <2> HIDE DEF last, img
  <2>3. /\ SameOtherwise(e.dev, dev) /\ e.dev.misfreed = dev.misfreed
        /\ e.dev.pick = dev.pick /\ e.dev.free = dev.free
        /\ e.dev.image[last] = img /\ \A b \in Blocks : b # last => e.dev.image[b] = dev.image[b]
    BY <2>1 DEF SameOtherwise, Devices
  <2>4. \A n : inum < n /\ AllUnder(dev, n) => AllUnder(e.dev, n)
    BY <2>1, <2>2, <2>3 DEF AllUnder
  <2>5. Picked(dev) => Picked(e.dev)
    BY <2>3 DEF Picked
  <2> QED
    BY <2>1, <2>3, <2>4, <2>5 DEF EntryTypes, e
<1>4. CASE AddGrows(e, dev, node, inum, name)
  <2> DEFINE b == Head(dev.pick)
             img == Lone(inum, name)
             rest == Tail(dev.pick)
  <2>1. /\ e.ok /\ e.node \in InodeSet /\ e.node.kind = node.kind /\ b \in Blocks /\ dev.pick # <<>>
        /\ e.dev = [dev EXCEPT !.image[b] = img, !.free = @ \ {b}, !.pick = rest] /\ e.dev \in Devices
    BY <1>4 DEF AddGrows
  <2>2. \A n : inum < n => Under(img, n)
    BY LoneUnder
  <2>3. /\ dev.pick \in Seq(Blocks) /\ Len(dev.pick) \in Nat /\ Len(dev.pick) >= 1 /\ b = dev.pick[1]
        /\ DOMAIN dev.pick = 1 .. Len(dev.pick)
    BY <2>1 DEF Devices
  <2>4. /\ rest \in Seq(Blocks) /\ DOMAIN rest = 1 .. Len(dev.pick) - 1
        /\ \A j \in 1 .. Len(dev.pick) - 1 : rest[j] = dev.pick[j + 1]
    BY <2>1, <2>3
  <2> HIDE DEF b, img, rest
  <2>5. /\ SameOtherwise(e.dev, dev) /\ e.dev.misfreed = dev.misfreed
        /\ e.dev.pick = rest /\ e.dev.free = dev.free \ {b}
        /\ e.dev.image[b] = img /\ \A c \in Blocks : c # b => e.dev.image[c] = dev.image[c]
    BY <2>1 DEF SameOtherwise, Devices
  <2>6. \A n : inum < n /\ AllUnder(dev, n) => AllUnder(e.dev, n)
    BY <2>1, <2>2, <2>5 DEF AllUnder
  <2>7. ASSUME Picked(dev)
        PROVE  Picked(e.dev)
    <3>1. ASSUME NEW j \in DOMAIN rest
          PROVE  /\ j + 1 \in DOMAIN dev.pick /\ 1 \in DOMAIN dev.pick /\ j + 1 # 1
                 /\ rest[j] = dev.pick[j + 1]
      BY <2>3, <2>4
    <3>2. ASSUME NEW j \in DOMAIN rest
          PROVE  rest[j] \in dev.free \ {b}
      BY <2>3, <2>7, <3>1 DEF Picked
    <3>3. ASSUME NEW j \in DOMAIN rest, NEW k \in DOMAIN rest, rest[j] = rest[k]
          PROVE  j = k
      <4>1. j + 1 = k + 1 /\ j \in Int /\ k \in Int
        BY <2>3, <2>4, <2>7, <3>1, <3>3 DEF Picked
      <4> QED
        BY <4>1
    <3> QED
      BY <2>5, <3>2, <3>3 DEF Picked
  <2> QED
    BY <2>1, <2>5, <2>6, <2>7 DEF EntryTypes, e
<1> QED
  BY <1>1, <1>2, <1>3, <1>4

\* Only free blocks and those of d were written.
WrittenIn(dev2, dev, d) ==
    \A b \in Blocks : dev2.image[b] # dev.image[b] => b \in dev.free \/ Holds(dev.inodes[d], b)

\* In dev2 the directory d has one name more than in dev, ...
NameGained(dev2, dev, d, name, inum) ==
    \A nm, i : Holding(Images(dev2, dev2.inodes[d]), dev2.inodes[d].num_blocks, nm, i)
                  <=> \/ Holding(Images(dev, dev.inodes[d]), dev.inodes[d].num_blocks, nm, i)
                      \/ nm = name /\ i = inum

\* ... or one less.
NameLost(dev2, dev, d, name) ==
    \A nm, i : Holding(Images(dev2, dev2.inodes[d]), dev2.inodes[d].num_blocks, nm, i)
                  <=> Holding(Images(dev, dev.inodes[d]), dev.inodes[d].num_blocks, nm, i) /\ nm # name

(* The inode of the directory that got an entry may be written: it is a    *)
(* directory still, with a name more.                                      *)
LEMMA EntryAdded ==
    ASSUME NEW dev \in Devices, Sane(dev), Picked(dev), NEW d \in Live(dev), NEW inum \in Inums, NEW name \in NameSet,
           ~ HasName(Images(dev, dev.inodes[d]), dev.inodes[d].num_blocks, name),
           NEW e, e = AddEntry(dev, dev.inodes[d], inum, name), e.ok,
           NEW dev2 \in Devices, dev2.image = e.dev.image, dev2.free = e.dev.free, dev2.removed = dev.removed,
           dev2.inodes[d] = e.node, \A i \in Inums \ {d} : SameBlocks(dev2.inodes[i], dev.inodes[i])
    PROVE  Sane(dev2) /\ NameGained(dev2, dev, d, name, inum) /\ WrittenIn(dev2, dev, d)
<1> DEFINE node == dev.inodes[d]
           n == node.num_blocks
           imgs == Images(dev, node)
           imgs2 == Images(dev2, e.node)
<1>1. d \in Inums \ dev.removed /\ node \in InodeSet /\ node.kind = "dir"
  BY DEF Live, Devices
<1>2. Directory(imgs, n) /\ Distinct(node)
  BY DEF Sane
<1>3. n \in Nat /\ n >= 1 /\ n \in 1 .. n
  BY <1>2 DEF Directory
<1>4. imgs \in [1 .. n -> BlockImages] /\ \A i \in 1 .. n : imgs[i] = dev.image[node.blocks[i]]
  BY <1>1, ImagesFacts
<1>5. \A i \in 1 .. n : node.blocks[i] \in Blocks
  BY <1>1, InodeFacts
<1>6. EntryTypes(e, dev, node, inum, name)
  BY <1>1, EntryTyped
<1>7. e.node \in InodeSet /\ e.node.kind = "dir" /\ e.dev \in Devices
  BY <1>1, <1>6 DEF EntryTypes
<1>8. imgs2 \in [1 .. e.node.num_blocks -> BlockImages]
      /\ \A i \in 1 .. e.node.num_blocks : imgs2[i] = dev2.image[e.node.blocks[i]]
  BY <1>7, ImagesFacts
<1>9. \/ AddSplits(e, dev, node, inum, name)
      \/ AddGrows(e, dev, node, inum, name)
  BY <1>1, AddEntryGives DEF AddFails
<1> HIDE DEF n, node, imgs, imgs2
<1>10. CASE AddSplits(e, dev, node, inum, name)
  <2> DEFINE last == node.blocks[n]
             img == Split(dev.image[last], inum, name)
  <2>1. /\ e.node = node /\ last \in Blocks /\ Room(dev.image[last], name) # {}
        /\ e.dev = [dev EXCEPT !.image[last] = img]
    BY <1>10 DEF AddSplits, n
  <2> HIDE DEF img
  <2>2. /\ dev2.image[last] = img /\ \A b \in Blocks : b # last => dev2.image[b] = dev.image[b]
        /\ dev2.free = dev.free
    BY <2>1 DEF Devices
  <2>3. imgs2 = [imgs EXCEPT ![n] = img]
    <3>1. imgs2 \in [1 .. n -> BlockImages] /\ \A i \in 1 .. n : imgs2[i] = dev2.image[node.blocks[i]]
      BY <1>8, <2>1 DEF n
    <3>2. \A i \in 1 .. n : i # n => node.blocks[i] # last
      BY <1>2, <1>3 DEF Distinct, n
    <3>3. \A i \in 1 .. n : imgs2[i] = IF i = n THEN img ELSE imgs[i]
      BY <1>3, <1>4, <1>5, <2>2, <3>1, <3>2
    <3> HIDE DEF last
    <3> QED
      BY <1>4, <3>1, <3>3
  <2>4. Directory(imgs2, n)
    <3>1. imgs[n] = dev.image[last]
      BY <1>3, <1>4
    <3>2. Directory([imgs EXCEPT ![n] = Split(imgs[n], inum, name)], n)
      BY <1>2, <2>1, <3>1, NameAdded DEF imgs, n, node
    <3> QED
      BY <2>3, <3>1, <3>2 DEF img
  <2>5. Holds(node, last)
    BY <1>3 DEF Holds, n
  <2>6. \A b \in Blocks : b \in dev.free => ~ Holds(node, b)
    BY DEF Sane, node
  <2>7. /\ dev2.inodes[d].kind = "dir" /\ Distinct(dev2.inodes[d])
        /\ Directory(Images(dev2, dev2.inodes[d]), dev2.inodes[d].num_blocks)
    BY <1>1, <1>2, <2>1, <2>4 DEF imgs2, n
  <2> QED
    <3>1. \A b \in Blocks : /\ Holds(dev2.inodes[d], b) <=> Holds(dev.inodes[d], b)
                            /\ b \in dev2.free <=> b \in dev.free
                            /\ b \in dev.free => ~ Holds(dev.inodes[d], b)
                            /\ dev2.image[b] # dev.image[b] => Holds(dev.inodes[d], b)
      BY <2>1, <2>2, <2>5, <2>6 DEF node
    <3>2. Sane(dev2)
      BY <1>1, <2>7, <3>1, DirectoryChanged
    <3>3. imgs2 = [imgs EXCEPT ![n] = Split(imgs[n], inum, name)] /\ Room(imgs[n], name) # {}
      BY <1>3, <1>4, <2>1, <2>3 DEF img
    <3>4. \A nm, i : Holding(imgs2, n, nm, i) <=> Holding(imgs, n, nm, i) \/ (nm = name /\ i = inum)
      BY <1>2, <3>3, HeldAdded
    <3>5. imgs2 = Images(dev2, dev2.inodes[d]) /\ n = dev2.inodes[d].num_blocks
      BY <2>1 DEF imgs2, n
    <3>6. WrittenIn(dev2, dev, d)
      BY <3>1 DEF WrittenIn
    <3> QED
      BY <3>2, <3>4, <3>5, <3>6 DEF imgs, n, node, NameGained
<1>11. CASE AddGrows(e, dev, node, inum, name)
  <2> DEFINE b == Head(dev.pick)
             img == Lone(inum, name)
  <2>1. /\ b \in Blocks /\ e.node.num_blocks = n + 1 /\ dev.pick # <<>>
        /\ e.node.blocks[n + 1] = b /\ \A j \in 1 .. n : e.node.blocks[j] = node.blocks[j]
        /\ e.dev = [dev EXCEPT !.image[b] = img, !.free = @ \ {b}, !.pick = Tail(@)]
    BY <1>11 DEF AddGrows, n
  <2>2. b \in dev.free
    <3>1. dev.pick \in Seq(Blocks) /\ 1 \in DOMAIN dev.pick /\ b = dev.pick[1]
      BY <2>1 DEF Devices
    <3> QED
      BY <3>1 DEF Picked
  <2> HIDE DEF img, b
  <2>3. /\ dev2.image[b] = img /\ \A c \in Blocks : c # b => dev2.image[c] = dev.image[c]
        /\ dev2.free = dev.free \ {b}
    BY <2>1 DEF Devices
  <2>4. \A c \in Blocks : c \in dev.free => ~ Holds(node, c)
    BY DEF Sane, node
  <2>5. \A i \in 1 .. n : node.blocks[i] # b
    BY <2>1, <2>2, <2>4 DEF Holds, n
  <2>6. imgs2 = [i \in 1 .. n + 1 |-> IF i = n + 1 THEN img ELSE imgs[i]]
    <3>1. imgs2 \in [1 .. n + 1 -> BlockImages] /\ \A i \in 1 .. n + 1 : imgs2[i] = dev2.image[e.node.blocks[i]]
      BY <1>8, <2>1
    <3>2. \A i \in 1 .. n + 1 : i # n + 1 => i \in 1 .. n
      BY <1>3
    <3>3. \A i \in 1 .. n + 1 : imgs2[i] = IF i = n + 1 THEN img ELSE imgs[i]
      BY <1>4, <1>5, <2>1, <2>3, <2>5, <3>1, <3>2
    <3> QED
      BY <3>1, <3>3
  <2>7. Directory(imgs2, n + 1)
    <3>1. Directory([i \in 1 .. n + 1 |-> IF i = n + 1 THEN Lone(inum, name) ELSE imgs[i]], n + 1)
      BY <1>2, BlockAdded DEF imgs, n, node
    <3> QED
      BY <2>6, <3>1 DEF img
  <2>8. Distinct(e.node)
    <3>1. ASSUME NEW j \in 1 .. n + 1, NEW k \in 1 .. n + 1, e.node.blocks[j] = e.node.blocks[k]
          PROVE  j = k
      <4>1. (j \in 1 .. n \/ j = n + 1) /\ (k \in 1 .. n \/ k = n + 1)
        BY <1>3
      <4>2. \A i, m \in 1 .. n : node.blocks[i] = node.blocks[m] => i = m
        BY <1>2 DEF Distinct, n
      <4> QED
        BY <2>1, <2>5, <3>1, <4>1, <4>2
    <3> QED
      BY <2>1, <3>1 DEF Distinct
  <2>9. \A c \in Blocks : Holds(e.node, c) <=> Holds(node, c) \/ c = b
    <3>1. \A j \in 1 .. n + 1 : j \in 1 .. n \/ j = n + 1
      BY <1>3
    <3>2. n + 1 \in 1 .. n + 1 /\ \A j \in 1 .. n : j \in 1 .. n + 1
      BY <1>3
    <3>3. ASSUME NEW c \in Blocks
          PROVE  /\ Holds(e.node, c) <=> \E j \in 1 .. n + 1 : e.node.blocks[j] = c
                 /\ Holds(node, c) <=> \E j \in 1 .. n : node.blocks[j] = c
      BY <2>1 DEF Holds, n
    <3> HIDE DEF n
    <3> QED
      BY <2>1, <3>1, <3>2, <3>3
  <2>10. /\ dev2.inodes[d].kind = "dir" /\ Distinct(dev2.inodes[d])
         /\ Directory(Images(dev2, dev2.inodes[d]), dev2.inodes[d].num_blocks)
    BY <1>7, <2>1, <2>7, <2>8 DEF imgs2
  <2> QED
    <3>1. \A c \in Blocks : /\ Holds(dev2.inodes[d], c) <=> Holds(dev.inodes[d], c) \/ c = b
                            /\ c \in dev2.free <=> c \in dev.free /\ c # b
                            /\ c \in dev.free => ~ Holds(dev.inodes[d], c)
                            /\ dev2.image[c] # dev.image[c] => c = b
      BY <2>3, <2>4, <2>9 DEF node
    <3>2. Sane(dev2)
      BY <1>1, <2>2, <2>10, <3>1, DirectoryChanged
    <3>3. \A nm, i : Holding(imgs2, n + 1, nm, i) <=> Holding(imgs, n, nm, i) \/ (nm = name /\ i = inum)
      BY <1>2, <2>6, HeldGrown DEF img
    <3>4. imgs2 = Images(dev2, dev2.inodes[d]) /\ n + 1 = dev2.inodes[d].num_blocks
      BY <2>1 DEF imgs2
    <3>5. WrittenIn(dev2, dev, d)
      BY <2>2, <3>1 DEF WrittenIn
    <3> QED
      BY <3>2, <3>3, <3>4, <3>5 DEF imgs, n, node, NameGained
<1> QED
  BY <1>9, <1>10, <1>11

\* The ways the removal of an entry goes.
Dropped(node, i) == [node EXCEPT !.blocks[i] = node.blocks[node.num_blocks], !.num_blocks = @ - 1]

RemoveWays(w, dev, node, at) ==
    LET b == node.blocks[at.block]
        img == dev.image[b]
    IN  \/ /\ at.prev # -1 /\ w.node = node
           /\ w.dev = [dev EXCEPT !.image[b] = Merge(img, at.pos, at.prev)]
        \/ /\ at.prev = -1 /\ img[at.pos].len # BLOCK_SIZE /\ w.node = node
           /\ w.dev = [dev EXCEPT !.image[b] = MoveUp(img)]
        \/ /\ at.prev = -1 /\ img[at.pos].len = BLOCK_SIZE
           /\ w.node = Dropped(node, at.block) /\ w.dev = FreeDblock(dev, b)

\* custom_unlink merges the record, moves the second one up, or drops the block.
LEMMA RemoveGives ==
    ASSUME NEW dev, NEW node, NEW at
    PROVE  RemoveWays(RemoveEntry(dev, node, at), dev, node, at)
<1> DEFINE b == node.blocks[at.block]
<1>1. CASE at.prev # -1
  BY <1>1 DEF RemoveWays, RemoveEntry
<1>2. CASE at.prev = -1 /\ dev.image[b][at.pos].len # BLOCK_SIZE
  BY <1>2 DEF RemoveWays, RemoveEntry
<1>3. CASE at.prev = -1 /\ ~ dev.image[b][at.pos].len # BLOCK_SIZE
  BY <1>3 DEF RemoveWays, RemoveEntry, DropBlock, Dropped
<1> QED
  BY <1>1, <1>2, <1>3

\* An entry was removed from node.
RemoveTypes(w, dev, node) ==
    /\ w.node \in InodeSet /\ w.node.kind = node.kind
    /\ w.dev \in Devices /\ SameOtherwise(w.dev, dev)
    /\ \A n : AllUnder(dev, n) => AllUnder(w.dev, n)
    /\ \A b : Holds(w.node, b) => Holds(node, b)

\* A directory that dropped a block has the last one in its place and holds no other.
LEMMA DroppedFacts ==
    ASSUME NEW node \in InodeSet, NEW i \in 1 .. node.num_blocks
    PROVE  LET new == Dropped(node, i)
           IN  /\ new \in InodeSet /\ new.kind = node.kind /\ new.num_blocks = node.num_blocks - 1
               /\ \A k \in 1 .. node.num_blocks - 1 :
                     new.blocks[k] = IF k = i THEN node.blocks[node.num_blocks] ELSE node.blocks[k]
               /\ \A b : Holds(new, b) => Holds(node, b)
<1> DEFINE n == node.num_blocks
           last == node.blocks[n]
           blocks == [node.blocks EXCEPT ![i] = last]
           new == Dropped(node, i)
<1>1. /\ node.blocks \in Seq(Blocks) /\ Len(node.blocks) \in Nat /\ DOMAIN node.blocks = 1 .. Len(node.blocks)
      /\ n \in Nat /\ n <= Len(node.blocks) /\ n \in 1 .. n /\ n - 1 \in Nat
      /\ \A j \in 1 .. n : j \in 1 .. Len(node.blocks) /\ node.blocks[j] \in Blocks
      /\ node.kind # "dir" => node.num_blocks = 0
  BY InodeFacts
<1>2. last \in Blocks /\ i \in 1 .. Len(node.blocks) /\ node.kind = "dir"
  BY <1>1
<1> HIDE DEF n, last
<1>3. /\ blocks \in Seq(Blocks) /\ Len(blocks) = Len(node.blocks)
      /\ \A k \in 1 .. Len(node.blocks) : blocks[k] = IF k = i THEN last ELSE node.blocks[k]
  BY <1>1, <1>2
<1>4. new = [node EXCEPT !.blocks = blocks, !.num_blocks = n - 1]
  <2>1. node \in [kind : {"none", "file", "dir"}, links : Links, blocks : Seq(Blocks), num_blocks : Nat]
    BY DEF InodeSet
  <2> HIDE DEF new
  <2> QED
    BY <2>1 DEF Dropped, last, n, new
<1> HIDE DEF blocks, new
<1>5. /\ new \in [kind : {"none", "file", "dir"}, links : Links, blocks : Seq(Blocks), num_blocks : Nat]
      /\ new.kind = node.kind /\ new.blocks = blocks /\ new.num_blocks = n - 1
  BY <1>1, <1>3, <1>4 DEF InodeSet
<1>6. new \in InodeSet
  BY <1>1, <1>2, <1>3, <1>5 DEF InodeSet
<1>7. \A k \in 1 .. n - 1 : k \in 1 .. n /\ k \in 1 .. Len(node.blocks)
  BY <1>1
<1>8. ASSUME NEW b, Holds(new, b)
      PROVE  Holds(node, b)
  <2>1. PICK k \in 1 .. n - 1 : blocks[k] = b
    BY <1>5, <1>8 DEF Holds
  <2>2. node.blocks[k] = b \/ node.blocks[n] = b
    BY <1>3, <1>7, <2>1 DEF last
  <2> QED
    BY <1>1, <1>7, <2>1, <2>2 DEF Holds, n
<1> QED
  BY <1>3, <1>5, <1>6, <1>7, <1>8 DEF n, last, new

\* Where the record is that was found.
FoundIn(dev, node, at) ==
    LET b == node.blocks[at.block]
        img == dev.image[b]
    IN  /\ at.block \in 1 .. node.num_blocks /\ b \in Blocks
        /\ img \in BlockImages /\ DOMAIN img # {} /\ at.pos \in Reached(img)
        /\ at.prev = -1 => at.pos = 0
        /\ at.prev # -1 => at.prev \in Reached(img) /\ at.prev + img[at.prev].len = at.pos
        /\ Images(dev, node)[at.block] = img

\* A name that is found is in one of the blocks of the directory, at a position a search reaches.
LEMMA FoundWhere ==
    ASSUME NEW dev \in Devices, NEW node \in InodeSet, NEW name, NEW at, IsFound(Images(dev, node), name, at)
    PROVE  FoundIn(dev, node, at)
<1> DEFINE imgs == Images(dev, node)
<1>1. /\ imgs \in [1 .. node.num_blocks -> BlockImages]
      /\ \A i \in 1 .. node.num_blocks : imgs[i] = dev.image[node.blocks[i]]
  BY ImagesFacts
<1> HIDE DEF imgs
<1>2. IsFound(imgs, name, at)
  BY DEF imgs
<1>3. at.block \in 1 .. node.num_blocks
  BY <1>1, <1>2 DEF IsFound
<1>4. node.blocks[at.block] \in Blocks
  BY <1>3, InodeFacts
<1>5. imgs[at.block] = dev.image[node.blocks[at.block]]
  BY <1>1, <1>3
<1>6. dev.image[node.blocks[at.block]] \in BlockImages
  BY <1>4 DEF Devices
<1> DEFINE img == dev.image[node.blocks[at.block]]
<1>7. imgs[at.block] = img
  BY <1>5
<1> HIDE DEF img
<1>8. /\ DOMAIN img # {} /\ at.pos \in Reached(img)
      /\ at.prev = -1 => at.pos = 0
      /\ at.prev # -1 => at.prev \in Reached(img) /\ at.prev + img[at.prev].len = at.pos
  BY <1>2, <1>7 DEF IsFound
<1> QED
  BY <1>3, <1>4, <1>5, <1>6, <1>8 DEF FoundIn, imgs, img

\* What the removal of a record leaves keeps its types.
LEMMA RemovalTyped ==
    ASSUME NEW dev \in Devices, NEW node \in InodeSet, NEW name, NEW at, IsFound(Images(dev, node), name, at)
    PROVE  RemoveTypes(RemoveEntry(dev, node, at), dev, node)
<1> DEFINE w == RemoveEntry(dev, node, at)
           b == node.blocks[at.block]
           img == dev.image[b]
<1>1. RemoveWays(w, dev, node, at)
  BY RemoveGives
<1> HIDE DEF w, b, img
<1>2. /\ at.block \in 1 .. node.num_blocks /\ b \in Blocks
      /\ img \in BlockImages /\ DOMAIN img # {} /\ at.pos \in Reached(img)
      /\ at.prev = -1 => at.pos = 0
      /\ at.prev # -1 => at.prev \in Reached(img) /\ at.prev + img[at.prev].len = at.pos
  BY FoundWhere DEF FoundIn, b, img
<1>3. ASSUME NEW new \in BlockImages, w.dev = [dev EXCEPT !.image[b] = new], w.node = node,
             \A n : Under(img, n) => Under(new, n)
      PROVE  RemoveTypes(w, dev, node)
  <2>1. /\ w.dev \in Devices /\ SameOtherwise(w.dev, dev)
        /\ w.dev.image[b] = new /\ \A c \in Blocks : c # b => w.dev.image[c] = dev.image[c]
    <3> DEFINE d == [dev EXCEPT !.image[b] = new]
    <3>1. d \in Devices
      BY <1>2, <1>3 DEF Devices
    <3>2. d.image[b] = new /\ \A c \in Blocks : c # b => d.image[c] = dev.image[c]
      BY <1>2 DEF Devices
    <3>3. SameOtherwise(d, dev)
      BY DEF SameOtherwise, Devices
    <3> HIDE DEF d
    <3> QED
      BY <1>3, <3>1, <3>2, <3>3 DEF d
  <2>2. \A n : AllUnder(dev, n) => AllUnder(w.dev, n)
    BY <1>2, <1>3, <2>1 DEF AllUnder, img
  <2> QED
    BY <1>3, <2>1, <2>2 DEF RemoveTypes
<1>4. CASE at.prev # -1
  <2> DEFINE new == Merge(img, at.pos, at.prev)
  <2>1. new \in BlockImages
    BY <1>2, <1>4, MergeGives
  <2>2. \A n : Under(img, n) => Under(new, n)
    BY <1>2, <1>4, MergeUnder
  <2>3. w.dev = [dev EXCEPT !.image[b] = new] /\ w.node = node
    BY <1>1, <1>4 DEF RemoveWays, b, img
  <2> HIDE DEF new
  <2> QED
    BY <1>3, <2>1, <2>2, <2>3 DEF w
<1>5. CASE at.prev = -1 /\ img[at.pos].len # BLOCK_SIZE /\ w.dev = [dev EXCEPT !.image[b] = MoveUp(img)] /\ w.node = node
  <2> DEFINE new == MoveUp(img)
  <2>1. new \in BlockImages
    BY <1>2, <1>5, MoveUpGives
  <2>2. \A n : Under(img, n) => Under(new, n)
    BY <1>2, <1>5, MoveUpUnder
  <2> HIDE DEF new
  <2> QED
    BY <1>3, <1>5, <2>1, <2>2 DEF new, w
<1>6. CASE at.prev = -1 /\ w.node = Dropped(node, at.block) /\ w.dev = FreeDblock(dev, b)
  <2>1. w.node \in InodeSet /\ w.node.kind = node.kind /\ \A c : Holds(w.node, c) => Holds(node, c)
    BY <1>2, <1>6, DroppedFacts
  <2>2. /\ w.dev \in Devices /\ SameOtherwise(w.dev, dev)
        /\ w.dev.image[b] = EmptyImage /\ \A c \in Blocks : c # b => w.dev.image[c] = dev.image[c]
    BY <1>2, <1>6, FreeDblockGives DEF SameOtherwise
  <2>3. \A n : AllUnder(dev, n) => AllUnder(w.dev, n)
    BY <2>2, EmptyUnder DEF AllUnder
  <2> QED
    BY <2>1, <2>2, <2>3 DEF RemoveTypes, w
<1>7. \/ at.prev # -1
      \/ at.prev = -1 /\ img[at.pos].len # BLOCK_SIZE /\ w.dev = [dev EXCEPT !.image[b] = MoveUp(img)] /\ w.node = node
      \/ at.prev = -1 /\ w.node = Dropped(node, at.block) /\ w.dev = FreeDblock(dev, b)
  BY <1>1 DEF RemoveWays, b, img
<1> QED
  BY <1>4, <1>5, <1>6, <1>7 DEF w

(* The inode of the directory that lost an entry may be written.           *)
LEMMA EntryRemoved ==
    ASSUME NEW dev \in Devices, Sane(dev), NEW d \in Live(dev), NEW name, name \notin {".", ".."},
           NEW at, IsFound(Images(dev, dev.inodes[d]), name, at),
           NEW w, w = RemoveEntry(dev, dev.inodes[d], at),
           NEW dev2 \in Devices, dev2.image = w.dev.image, dev2.free = w.dev.free, dev2.removed = dev.removed,
           dev2.inodes[d] = w.node, \A i \in Inums \ {d} : SameBlocks(dev2.inodes[i], dev.inodes[i])
    PROVE  Sane(dev2) /\ NameLost(dev2, dev, d, name) /\ WrittenIn(dev2, dev, d)
<1> DEFINE node == dev.inodes[d]
           n == node.num_blocks
           imgs == Images(dev, node)
           imgs2 == Images(dev2, w.node)
           i == at.block
           b == node.blocks[i]
           img == dev.image[b]
<1>1. d \in Inums \ dev.removed /\ node \in InodeSet /\ node.kind = "dir"
  BY DEF Live, Devices
<1>2. Directory(imgs, n) /\ Distinct(node)
  BY DEF Sane
<1>3. n \in Nat /\ n >= 1 /\ n \in 1 .. n
  BY <1>2 DEF Directory
<1>4. imgs \in [1 .. n -> BlockImages] /\ \A k \in 1 .. n : imgs[k] = dev.image[node.blocks[k]]
  BY <1>1, ImagesFacts
<1>5. \A k \in 1 .. n : node.blocks[k] \in Blocks
  BY <1>1, InodeFacts
<1>6. RemoveTypes(w, dev, node) /\ RemoveWays(w, dev, node, at)
  BY <1>1, RemovalTyped, RemoveGives
<1>7. w.node \in InodeSet /\ w.node.kind = "dir" /\ w.dev \in Devices
  BY <1>1, <1>6 DEF RemoveTypes
<1>8. imgs2 \in [1 .. w.node.num_blocks -> BlockImages]
      /\ \A k \in 1 .. w.node.num_blocks : imgs2[k] = dev2.image[w.node.blocks[k]]
  BY <1>7, ImagesFacts
<1>9. i \in 1 .. n /\ b \in Blocks /\ imgs[i] = img
  BY <1>1, FoundWhere DEF FoundIn
<1> HIDE DEF n, node, imgs, imgs2, b, img, i
<1>10. Holds(node, b)
  BY <1>9 DEF Holds, n, b
<1>11. \A c \in Blocks : c \in dev.free => ~ Holds(node, c)
  BY DEF Sane, node
<1>12. \A k \in 1 .. n : k # i => node.blocks[k] # b
  BY <1>2, <1>9 DEF Distinct, n, b
<1>13. IsFound(imgs, name, at)
  BY DEF imgs, node
<1> DEFINE Goal == /\ Sane(dev2) /\ WrittenIn(dev2, dev, d)
                   /\ \A nm, inum : Holding(Images(dev2, dev2.inodes[d]), dev2.inodes[d].num_blocks, nm, inum)
                                      <=> Holding(imgs, n, nm, inum) /\ nm # name
<1> SUFFICES Goal
  BY DEF imgs, n, node, NameLost
<1> HIDE DEF Goal
<1>14. ASSUME NEW new, w.node = node, w.dev = [dev EXCEPT !.image[b] = new],
              NEW now, now = [imgs EXCEPT ![i] = new], Directory(now, n),
              \A nm, inum : Holding(now, n, nm, inum) <=> Holding(imgs, n, nm, inum) /\ nm # name
       PROVE  Goal
  <2>1. /\ dev2.image[b] = new /\ \A c \in Blocks : c # b => dev2.image[c] = dev.image[c]
        /\ dev2.free = dev.free
    BY <1>9, <1>14 DEF Devices
  <2>2. imgs2 = now
    <3>1. imgs2 \in [1 .. n -> BlockImages] /\ \A k \in 1 .. n : imgs2[k] = dev2.image[node.blocks[k]]
      BY <1>8, <1>14 DEF n
    <3>2. \A k \in 1 .. n : imgs2[k] = IF k = i THEN new ELSE imgs[k]
      BY <1>4, <1>5, <1>12, <2>1, <3>1 DEF b
    <3> QED
      BY <1>4, <1>14, <3>1, <3>2
  <2>3. /\ dev2.inodes[d].kind = "dir" /\ Distinct(dev2.inodes[d])
        /\ Directory(Images(dev2, dev2.inodes[d]), dev2.inodes[d].num_blocks)
    BY <1>2, <1>7, <1>14, <2>2 DEF imgs2, n
  <2>4. \A c \in Blocks : /\ Holds(dev2.inodes[d], c) <=> Holds(dev.inodes[d], c)
                          /\ c \in dev2.free <=> c \in dev.free
                          /\ c \in dev.free => ~ Holds(dev.inodes[d], c)
                          /\ dev2.image[c] # dev.image[c] => Holds(dev.inodes[d], c)
    BY <1>10, <1>11, <1>14, <2>1 DEF node
  <2>5. Sane(dev2)
    BY <1>1, <2>3, <2>4, DirectoryChanged
  <2>6. imgs2 = Images(dev2, dev2.inodes[d]) /\ n = dev2.inodes[d].num_blocks
    BY <1>14 DEF imgs2, n
  <2>7. \A nm, inum : Holding(imgs2, n, nm, inum) <=> Holding(imgs, n, nm, inum) /\ nm # name
    BY <1>14, <2>2
  <2>8. WrittenIn(dev2, dev, d)
    BY <2>4 DEF WrittenIn
  <2> QED
    BY <2>5, <2>6, <2>7, <2>8 DEF Goal
<1>15. CASE at.prev # -1
  <2>1. w.node = node /\ w.dev = [dev EXCEPT !.image[b] = Merge(img, at.pos, at.prev)]
    BY <1>6, <1>15 DEF RemoveWays, b, img, i
  <2>2. PICK now : now = [imgs EXCEPT ![at.block] = Merge(imgs[at.block], at.pos, at.prev)]
    OBVIOUS
  <2>3. Directory(now, n)
    BY <1>2, <1>13, <1>15, <2>2, NameMerged
  <2>4. \A nm, inum : Holding(now, n, nm, inum) <=> Holding(imgs, n, nm, inum) /\ nm # name
    BY <1>2, <1>13, <1>15, <2>2, HeldMerged
  <2>5. now = [imgs EXCEPT ![i] = Merge(img, at.pos, at.prev)]
    BY <1>9, <2>2 DEF i
  <2> QED
    BY <1>14, <2>1, <2>3, <2>4, <2>5
<1>16. CASE at.prev = -1 /\ img[at.pos].len # BLOCK_SIZE /\ w.node = node /\ w.dev = [dev EXCEPT !.image[b] = MoveUp(img)]
  <2>1. PICK now : now = [imgs EXCEPT ![at.block] = MoveUp(imgs[at.block])]
    OBVIOUS
  <2>2. Directory(now, n)
    BY <1>2, <1>9, <1>13, <1>16, <2>1, NameMovedOver DEF i
  <2>3. \A nm, inum : Holding(now, n, nm, inum) <=> Holding(imgs, n, nm, inum) /\ nm # name
    <3>1. imgs[at.block][at.pos].len # BLOCK_SIZE /\ at.prev = -1
      BY <1>9, <1>16 DEF i
    <3>2. ASSUME NEW nm, NEW inum
          PROVE  Holding(now, n, nm, inum) <=> Holding(imgs, n, nm, inum) /\ nm # name
      BY <1>2, <1>13, <2>1, <3>1, HeldMovedOver
    <3> QED
      BY <3>2
  <2>4. now = [imgs EXCEPT ![i] = MoveUp(img)]
    BY <1>9, <2>1 DEF i
  <2> QED
    BY <1>14, <1>16, <2>2, <2>3, <2>4
<1>17. CASE at.prev = -1 /\ img[at.pos].len = BLOCK_SIZE /\ w.node = Dropped(node, i) /\ w.dev = FreeDblock(dev, b)
  <2>1. n > 1 /\ Directory([k \in 1 .. n - 1 |-> IF k = i THEN imgs[n] ELSE imgs[k]], n - 1)
    BY <1>2, <1>13, <1>17, NameDropped DEF i
  <2>2. /\ w.node.num_blocks = n - 1 /\ n - 1 \in Nat
        /\ \A k \in 1 .. n - 1 : w.node.blocks[k] = IF k = i THEN node.blocks[n] ELSE node.blocks[k]
    BY <1>1, <1>3, <1>9, <1>17, DroppedFacts DEF n
  <2>3. /\ w.dev.free = dev.free \cup {b} /\ w.dev.image[b] = EmptyImage
        /\ \A c \in Blocks : c # b => w.dev.image[c] = dev.image[c]
    BY <1>9, <1>17, FreeDblockGives
  <2>4. \A k \in 1 .. n - 1 : k \in 1 .. n /\ k # n
    BY <1>3
  <2>5. \A k \in 1 .. n : k # n => k \in 1 .. n - 1
    BY <1>3
  <2>6. imgs2 = [k \in 1 .. n - 1 |-> IF k = i THEN imgs[n] ELSE imgs[k]]
    <3>1. imgs2 \in [1 .. n - 1 -> BlockImages] /\ \A k \in 1 .. n - 1 : imgs2[k] = dev2.image[w.node.blocks[k]]
      BY <1>8, <2>2
    <3>2. ASSUME NEW k \in 1 .. n - 1
          PROVE  imgs2[k] = IF k = i THEN imgs[n] ELSE imgs[k]
      <4>1. CASE k = i
        <5>1. n # i /\ node.blocks[n] # b /\ node.blocks[n] \in Blocks
          BY <1>3, <1>5, <1>12, <2>4, <4>1
        <5>2. imgs2[k] = dev2.image[node.blocks[n]] /\ imgs[n] = dev.image[node.blocks[n]]
          BY <1>3, <1>4, <2>2, <3>1, <4>1
        <5> QED
          BY <2>3, <4>1, <5>1, <5>2
      <4>2. CASE k # i
        <5>1. k \in 1 .. n /\ node.blocks[k] # b /\ node.blocks[k] \in Blocks
          BY <1>5, <1>12, <2>4, <4>2
        <5>2. imgs2[k] = dev2.image[node.blocks[k]] /\ imgs[k] = dev.image[node.blocks[k]]
          BY <1>4, <2>2, <3>1, <4>2, <5>1
        <5> QED
          BY <2>3, <4>2, <5>1, <5>2
      <4> QED
        BY <4>1, <4>2
    <3> QED
      BY <3>1, <3>2
  <2>7. Distinct(w.node)
    <3>1. ASSUME NEW j \in 1 .. n - 1, NEW k \in 1 .. n - 1, w.node.blocks[j] = w.node.blocks[k]
          PROVE  j = k
      <4>1. \A x, y \in 1 .. n : node.blocks[x] = node.blocks[y] => x = y
        BY <1>2 DEF Distinct, n
      <4> QED
        BY <1>3, <2>2, <2>4, <3>1, <4>1
    <3> QED
      BY <2>2, <3>1 DEF Distinct
  <2>8. ASSUME NEW c \in Blocks
        PROVE  Holds(w.node, c) <=> Holds(node, c) /\ c # b
    <3>1. /\ Holds(w.node, c) <=> \E j \in 1 .. n - 1 : w.node.blocks[j] = c
          /\ Holds(node, c) <=> \E j \in 1 .. n : node.blocks[j] = c
      BY <2>2 DEF Holds, n
    <3>2. ASSUME NEW j \in 1 .. n - 1, w.node.blocks[j] = c
          PROVE  Holds(node, c) /\ c # b
      <4>1. CASE j = i
        BY <1>3, <1>12, <2>2, <2>4, <3>1, <3>2, <4>1
      <4>2. CASE j # i
        BY <1>12, <2>2, <2>4, <3>1, <3>2, <4>2
      <4> QED
        BY <4>1, <4>2
    <3>3. ASSUME NEW j \in 1 .. n, node.blocks[j] = c, c # b
          PROVE  Holds(w.node, c)
      <4>1. j # i
        BY <3>3 DEF b
      <4>2. CASE j = n
        <5>1. i \in 1 .. n - 1
          BY <1>9, <2>5, <4>1, <4>2
        <5> QED
          BY <2>2, <3>1, <3>3, <4>2, <5>1
      <4>3. CASE j # n
        BY <2>2, <2>5, <3>1, <3>3, <4>1, <4>3
      <4> QED
        BY <4>2, <4>3
    <3> QED
      BY <3>1, <3>2, <3>3
  <2>9. /\ dev2.inodes[d].kind = "dir" /\ Distinct(dev2.inodes[d])
        /\ Directory(Images(dev2, dev2.inodes[d]), dev2.inodes[d].num_blocks)
    BY <1>7, <2>1, <2>2, <2>6, <2>7 DEF imgs2
  <2>10. \A c \in Blocks : /\ Holds(dev2.inodes[d], c) <=> Holds(dev.inodes[d], c) /\ c # b
                           /\ c \in dev2.free <=> c \in dev.free \/ c = b
                           /\ c \in dev.free => ~ Holds(dev.inodes[d], c)
                           /\ dev2.image[c] # dev.image[c] => c = b
                           /\ Holds(dev.inodes[d], b)
    BY <1>10, <1>11, <2>3, <2>8 DEF node
  <2>11. Sane(dev2)
    BY <1>1, <1>9, <2>9, <2>10, DirectoryChanged
  <2>12. \A nm, inum : Holding(imgs2, n - 1, nm, inum) <=> Holding(imgs, n, nm, inum) /\ nm # name
    <3>1. imgs[at.block][at.pos].len = BLOCK_SIZE
      BY <1>9, <1>17 DEF i
    <3> QED
      BY <1>2, <1>13, <1>17, <2>6, <3>1, HeldDropped DEF i
  <2>13. imgs2 = Images(dev2, dev2.inodes[d]) /\ n - 1 = dev2.inodes[d].num_blocks
    BY <2>2 DEF imgs2
  <2>14. WrittenIn(dev2, dev, d)
    BY <2>10 DEF WrittenIn
  <2> QED
    BY <2>11, <2>12, <2>13, <2>14 DEF Goal
<1>18. \/ at.prev # -1
       \/ at.prev = -1 /\ img[at.pos].len # BLOCK_SIZE /\ w.node = node /\ w.dev = [dev EXCEPT !.image[b] = MoveUp(img)]
       \/ at.prev = -1 /\ img[at.pos].len = BLOCK_SIZE /\ w.node = Dropped(node, i) /\ w.dev = FreeDblock(dev, b)
  BY <1>6 DEF RemoveWays, b, img, i
<1> QED
  BY <1>15, <1>16, <1>17, <1>18

-----------------------------------------------------------------------------
(* The calls                                                               *)

\* A device on which nothing went wrong, and ...
Fit(dev) == dev \in Devices /\ Numbers(dev) /\ Sane(dev) /\ Picked(dev)

\* ... one on which something may have been freed or changed that is gone.
Whole(dev) == dev \in Devices /\ Numbers(dev) /\ (~ dev.misfreed /\ ~ dev.strayed => Sane(dev))

\* Numbers not given yet are in no record, in no key of the cache, and their inodes are blank.
LEMMA NumbersIff ==
    ASSUME NEW dev
    PROVE  Numbers(dev) <=> /\ ROOT_INODE < dev.latest /\ dev.latest <= inode_count
                            /\ AllUnder(dev, dev.latest)
                            /\ \A k \in DOMAIN dev.cache : dev.cache[k] < dev.latest
                            /\ \A i \in Inums : i >= dev.latest => dev.inodes[i].kind = "none" /\ i \notin dev.removed
  BY DEF Numbers, AllUnder, Under

\* A lookup keeps a device fit, and answers with a number that was given.
LEMMA LookedUpFit ==
    ASSUME NEW dev, Fit(dev), NEW r, LooksUp(r, dev)
    PROVE  /\ Fit(r.dev) /\ r.inum \in Inums \cup {NoInode}
           /\ r.dev.latest = dev.latest /\ r.dev.removed = dev.removed /\ r.inum < dev.latest
<1> DEFINE d == r.dev
<1>1. dev \in Devices /\ Numbers(dev) /\ Sane(dev) /\ Picked(dev)
  BY DEF Fit
<1>2. /\ d \in Devices /\ r.inum \in Inums \cup {NoInode}
      /\ d.image = dev.image /\ d.pick = dev.pick /\ d.free = dev.free
      /\ d.inodes = dev.inodes /\ d.latest = dev.latest /\ d.removed = dev.removed
  BY <1>1, LooksUpSame
<1>3. Numbers(d) /\ r.inum < dev.latest
  BY <1>1 DEF LooksUp
<1> HIDE DEF d
<1>4. Picked(d)
  BY <1>1, <1>2 DEF Picked
<1>5. Live(d) = Live(dev)
  BY <1>2 DEF Live
<1>6. Sane(d)
  BY <1>1, <1>2, <1>5, SaneElsewhere DEF SameBlocks
<1> QED
  BY <1>2, <1>3, <1>4, <1>6 DEF Fit, d

\* create_new_inode raises latest_inum, and all else stays as it is.
LEMMA NumberedFit ==
    ASSUME NEW dev, Fit(dev), dev.latest < inode_count
    PROVE  LET d == Numbered(dev)
           IN  /\ Fit(d) /\ d.latest = dev.latest + 1 /\ dev.latest \in Inums
               /\ d.image = dev.image /\ d.inodes = dev.inodes /\ d.removed = dev.removed /\ d.cache = dev.cache
<1> DEFINE d == Numbered(dev)
           m == dev.latest + 1
<1>1. dev \in Devices /\ Numbers(dev) /\ Sane(dev) /\ Picked(dev) /\ dev.latest \in Nat
  BY DEF Fit, Devices
<1>2. m \in Nat /\ m <= inode_count /\ ROOT_INODE < m
  BY <1>1, InodeCount DEF Numbers, ROOT_INODE
<1>3. /\ d \in Devices /\ d.latest = m /\ d.image = dev.image /\ d.inodes = dev.inodes /\ d.removed = dev.removed
      /\ d.cache = dev.cache /\ d.pick = dev.pick /\ d.free = dev.free
  <2>1. d = [dev EXCEPT !.latest = m]
    BY <1>1 DEF Numbered, Devices
  <2> HIDE DEF d, m
  <2> QED
    BY <1>1, <1>2, <2>1 DEF Devices
<1> HIDE DEF d
<1>4. Picked(d)
  BY <1>1, <1>3 DEF Picked
<1>5. Sane(d)
  <2>1. Live(d) = Live(dev)
    BY <1>3 DEF Live
  <2> QED
    BY <1>1, <1>3, <2>1, SaneElsewhere DEF SameBlocks
<1>6. Numbers(d)
  <2>1. /\ \A b \in Blocks : \A q \in Reached(dev.image[b]) : dev.image[b][q].inum < dev.latest
        /\ \A k \in DOMAIN dev.cache : dev.cache[k] < dev.latest
        /\ \A i \in Inums : i >= dev.latest => dev.inodes[i].kind = "none" /\ i \notin dev.removed
    BY <1>1 DEF Numbers
  <2>2. ASSUME NEW b \in Blocks, NEW q \in Reached(dev.image[b])
        PROVE  dev.image[b][q].inum < m
    <3>1. dev.image[b][q].inum \in Inums
      <4>1. dev.image[b] \in BlockImages
        BY <1>1 DEF Devices
      <4> QED
        BY <4>1, ReachedFacts
    <3>2. dev.image[b][q].inum \in Nat /\ dev.image[b][q].inum < dev.latest
      BY <2>1, <3>1, InodeCount
    <3> QED
      BY <1>1, <3>2
  <2>3. ASSUME NEW k \in DOMAIN dev.cache
        PROVE  dev.cache[k] < m
    <3>1. dev.cache[k] \in Inums
      BY <1>1, CachesIff DEF Devices
    <3>2. dev.cache[k] \in Nat /\ dev.cache[k] < dev.latest
      BY <2>1, <3>1, InodeCount
    <3> QED
      BY <1>1, <3>2
  <2>4. \A i \in Inums : i >= m => i >= dev.latest
    BY <1>1, InodeCount
  <2> HIDE DEF m
  <2> QED
    BY <1>2, <1>3, <2>1, <2>2, <2>3, <2>4 DEF Numbers
<1>7. dev.latest \in Inums
  BY <1>1, InodeCount DEF Numbers, Inums, ROOT_INODE
<1> QED
  BY <1>1, <1>3, <1>4, <1>5, <1>6, <1>7 DEF Fit, d

\* A file was made, or it was not; when it was, its inode is not in use yet.
FileResults == [ok : BOOLEAN, dev : Devices, inum : Inums \cup {NoInode}]

Made(f) ==
    /\ f \in FileResults /\ Whole(f.dev)
    /\ f.ok => /\ Picked(f.dev)
               /\ f.inum \in Inums /\ f.inum < f.dev.latest
               /\ f.inum \notin f.dev.removed /\ f.dev.inodes[f.inum].kind = "none"

\* A creation that fails leaves the device whole.
LEMMA FailedMade ==
    ASSUME NEW dev, Whole(dev)
    PROVE  Made(Failed(dev))
<1> DEFINE f == Failed(dev)
<1>1. f = [ok |-> FALSE, dev |-> dev, inum |-> NoInode]
  BY DEF Failed
<1>2. f \in FileResults /\ f.ok = FALSE /\ f.dev = dev
  BY <1>1 DEF FileResults, Whole
<1> HIDE DEF f
<1> QED
  BY <1>2 DEF Made, f

\* A device that is fit is whole.
LEMMA FitWhole ==
    ASSUME NEW dev, Fit(dev)
    PROVE  Whole(dev)
  BY DEF Fit, Whole

(* create_new_file: the name was not there, so the parent has it once now. *)
LEMMA EnteredMade ==
    ASSUME NEW child, Fit(child.dev), NEW p \in Inums, p < child.dev.latest, NEW name \in NameSet,
           child.inum = NoInode =>
              FindFile(Images(child.dev, child.dev.inodes[p]), name).pos = -1
    PROVE  Made(Entered(child, p, name))
<1> DEFINE c == child.dev
           c1 == Numbered(c)
           node == c.inodes[p]
           e == AddEntry(c1, node, c.latest, name)
           f == Entered(child, p, name)
           fails == \/ child.inum # NoInode
                    \/ node.kind # "dir"
                    \/ c.latest >= inode_count
<1>1. CASE fails
  <2>1. f = Failed(c)
    BY <1>1 DEF Entered
  <2> QED
    BY <2>1, FitWhole, FailedMade
<1>2. CASE ~ fails
  <2>1. /\ child.inum = NoInode /\ node.kind = "dir"
        /\ c.latest < inode_count /\ c \in Devices /\ Numbers(c) /\ Sane(c) /\ Picked(c)
    <3>1. c \in Devices /\ Numbers(c) /\ Sane(c) /\ Picked(c) /\ c.latest \in Nat
      BY DEF Fit, Devices
    <3> QED
      BY <1>2, <3>1, InodeCount
  <2>2. /\ Fit(c1) /\ c1.latest = c.latest + 1 /\ c.latest \in Inums /\ c.latest \in Nat
        /\ c1.image = c.image /\ c1.inodes = c.inodes /\ c1.removed = c.removed /\ c1.cache = c.cache
    BY <2>1, NumberedFit, InodeCount
  <2>3. c1 \in Devices /\ Numbers(c1) /\ Sane(c1) /\ Picked(c1) /\ node \in InodeSet
    BY <2>1, <2>2 DEF Fit, Devices
  <2> HIDE DEF c1
  <2>4. EntryTypes(e, c1, node, c.latest, name)
    BY <2>1, <2>2, <2>3, EntryTyped
  <2>5. /\ e.ok \in BOOLEAN /\ e.node \in InodeSet /\ e.node.kind = "dir" /\ e.dev \in Devices
        /\ e.dev.inodes = c.inodes /\ e.dev.latest = c.latest + 1 /\ e.dev.cache = c.cache
        /\ e.dev.removed = c.removed /\ e.dev.strayed = c1.strayed /\ e.dev.misfreed = c1.misfreed
        /\ Picked(e.dev) /\ AllUnder(e.dev, c.latest + 1)
    <3>1. AllUnder(c1, c.latest + 1) /\ c.latest < c.latest + 1
      BY <2>2, <2>3 DEF Numbers, AllUnder, Under
    <3> HIDE DEF e
    <3> QED
      BY <2>1, <2>2, <2>3, <2>4, <3>1 DEF EntryTypes, SameOtherwise
  <2>6. CASE ~ e.ok
    <3>1. f = Failed(e.dev)
      BY <1>2, <2>6 DEF Entered, c1
    <3>2. e.dev = c1
      <4> HIDE DEF e
      <4>1. AddFails(e, c1, node)
        <5>1. \/ AddFails(e, c1, node)
              \/ AddSplits(e, c1, node, c.latest, name)
              \/ AddGrows(e, c1, node, c.latest, name)
          BY <2>1, <2>2, <2>3, AddEntryGives DEF e
        <5> QED
          BY <2>6, <5>1, AddSucceeds
      <4> QED
        BY <4>1 DEF AddFails
    <3> HIDE DEF f, e
    <3> QED
      BY <2>2, <3>1, <3>2, FitWhole, FailedMade DEF f
  <2>7. CASE e.ok
    <3> DEFINE s == e.dev.strayed \/ p \in c.removed
               d == [e.dev EXCEPT !.inodes[p] = e.node, !.strayed = s]
    <3>1. f = [ok |-> TRUE, inum |-> c.latest, dev |-> d]
      BY <1>2, <2>5, <2>7 DEF Entered, c1, Devices
    <3>2. s \in BOOLEAN
      BY <2>5 DEF Devices
    <3> HIDE DEF e, s
    <3>3. /\ d \in Devices
          /\ d.image = e.dev.image /\ d.free = e.dev.free /\ d.pick = e.dev.pick /\ d.latest = e.dev.latest
          /\ d.cache = e.dev.cache /\ d.removed = c.removed
          /\ d.strayed = s /\ d.inodes[p] = e.node /\ \A i \in Inums : i # p => d.inodes[i] = c.inodes[i]
      BY <2>5, <3>2 DEF Devices
    <3> HIDE DEF d
    <3>4. \A i \in Inums : i >= c.latest => i # p
      BY <2>2, InodeCount
    <3>5. Numbers(d)
      <4>1. /\ ROOT_INODE < c.latest + 1 /\ c.latest + 1 <= inode_count
        BY <2>2, <2>3 DEF Numbers
      <4>2. \A k \in DOMAIN c1.cache : c1.cache[k] < c.latest + 1
        BY <2>2, <2>3 DEF Numbers
      <4>3. \A i \in Inums : i >= c.latest + 1 => i >= c.latest /\ c1.inodes[i].kind = "none" /\ i \notin c1.removed
        BY <2>2, <2>3, InodeCount DEF Numbers
      <4>4. AllUnder(d, c.latest + 1)
        BY <2>5, <3>3 DEF AllUnder
      <4> QED
        BY <2>2, <2>5, <3>3, <3>4, <4>1, <4>2, <4>3, <4>4, NumbersIff
    <3>6. ASSUME ~ d.strayed
          PROVE  Sane(d)
      <4>1. p \in Live(c1) /\ c1.inodes[p] = node
        BY <2>1, <2>2, <3>3, <3>6 DEF Live, s
      <4> DEFINE imgs == Images(c1, node)
                 n == node.num_blocks
      <4>2. Directory(imgs, n)
        BY <2>3, <4>1 DEF Sane
      <4>3. FindFile(imgs, name).pos = -1
        <5>1. imgs = Images(c, node)
          BY <2>2 DEF Images
        <5> QED
          BY <2>1, <5>1
      <4>4. ~ HasName(imgs, n, name)
        <5> HIDE DEF imgs, n
        <5>1. n \in Nat /\ imgs \in [1 .. n -> BlockImages] /\ \A i \in 1 .. n : DOMAIN imgs[i] # {}
          BY <4>2 DEF Directory
        <5> QED
          BY <4>3, <5>1, FindFileGives DEF HasName
      <4>5. \A i \in Inums \ {p} : SameBlocks(d.inodes[i], c1.inodes[i])
        BY <2>2, <3>3 DEF SameBlocks
      <4>6. e = AddEntry(c1, c1.inodes[p], c.latest, name)
        BY <4>1 DEF e
      <4> HIDE DEF c, node
      <4> QED
        BY <2>2, <2>3, <2>7, <3>3, <4>1, <4>4, <4>5, <4>6, EntryAdded
    <3>7. /\ f \in FileResults /\ f.ok = TRUE /\ f.inum = c.latest /\ f.dev = d
      BY <2>2, <3>1, <3>3 DEF FileResults
    <3>8. Picked(d)
      BY <2>5, <3>3 DEF Picked
    <3>9. /\ c.latest < d.latest /\ c.latest \notin d.removed /\ d.inodes[c.latest].kind = "none"
      <4>1. c.latest >= c.latest /\ c.latest < c.latest + 1
        BY <2>2
      <4>2. c.latest \notin c.removed /\ c.inodes[c.latest].kind = "none" /\ c.latest # p
        BY <2>1, <2>2, <3>4, <4>1 DEF Numbers
      <4> QED
        BY <2>2, <2>5, <3>3, <4>1, <4>2
    <3> HIDE DEF f
    <3>10. Whole(d)
      BY <3>3, <3>5, <3>6 DEF Whole
    <3> QED
      BY <2>2, <3>7, <3>8, <3>9, <3>10 DEF Made, f
  <2> QED
    BY <2>5, <2>6, <2>7
<1> QED
  BY <1>1, <1>2

\* create_new_file leaves a whole device, and when it succeeds a number whose inode is not in use.
LEMMA NewFileMade ==
    ASSUME NEW dev, Fit(dev), NEW path \in Seq(NameSet), Len(path) > 0
    PROVE  Made(NewFile(dev, path))
<1> DEFINE p == Parent(dev, path)
           child == Resolve(p.dev, path, FALSE)
<1>1. dev \in Devices
  BY DEF Fit
<1>2. Front(path) \in Seq(NameSet) /\ Last(path) \in NameSet
  BY PathFacts
<1>3. LooksUp(p, dev)
  BY <1>1, <1>2, ResolveLooksUp DEF Parent
<1> HIDE DEF p
<1>4. Fit(p.dev) /\ p.inum \in Inums \cup {NoInode} /\ p.inum < dev.latest /\ p.dev.latest = dev.latest
  BY <1>3, LookedUpFit
<1>5. p.dev \in Devices
  BY <1>4 DEF Fit
<1>6. LooksUp(child, p.dev)
  BY <1>5, ResolveLooksUp
<1> HIDE DEF child
<1>7. /\ Fit(child.dev) /\ child.dev.latest = dev.latest
      /\ child.dev.image = p.dev.image /\ child.dev.inodes = p.dev.inodes
  BY <1>4, <1>5, <1>6, LookedUpFit, LooksUpSame
<1>8. CASE p.inum = NoInode
  <2>1. NewFile(dev, path) = Failed(p.dev)
    BY <1>8 DEF NewFile, EnteredBelow, p
  <2> QED
    BY <1>4, <2>1, FitWhole, FailedMade
<1>9. CASE p.inum # NoInode
  <2>1. NewFile(dev, path) = Entered(child, p.inum, Last(path))
    BY <1>9 DEF NewFile, EnteredBelow, p, child
  <2>2. ASSUME child.inum = NoInode
        PROVE  FindFile(Images(child.dev, child.dev.inodes[p.inum]), Last(path)).pos = -1
    <3>1. FindFile(Images(p.dev, p.dev.inodes[p.inum]), Last(path)).pos = -1
      BY <1>1, <1>9, <2>2, ChildNotThere DEF p, child
    <3>2. Images(child.dev, child.dev.inodes[p.inum]) = Images(p.dev, p.dev.inodes[p.inum])
      BY <1>7 DEF Images
    <3> QED
      BY <3>1, <3>2
  <2>3. p.inum \in Inums /\ p.inum < child.dev.latest
    BY <1>4, <1>7, <1>9
  <2> QED
    BY <1>2, <1>7, <2>1, <2>2, <2>3, EnteredMade
<1> QED
  BY <1>8, <1>9

(* charm_mknod: the inode of the new file is written.                      *)
LEMMA FileWritten ==
    ASSUME NEW f, Made(f), f.ok
    PROVE  LET r == [f EXCEPT !.dev.inodes[f.inum] = NewInode("file")]
           IN  Whole(r.dev) /\ r.ok = f.ok
<1> DEFINE x == f.inum
           new == NewInode("file")
           dev == f.dev
           d == [dev EXCEPT !.inodes[x] = new]
           r == [f EXCEPT !.dev.inodes[x] = new]
<1>1. f \in FileResults /\ Whole(dev) /\ x \in Inums /\ x < dev.latest /\ dev.inodes[x].kind = "none"
  BY DEF Made
<1>2. new \in InodeSet /\ new.kind = "file"
  BY NewInodeType
<1> HIDE DEF new
<1>3. r.dev = d /\ r.ok = f.ok
  BY <1>1 DEF FileResults
<1> HIDE DEF dev, x, r
<1>4. dev \in Devices /\ Numbers(dev)
  BY <1>1 DEF Whole
<1>5. /\ d \in Devices /\ d.image = dev.image /\ d.free = dev.free /\ d.latest = dev.latest /\ d.cache = dev.cache
      /\ d.removed = dev.removed /\ d.strayed = dev.strayed /\ d.misfreed = dev.misfreed
      /\ d.inodes[x] = new /\ \A i \in Inums : i # x => d.inodes[i] = dev.inodes[i]
  BY <1>1, <1>2, <1>4 DEF Devices
<1> HIDE DEF d
<1>6. Numbers(d)
  <2>1. \A i \in Inums : i >= dev.latest => i # x
    BY <1>1, <1>4, InodeCount DEF Devices
  <2>2. AllUnder(d, d.latest)
    BY <1>4, <1>5, NumbersIff DEF AllUnder
  <2> QED
    BY <1>4, <1>5, <2>1, <2>2, NumbersIff
<1>7. Live(d) = Live(dev) /\ \A i \in Live(dev) : i \in Inums /\ i # x
  BY <1>1, <1>2, <1>5 DEF Live
<1>8. Sane(dev) => Sane(d)
  BY <1>4, <1>5, <1>7, SaneElsewhere DEF SameBlocks
<1>9. Whole(d)
  BY <1>1, <1>5, <1>6, <1>8 DEF Whole
<1> QED
  BY <1>3, <1>9 DEF r, x, new, dev

(* custom_mkdir: the inode of the new directory is written.                *)
LEMMA DirectoryWritten ==
    ASSUME NEW f, Made(f)
    PROVE  Whole(NewDir(f).dev) /\ NewDir(f).ok \in BOOLEAN
<1>1. f \in FileResults /\ Whole(f.dev) /\ f.ok \in BOOLEAN
  BY DEF Made, FileResults
<1>2. CASE ~ f.ok
  BY <1>1, <1>2 DEF NewDir
<1>3. CASE f.ok
  <2> DEFINE x == f.inum
             dev == f.dev
             n0 == NewInode("dir")
             dot == AddEntry(dev, n0, x, ".")
             dotdot == AddEntry(dot.dev, dot.node, x, "..")
             b == Head(dev.pick)
             img == Split(Lone(x, "."), x, "..")
  <2>1. /\ Picked(dev) /\ x \in Inums /\ x < dev.latest /\ x \notin dev.removed /\ dev.inodes[x].kind = "none"
        /\ dev \in Devices /\ Numbers(dev)
    BY <1>3 DEF Made, Whole
  <2>2. n0 \in InodeSet /\ n0.kind = "dir" /\ n0.num_blocks = 0
    BY NewInodeType
  <2>3. NewDir(f) = IF ~ dot.ok \/ ~ dotdot.ok THEN Failed(dotdot.dev)
                    ELSE [f EXCEPT !.dev = [dotdot.dev EXCEPT !.inodes[x] = dotdot.node]]
    BY <1>3 DEF NewDir
  <2> HIDE DEF x, dev, n0
  <2>4. \/ AddFails(dot, dev, n0) /\ (dev.pick = <<>> \/ n0.num_blocks # 0)
        \/ AddSplits(dot, dev, n0, x, ".")
        \/ AddGrows(dot, dev, n0, x, ".")
    BY <2>1, <2>2, SizeFacts, AddEntryGives
  <2>5. EntryTypes(dot, dev, n0, x, ".")
    BY <2>1, <2>2, SizeFacts, EntryTyped
  <2> HIDE DEF dot
  <2>6. /\ dot.node \in InodeSet /\ dot.node.kind = "dir" /\ dot.dev \in Devices
        /\ SameOtherwise(dot.dev, dev) /\ dot.dev.misfreed = dev.misfreed
        /\ \A n : x < n /\ AllUnder(dev, n) => AllUnder(dot.dev, n)
    BY <2>2, <2>5 DEF EntryTypes
  <2>7. \/ AddFails(dotdot, dot.dev, dot.node) /\ (dot.dev.pick = <<>> \/ dot.node.num_blocks # 0)
        \/ AddSplits(dotdot, dot.dev, dot.node, x, "..")
        \/ AddGrows(dotdot, dot.dev, dot.node, x, "..")
    BY <2>1, <2>6, SizeFacts, AddEntryGives
  <2>8. EntryTypes(dotdot, dot.dev, dot.node, x, "..")
    BY <2>1, <2>6, SizeFacts, EntryTyped
  <2>9. dotdot.dev \in Devices /\ SameOtherwise(dotdot.dev, dot.dev) /\ dotdot.dev.misfreed = dot.dev.misfreed
        /\ \A n : x < n /\ AllUnder(dot.dev, n) => AllUnder(dotdot.dev, n)
    <3> HIDE DEF dotdot
    <3> QED
      BY <2>8 DEF EntryTypes
  <2>10. CASE AddFails(dot, dev, n0) /\ (dev.pick = <<>> \/ n0.num_blocks # 0)
    <3>1. dot.ok = FALSE /\ dot.node = n0 /\ dot.dev = dev /\ dev.pick = <<>>
      BY <2>2, <2>10 DEF AddFails
    <3> HIDE DEF dotdot
    <3>2. ~ AddSplits(dotdot, dot.dev, dot.node, x, "..")
      BY <2>2, <3>1 DEF AddSplits
    <3>3. ~ AddGrows(dotdot, dot.dev, dot.node, x, "..")
      BY <3>1 DEF AddGrows
    <3>4. dotdot.dev = dev
      BY <2>7, <3>1, <3>2, <3>3 DEF AddFails
    <3>5. NewDir(f) = Failed(dev)
      BY <2>3, <3>1, <3>4
    <3> QED
      BY <1>1, <3>5, FailedMade DEF Made, FileResults, dev
  <2>11. CASE AddGrows(dot, dev, n0, x, ".")
    <3>1. /\ dot.ok /\ dev.pick # <<>> /\ b \in Blocks /\ dot.node.num_blocks = 1 /\ dot.node.blocks[1] = b
          /\ dot.dev = [dev EXCEPT !.image[b] = Lone(x, "."), !.free = @ \ {b}, !.pick = Tail(@)]
      BY <2>2, <2>11 DEF AddGrows
    <3>2. b \in dev.free
      <4>1. dev.pick \in Seq(Blocks) /\ 1 \in DOMAIN dev.pick /\ b = dev.pick[1]
        BY <2>1, <3>1 DEF Devices
      <4> QED
        BY <2>1, <4>1 DEF Picked
    <3>3. Room(Lone(x, "."), "..") # {} /\ Directory([i \in 1 .. 1 |-> img], 1)
      BY <2>1, DirectoryMade
    <3> DEFINE one == Lone(x, ".")
    <3> HIDE DEF b, img, one
    <3>4. /\ dot.dev.image[b] = one /\ \A c \in Blocks : c # b => dot.dev.image[c] = dev.image[c]
          /\ dot.dev.free = dev.free \ {b}
      BY <2>1, <3>1 DEF Devices, one
    <3>5. dotdot = [ok |-> TRUE, node |-> dot.node, dev |-> [dot.dev EXCEPT !.image[b] = Split(@, x, "..")]]
      BY <3>1, <3>3, <3>4 DEF AddEntry, one
    <3>6. dot.dev.image = [dot.dev.image EXCEPT ![b] = one] /\ dot.dev.image \in [Blocks -> BlockImages]
      BY <2>6, <3>4 DEF Devices
    <3>7. /\ dotdot.ok /\ dotdot.node = dot.node
          /\ dotdot.dev.image[b] = img /\ \A c \in Blocks : c # b => dotdot.dev.image[c] = dev.image[c]
          /\ dotdot.dev.free = dev.free \ {b}
      <4> DEFINE e == [dot.dev EXCEPT !.image[b] = Split(@, x, "..")]
      <4>1. Split(one, x, "..") = img
        BY DEF img, one
      <4>2. /\ e.image[b] = img /\ \A c \in Blocks : c # b => e.image[c] = dot.dev.image[c]
            /\ e.free = dot.dev.free
        BY <2>6, <3>1, <3>4, <4>1 DEF Devices
      <4>3. dotdot.ok = TRUE /\ dotdot.node = dot.node /\ dotdot.dev = e
        BY <3>5
      <4> HIDE DEF e, dotdot
      <4> QED
        BY <3>4, <4>2, <4>3
    <3> DEFINE d == [dotdot.dev EXCEPT !.inodes[x] = dot.node]
    <3>8. NewDir(f) = [f EXCEPT !.dev = d]
      BY <2>3, <3>1, <3>7
    <3> HIDE DEF dotdot
    <3>9. /\ d \in Devices /\ d.image = dotdot.dev.image /\ d.free = dev.free \ {b} /\ d.latest = dev.latest
          /\ d.cache = dev.cache /\ d.removed = dev.removed /\ d.strayed = dev.strayed /\ d.misfreed = dev.misfreed
          /\ d.inodes[x] = dot.node /\ \A i \in Inums : i # x => d.inodes[i] = dev.inodes[i]
      <4>1. /\ dotdot.dev.inodes = dev.inodes /\ dotdot.dev.latest = dev.latest /\ dotdot.dev.cache = dev.cache
            /\ dotdot.dev.removed = dev.removed /\ dotdot.dev.strayed = dev.strayed /\ dotdot.dev.misfreed = dev.misfreed
        BY <2>6, <2>9 DEF SameOtherwise
      <4> QED
        BY <2>1, <2>6, <2>9, <3>7, <4>1 DEF Devices
    <3> HIDE DEF d
    <3>10. Numbers(d)
      <4>1. \A i \in Inums : i >= dev.latest => i # x
        BY <2>1, InodeCount DEF Devices
      <4>2. AllUnder(dotdot.dev, dev.latest)
        BY <2>1, <2>6, <2>9, NumbersIff
      <4>3. AllUnder(d, d.latest)
        BY <3>9, <4>2 DEF AllUnder
      <4> QED
        BY <2>1, <3>9, <4>1, <4>3, NumbersIff
    <3>11. ASSUME Sane(dev)
           PROVE  Sane(d)
      <4> DEFINE node == d.inodes[x]
                 imgs == Images(d, node)
      <4>1. node = dot.node /\ node \in InodeSet /\ node.kind = "dir" /\ node.num_blocks = 1 /\ node.blocks[1] = b
        BY <2>6, <3>1, <3>9
      <4>2. imgs \in [1 .. 1 -> BlockImages] /\ \A i \in 1 .. 1 : imgs[i] = d.image[node.blocks[i]]
        BY <3>9, <4>1, ImagesFacts
      <4>3. imgs = [i \in 1 .. 1 |-> img]
        <5>1. \A i \in 1 .. 1 : imgs[i] = img
          BY <3>7, <3>9, <4>1, <4>2
        <5> HIDE DEF imgs
        <5> QED
          BY <4>2, <5>1
      <4>4. Directory(imgs, 1)
        BY <3>3, <4>3
      <4>5. Distinct(node)
        BY <4>1 DEF Distinct
      <4>6. \A c : Holds(node, c) <=> c = b
        <5>1. \A j \in 1 .. 1 : j = 1
          OBVIOUS
        <5>2. 1 \in 1 .. 1
          OBVIOUS
        <5> HIDE DEF node
        <5> QED
          BY <4>1, <5>1, <5>2 DEF Holds
      <4>7. \A c : ~ Holds(dev.inodes[x], c)
        <5>1. dev.inodes[x] \in InodeSet
          BY <2>1 DEF Devices
        <5>2. dev.inodes[x].num_blocks = 0
          BY <2>1, <5>1, InodeFacts
        <5> QED
          BY <5>2 DEF Holds
      <4>8. x \in Inums \ dev.removed
        BY <2>1
      <4>9. \A i \in Inums \ {x} : SameBlocks(d.inodes[i], dev.inodes[i])
        BY <3>9 DEF SameBlocks
      <4>10. \A c \in Blocks : /\ Holds(d.inodes[x], c) <=> c = b
                               /\ c \in d.free <=> c \in dev.free /\ c # b
                               /\ ~ Holds(dev.inodes[x], c)
                               /\ d.image[c] # dev.image[c] => c = b
        BY <3>7, <3>9, <4>6, <4>7
      <4>11. Directory(Images(d, d.inodes[x]), d.inodes[x].num_blocks) /\ d.inodes[x].kind = "dir" /\ Distinct(d.inodes[x])
        BY <4>1, <4>4, <4>5
      <4> HIDE DEF node, imgs
      <4> QED
        BY <2>1, <3>2, <3>9, <3>11, <4>8, <4>9, <4>10, <4>11, DirectoryChanged
    <3>12. Whole(d)
      BY <1>1, <3>9, <3>10, <3>11 DEF Whole, dev
    <3>13. [f EXCEPT !.dev = d].dev = d /\ [f EXCEPT !.dev = d].ok = f.ok
      BY <1>1 DEF FileResults
    <3> QED
      BY <1>1, <3>8, <3>12, <3>13
  <2>12. ~ AddSplits(dot, dev, n0, x, ".")
    BY <2>2 DEF AddSplits
  <2> QED
    BY <2>4, <2>10, <2>11, <2>12
<1> QED
  BY <1>1, <1>2, <1>3

\* pop_cache takes keys away and nothing else.
LEMMA UncachedGives ==
    ASSUME NEW dev \in Devices, NEW key
    PROVE  LET d == Uncached(dev, key)
           IN  /\ d \in Devices
               /\ d.image = dev.image /\ d.pick = dev.pick /\ d.free = dev.free /\ d.inodes = dev.inodes
               /\ d.latest = dev.latest /\ d.removed = dev.removed
               /\ d.misfreed = dev.misfreed /\ d.strayed = dev.strayed
               /\ key \notin DOMAIN d.cache
               /\ \A k \in DOMAIN d.cache : k \in DOMAIN dev.cache /\ d.cache[k] = dev.cache[k]
<1> DEFINE c == [k \in DOMAIN dev.cache \ {key} |-> dev.cache[k]]
           d == Uncached(dev, key)
<1>1. dev.cache \in Caches
  BY DEF Devices
<1>2. c \in Caches
  <2>1. DOMAIN c \subseteq Keys /\ \A k \in DOMAIN c : c[k] \in Inums
    BY <1>1, CachesIff
  <2>2. c = [k \in DOMAIN c |-> c[k]]
    OBVIOUS
  <2> HIDE DEF c
  <2> QED
    BY <2>1, <2>2, CachesIff
<1>3. d = [dev EXCEPT !.cache = c]
  BY DEF Uncached, Devices
<1>4. key \notin DOMAIN c /\ \A k \in DOMAIN c : k \in DOMAIN dev.cache /\ c[k] = dev.cache[k]
  OBVIOUS
<1> HIDE DEF c, d
<1>5. /\ d \in Devices
      /\ d.image = dev.image /\ d.pick = dev.pick /\ d.free = dev.free /\ d.inodes = dev.inodes
      /\ d.latest = dev.latest /\ d.removed = dev.removed
      /\ d.misfreed = dev.misfreed /\ d.strayed = dev.strayed /\ d.cache = c
  BY <1>2, <1>3 DEF Devices
<1> QED
  BY <1>4, <1>5 DEF d

\* d is dev without a link of x, or without x and its blocks.
Fewer(dev, x, key) ==
    IF dev.inodes[x].links - 1 = 0 THEN FreeInode(Uncached(dev, key), x)
    ELSE [dev EXCEPT !.inodes[x].links = @ - 1]

FewerTypes(d, dev, x) ==
    /\ d \in Devices /\ d.latest = dev.latest /\ d.strayed = dev.strayed
    /\ \A k \in DOMAIN d.cache : k \in DOMAIN dev.cache /\ d.cache[k] = dev.cache[k]
    /\ d.removed \subseteq dev.removed \cup {x}
    /\ \A i \in Inums : i # x => d.inodes[i] = dev.inodes[i]
    /\ \A n : AllUnder(dev, n) => AllUnder(d, n)

\* Giving the inode back and forgetting its key keeps types.
LEMMA FewerTyped ==
    ASSUME NEW dev \in Devices, NEW x \in Inums, NEW key
    PROVE  FewerTypes(Fewer(dev, x, key), dev, x)
<1> DEFINE d == Fewer(dev, x, key)
<1>1. CASE dev.inodes[x].links - 1 = 0
  <2> DEFINE u == Uncached(dev, key)
  <2>1. d = FreeInode(u, x)
    BY <1>1 DEF Fewer
  <2>2. /\ u \in Devices
        /\ u.image = dev.image /\ u.inodes = dev.inodes /\ u.latest = dev.latest /\ u.removed = dev.removed
        /\ u.strayed = dev.strayed
        /\ \A k \in DOMAIN u.cache : k \in DOMAIN dev.cache /\ u.cache[k] = dev.cache[k]
    BY UncachedGives
  <2> HIDE DEF u, d
  <2> DEFINE R == BlocksOf(u.inodes[x])
  <2>3. /\ d \in Devices /\ d.inodes = u.inodes /\ d.latest = u.latest /\ d.cache = u.cache
        /\ d.removed = u.removed \cup {x} /\ d.strayed = u.strayed
        /\ \A b \in Blocks : d.image[b] = IF b \in R THEN EmptyImage ELSE u.image[b]
    <3>1. FreeWays(d, u, x, R)
      BY <2>1, <2>2, FreeInodeGives
    <3> HIDE DEF R
    <3> QED
      BY <3>1 DEF FreeWays
  <2> HIDE DEF R
  <2>4. \A n : AllUnder(dev, n) => AllUnder(d, n)
    <3>1. \A b \in Blocks : d.image[b] = EmptyImage \/ d.image[b] = dev.image[b]
      BY <2>2, <2>3
    <3> QED
      BY <3>1, EmptyUnder DEF AllUnder
  <2> QED
    BY <2>2, <2>3, <2>4 DEF FewerTypes, d
<1>2. CASE dev.inodes[x].links - 1 # 0
  <2> DEFINE l == dev.inodes[x].links - 1
             node == [dev.inodes[x] EXCEPT !.links = l]
  <2>1. dev.inodes[x] \in InodeSet /\ l \in Links
    <3>1. dev.inodes[x] \in InodeSet
      BY DEF Devices
    <3>2. dev.inodes[x].links \in Int /\ dev.inodes[x].links <= 1
      BY <3>1, InodeFacts
    <3> QED
      BY <3>1, <3>2 DEF Links
  <2>2. node \in InodeSet
    <3> HIDE DEF l
    <3>1. /\ node \in [kind : {"none", "file", "dir"}, links : Links, blocks : Seq(Blocks), num_blocks : Nat]
          /\ node.kind = dev.inodes[x].kind /\ node.blocks = dev.inodes[x].blocks
          /\ node.num_blocks = dev.inodes[x].num_blocks
      BY <2>1 DEF InodeSet
    <3> HIDE DEF node
    <3> QED
      BY <2>1, <3>1 DEF InodeSet
  <2>3. d = [dev EXCEPT !.inodes[x] = node]
    BY <1>2 DEF Fewer, Devices
  <2> HIDE DEF node, d
  <2>4. /\ d \in Devices /\ d.latest = dev.latest /\ d.strayed = dev.strayed /\ d.cache = dev.cache
        /\ d.removed = dev.removed /\ d.image = dev.image
        /\ \A i \in Inums : i # x => d.inodes[i] = dev.inodes[i]
    BY <2>2, <2>3 DEF Devices
  <2> QED
    BY <2>4 DEF FewerTypes, AllUnder, d
<1> QED
  BY <1>1, <1>2

\* The inode of the parent is written last.
UnlinkedDev(dev, x, p, w, key) ==
    [Fewer(w.dev, x, key) EXCEPT !.inodes[p] = w.node, !.strayed = @ \/ p \in dev.removed]

\* What custom_unlink leaves keeps its types, and no number that was not given appears.
LEMMA UnlinkedTyped ==
    ASSUME NEW dev, Fit(dev), NEW x \in Inums, x < dev.latest, NEW p \in Inums, p < dev.latest, NEW key,
           NEW w, RemoveTypes(w, dev, dev.inodes[p])
    PROVE  LET d == UnlinkedDev(dev, x, p, w, key)
               g == Fewer(w.dev, x, key)
           IN  /\ d \in Devices /\ Numbers(d)
               /\ d.image = g.image /\ d.free = g.free /\ d.removed = g.removed /\ d.misfreed = g.misfreed
               /\ ~ d.strayed => p \notin dev.removed
               /\ d.inodes[p] = w.node
               /\ \A i \in Inums : i # p => d.inodes[i] = g.inodes[i]
<1> DEFINE g == Fewer(w.dev, x, key)
           s == g.strayed \/ p \in dev.removed
           d == UnlinkedDev(dev, x, p, w, key)
<1>1. dev \in Devices /\ Numbers(dev)
  BY DEF Fit
<1>2. /\ w.node \in InodeSet /\ w.dev \in Devices /\ SameOtherwise(w.dev, dev)
      /\ \A n : AllUnder(dev, n) => AllUnder(w.dev, n)
  BY DEF RemoveTypes
<1>3. FewerTypes(g, w.dev, x)
  BY <1>2, FewerTyped
<1> HIDE DEF g
<1>4. /\ g \in Devices /\ g.latest = dev.latest
      /\ \A k \in DOMAIN g.cache : k \in DOMAIN dev.cache /\ g.cache[k] = dev.cache[k]
      /\ g.removed \subseteq dev.removed \cup {x}
      /\ \A i \in Inums : i # x => g.inodes[i] = dev.inodes[i]
      /\ \A n : AllUnder(dev, n) => AllUnder(g, n)
  BY <1>2, <1>3 DEF FewerTypes, SameOtherwise
<1>5. d = [g EXCEPT !.inodes[p] = w.node, !.strayed = s] /\ s \in BOOLEAN
  BY <1>4 DEF UnlinkedDev, g, Devices
<1>6. ~ s => p \notin dev.removed
  OBVIOUS
<1> HIDE DEF d, s
<1>7. /\ d \in Devices /\ d.image = g.image /\ d.free = g.free /\ d.removed = g.removed /\ d.misfreed = g.misfreed
      /\ d.latest = g.latest /\ d.cache = g.cache /\ d.strayed = s /\ d.inodes[p] = w.node
      /\ \A i \in Inums : i # p => d.inodes[i] = g.inodes[i]
  BY <1>2, <1>4, <1>5 DEF Devices
<1>8. Numbers(d)
  <2>1. /\ ROOT_INODE < dev.latest /\ dev.latest <= inode_count /\ AllUnder(dev, dev.latest)
        /\ \A k \in DOMAIN dev.cache : dev.cache[k] < dev.latest
        /\ \A i \in Inums : i >= dev.latest => dev.inodes[i].kind = "none" /\ i \notin dev.removed
    BY <1>1, NumbersIff
  <2>2. \A i \in Inums : i >= dev.latest => i # x /\ i # p
    BY <1>1, InodeCount DEF Devices
  <2>3. AllUnder(d, dev.latest)
    BY <1>4, <1>7, <2>1 DEF AllUnder
  <2>4. \A k \in DOMAIN d.cache : d.cache[k] < dev.latest
    BY <1>4, <1>7, <2>1
  <2>5. ASSUME NEW i \in Inums, i >= dev.latest
        PROVE  d.inodes[i].kind = "none" /\ i \notin d.removed
    BY <1>4, <1>7, <2>1, <2>2, <2>5
  <2> QED
    BY <1>4, <1>7, <2>1, <2>3, <2>4, <2>5, NumbersIff
<1> QED
  BY <1>6, <1>7, <1>8 DEF d, g

\* custom_unlink of a name that is found leaves the device whole, unless the directory was removed
\* before.
LEMMA UnlinkedWhole ==
    ASSUME NEW dev, Fit(dev), NEW x \in Inums, x < dev.latest, NEW p \in Inums, p < dev.latest, NEW key,
           NEW name, name \notin {".", ".."},
           NEW at, IsFound(Images(dev, dev.inodes[p]), name, at)
    PROVE  Whole(UnlinkedDev(dev, x, p, RemoveEntry(dev, dev.inodes[p], at), key))
<1> DEFINE old == dev.inodes[p]
           w == RemoveEntry(dev, old, at)
           g == Fewer(w.dev, x, key)
           d == UnlinkedDev(dev, x, p, w, key)
<1>1. dev \in Devices /\ Numbers(dev) /\ Sane(dev) /\ old \in InodeSet
  BY DEF Fit, Devices
<1>2. old.kind = "dir"
  <2>1. FoundIn(dev, old, at)
    BY <1>1, FoundWhere
  <2>2. at.block \in 1 .. old.num_blocks
    BY <2>1 DEF FoundIn
  <2>3. old.num_blocks # 0
    BY <2>2
  <2> QED
    BY <1>1, <2>3, InodeFacts
<1>3. RemoveTypes(w, dev, old)
  BY <1>1, RemovalTyped
<1>4. /\ w.node \in InodeSet /\ w.node.kind = old.kind /\ w.dev \in Devices /\ SameOtherwise(w.dev, dev)
      /\ \A b : Holds(w.node, b) => Holds(old, b)
  <2> HIDE DEF w
  <2> QED
    BY <1>3 DEF RemoveTypes
<1>5. /\ d \in Devices /\ Numbers(d)
      /\ d.image = g.image /\ d.free = g.free /\ d.removed = g.removed /\ d.misfreed = g.misfreed
      /\ ~ d.strayed => p \notin dev.removed
      /\ d.inodes[p] = w.node
      /\ \A i \in Inums : i # p => d.inodes[i] = g.inodes[i]
  <2> HIDE DEF w
  <2> QED
    BY <1>3, UnlinkedTyped
<1> HIDE DEF d
<1>6. /\ w.dev.inodes = dev.inodes /\ w.dev.removed = dev.removed
  BY <1>4 DEF SameOtherwise
<1>7. SUFFICES ASSUME ~ d.misfreed, ~ d.strayed
               PROVE  Sane(d)
  BY <1>5 DEF Whole, d
<1>8. p \in Live(dev)
  BY <1>2, <1>5, <1>7 DEF Live
<1>9. CASE dev.inodes[x].links - 1 # 0
  <2>1. g = [w.dev EXCEPT !.inodes[x].links = @ - 1]
    BY <1>6, <1>9 DEF Fewer
  <2> HIDE DEF g
  <2>2. /\ g.image = w.dev.image /\ g.free = w.dev.free /\ g.removed = dev.removed
        /\ \A i \in Inums : SameBlocks(g.inodes[i], dev.inodes[i])
    <3> DEFINE l == w.dev.inodes[x].links - 1
               node == [w.dev.inodes[x] EXCEPT !.links = l]
    <3>1. g = [w.dev EXCEPT !.inodes[x] = node]
      BY <1>4, <2>1 DEF Devices
    <3>2. SameBlocks(node, w.dev.inodes[x])
      <4> HIDE DEF l
      <4>1. w.dev.inodes[x] \in [kind : {"none", "file", "dir"}, links : Links, blocks : Seq(Blocks), num_blocks : Nat]
        BY <1>4 DEF Devices, InodeSet
      <4> QED
        BY <4>1 DEF SameBlocks
    <3> HIDE DEF node, w
    <3>3. /\ g.image = w.dev.image /\ g.free = w.dev.free /\ g.removed = w.dev.removed
          /\ g.inodes[x] = node /\ \A i \in Inums : i # x => g.inodes[i] = w.dev.inodes[i]
      BY <1>4, <3>1 DEF Devices
    <3> QED
      BY <1>6, <3>2, <3>3 DEF SameBlocks
  <2>3. \A i \in Inums \ {p} : SameBlocks(d.inodes[i], dev.inodes[i])
    BY <1>5, <2>2 DEF SameBlocks
  <2> QED
    <3>1. /\ d \in Devices /\ d.image = w.dev.image /\ d.free = w.dev.free /\ d.removed = dev.removed
          /\ d.inodes[p] = w.node
      BY <1>5, <2>2
    <3>2. w = RemoveEntry(dev, dev.inodes[p], at)
      OBVIOUS
    <3> HIDE DEF w
    <3> QED
      BY <1>1, <1>8, <2>3, <3>1, <3>2, EntryRemoved
<1>10. CASE dev.inodes[x].links - 1 = 0
  <2> DEFINE u == Uncached(w.dev, key)
             R == BlocksOf(dev.inodes[x])
             mid == [w.dev EXCEPT !.inodes[p] = w.node]
  <2>1. g = FreeInode(u, x)
    BY <1>6, <1>10 DEF Fewer
  <2> HIDE DEF w, g
  <2>2. /\ u \in Devices
        /\ u.image = w.dev.image /\ u.free = w.dev.free /\ u.inodes = dev.inodes /\ u.removed = dev.removed
    BY <1>4, <1>6, UncachedGives
  <2> HIDE DEF u
  <2>3. /\ R \in SUBSET Blocks
        /\ g.inodes = u.inodes /\ g.removed = u.removed \cup {x} /\ g.free = u.free \cup R
        /\ \A b \in Blocks : g.image[b] = IF b \in R THEN EmptyImage ELSE u.image[b]
        /\ ~ g.misfreed => \A i \in Inums \ (u.removed \cup {x}) : \A b \in R : ~ Holds(u.inodes[i], b)
    <3>1. FreeWays(g, u, x, BlocksOf(u.inodes[x]))
      BY <2>1, <2>2, FreeInodeGives
    <3>2. BlocksOf(u.inodes[x]) = R
      BY <2>2
    <3> HIDE DEF R
    <3> QED
      BY <3>1, <3>2 DEF FreeWays
  <2>4. /\ mid \in Devices /\ mid.image = w.dev.image /\ mid.free = w.dev.free /\ mid.removed = dev.removed
        /\ mid.inodes[p] = w.node /\ \A i \in Inums : i # p => mid.inodes[i] = dev.inodes[i]
    BY <1>4, <1>6 DEF Devices
  <2> HIDE DEF mid
  <2>5. Sane(mid)
    <3>1. \A i \in Inums \ {p} : SameBlocks(mid.inodes[i], dev.inodes[i])
      BY <2>4 DEF SameBlocks
    <3> QED
      BY <1>1, <1>8, <2>4, <3>1, EntryRemoved DEF w
  <2>6. ASSUME NEW b, Holds(dev.inodes[x], b)
        PROVE  b \in R
    <3>1. dev.inodes[x] \in InodeSet
      BY <1>1 DEF Devices
    <3>2. PICK j \in 1 .. dev.inodes[x].num_blocks : dev.inodes[x].blocks[j] = b
      BY <2>6 DEF Holds
    <3> QED
      BY <3>1, <3>2, InodeFacts DEF BlocksOf
  <2> HIDE DEF R
  <2>7. \A i \in Inums : d.inodes[i] = mid.inodes[i]
    BY <1>5, <2>2, <2>3, <2>4
  <2>8. ASSUME NEW i \in Live(mid) \ {x}, NEW b \in R
        PROVE  ~ Holds(mid.inodes[i], b)
    <3>1. i \in Inums \ (u.removed \cup {x})
      BY <2>2, <2>4 DEF Live
    <3>2. ~ Holds(dev.inodes[i], b)
      BY <1>5, <1>7, <2>2, <2>3, <3>1
    <3> QED
      BY <1>4, <2>4, <3>1, <3>2
  <2>9. ASSUME NEW b \in Blocks, Holds(mid.inodes[x], b)
        PROVE  b \in R
    <3>1. Holds(dev.inodes[x], b)
      BY <1>4, <2>4, <2>9
    <3> QED
      BY <2>6, <3>1
  <2>10. /\ d.removed = mid.removed \cup {x}
         /\ \A b \in Blocks : b \in d.free <=> b \in mid.free \/ b \in R
         /\ \A b \in Blocks : b \notin R => d.image[b] = mid.image[b]
    BY <1>5, <2>2, <2>3, <2>4
  <2>11. /\ \A i \in Live(mid) \ {x} : SameBlocks(d.inodes[i], mid.inodes[i])
         /\ \A i \in Inums \ {x} : d.inodes[i].kind = mid.inodes[i].kind
    BY <2>7 DEF SameBlocks, Live
  <2> QED
    BY <1>5, <2>3, <2>4, <2>5, <2>8, <2>9, <2>10, <2>11, DirectoryFreed
<1> QED
  BY <1>9, <1>10

\* Callers name paths of names, none of which is "." or "..".
LEMMA PathsGive ==
    ASSUME NEW path \in Paths
    PROVE  path \in Seq(NameSet) /\ Len(path) > 0 /\ Last(path) \notin {".", ".."}
<1>1. path \in Seq(NameSet \ {".", ".."}) /\ Len(path) > 0
  BY NameAssumption
<1>2. path \in Seq(NameSet)
  BY <1>1
<1>3. Len(path) \in 1 .. Len(path) /\ path[Len(path)] \in NameSet \ {".", ".."}
  BY <1>1
<1> QED
  BY <1>1, <1>2, <1>3 DEF Last

\* custom_unlink of a name that is found.
LEMMA UnlinkedGives ==
    ASSUME NEW parent, Fit(parent.dev), parent.inum \in Inums, NEW x, NEW path \in Paths,
           NEW at, at = FindFile(Images(parent.dev, parent.dev.inodes[parent.inum]), Last(path)), at.pos # -1,
           NEW w, w = RemoveEntry(parent.dev, parent.dev.inodes[parent.inum], at)
    PROVE  /\ IsFound(Images(parent.dev, parent.dev.inodes[parent.inum]), Last(path), at)
           /\ Unlinked(parent, x, path).ok = TRUE
           /\ Unlinked(parent, x, path).dev = UnlinkedDev(parent.dev, x, parent.inum, w, Key(path, Len(path), FALSE))
<1> DEFINE dev == parent.dev
           p == parent.inum
           dir == dev.inodes[p]
           name == Last(path)
           key == Key(path, Len(path), FALSE)
           u == Unlinked(parent, x, path)
<1>1. p \in Inums /\ dev \in Devices /\ dir \in InodeSet
  BY DEF Fit, Devices
<1>2. IsFound(Images(dev, dir), name, at)
  <2>1. dir.num_blocks \in Nat /\ Images(dev, dir) \in [1 .. dir.num_blocks -> BlockImages]
    BY <1>1, InodeFacts, ImagesFacts
  <2> DEFINE imgs == Images(dev, dir)
             n == dir.num_blocks
  <2> HIDE DEF imgs, n, name
  <2>2. at = FindFile(imgs, name) /\ at.pos # -1
    BY DEF imgs, name
  <2>3. IsFound(imgs, name, FindFile(imgs, name))
    BY <2>1, <2>2, FindFileGives DEF imgs, n
  <2> QED
    BY <2>2, <2>3 DEF imgs
<1>3. w.dev.inodes = dev.inodes
  <2>1. RemoveTypes(w, dev, dir)
    BY <1>1, <1>2, RemovalTyped
  <2> QED
    BY <2>1 DEF RemoveTypes, SameOtherwise
<1>4. u = [ok |-> TRUE, dev |-> UnlinkedDev(dev, x, p, w, key), inum |-> x]
  <2>1. ~ (p = NoInode \/ at.pos = -1)
    <3>1. p # NoInode
      BY <1>1, InodeCount DEF NoInode
    <3> QED
      BY <3>1
  <2> DEFINE g == IF dev.inodes[x].links - 1 = 0 THEN FreeInode(Uncached(w.dev, key), x)
                  ELSE [w.dev EXCEPT !.inodes[x].links = @ - 1]
  <2>2. u = IF p = NoInode \/ at.pos = -1 THEN Failed(dev)
            ELSE [ok |-> TRUE, inum |-> x,
                  dev |-> [g EXCEPT !.inodes[p] = w.node, !.strayed = @ \/ p \in dev.removed]]
    BY DEF Unlinked
  <2>3. g = Fewer(w.dev, x, key)
    BY <1>3 DEF Fewer
  <2> HIDE DEF g, u, p, key
  <2> QED
    BY <2>1, <2>2, <2>3 DEF UnlinkedDev
<1>5. u.ok = TRUE /\ u.dev = UnlinkedDev(dev, x, p, w, key)
  BY <1>4
<1> QED
  BY <1>2, <1>5

(* custom_unlink and its callbacks.                                        *)
LEMMA UnlinkFoundWhole ==
    ASSUME NEW r, Fit(r.dev), r.inum \in Inums, r.inum < r.dev.latest, NEW path \in Paths
    PROVE  LET u == Unlinked(Parent(r.dev, path), r.inum, path)
           IN  Whole(u.dev) /\ u.ok \in BOOLEAN
<1> DEFINE parent == Parent(r.dev, path)
           dev == parent.dev
           p == parent.inum
           x == r.inum
           dir == dev.inodes[p]
           name == Last(path)
           at == FindFile(Images(dev, dir), name)
           w == RemoveEntry(dev, dir, at)
           key == Key(path, Len(path), FALSE)
           u == Unlinked(parent, x, path)
<1>1. path \in Seq(NameSet) /\ Len(path) > 0 /\ name \notin {".", ".."} /\ r.dev \in Devices
  BY PathsGive DEF Fit
<1>2. LooksUp(parent, r.dev)
  BY <1>1, PathFacts, ResolveLooksUp DEF Parent
<1> HIDE DEF parent, name
<1>3. Fit(dev) /\ p \in Inums \cup {NoInode} /\ p < dev.latest /\ dev.latest = r.dev.latest
  BY <1>2, LookedUpFit
<1>4. CASE p = NoInode \/ at.pos = -1
  <2>1. u = Failed(dev)
    BY <1>4 DEF Unlinked, name
  <2> HIDE DEF u
  <2>2. Whole(Failed(dev).dev) /\ Failed(dev).ok \in BOOLEAN
    BY <1>3, FitWhole DEF Failed
  <2> QED
    BY <2>1, <2>2 DEF u, parent
<1>5. CASE p # NoInode /\ at.pos # -1
  <2>1. p \in Inums /\ dev \in Devices /\ dir \in InodeSet
    BY <1>3, <1>5 DEF Fit, Devices
  <2>2. IsFound(Images(dev, dir), name, at) /\ u.ok = TRUE /\ u.dev = UnlinkedDev(dev, x, p, w, key)
    BY <1>3, <1>5, <2>1, UnlinkedGives DEF name
  <2>3. Whole(UnlinkedDev(dev, x, p, w, key))
    <3>1. x \in Inums /\ x < dev.latest /\ p < dev.latest
      BY <1>3
    <3> HIDE DEF x, p, key, at
    <3> QED
      BY <1>1, <1>3, <2>1, <2>2, <3>1, UnlinkedWhole
  <2> HIDE DEF u, w, x, p
  <2> QED
    BY <2>2, <2>3 DEF u, x, parent
<1> QED
  BY <1>4, <1>5

-----------------------------------------------------------------------------
(* The inductive invariant                                                 *)

(* A name that is there is found.                                          *)
LEMMA ThereFound ==
    ASSUME NEW n, NEW imgs, Directory(imgs, n), NEW name, HasName(imgs, n, name)
    PROVE  IsFound(imgs, name, FindFile(imgs, name))
<1>1. n \in Nat /\ imgs \in [1 .. n -> BlockImages] /\ \A i \in 1 .. n : DOMAIN imgs[i] # {}
  BY DEF Directory
<1> QED
  BY <1>1, FindFileGives DEF HasName

(* is_empty_dir holds of a directory that has no name but "." and "..".     *)
LEMMA EmptyDirIff ==
    ASSUME NEW imgs, NEW n, Directory(imgs, n)
    PROVE  IsEmptyDir(imgs) <=> \A r \in Listing(imgs) : r.name \in {".", ".."}
<1> DEFINE at == FindFile(imgs, "..")
           first == imgs[1]
           size == Size(".")
<1>1. Directory(imgs, n)
  OBVIOUS
<1>2. /\ n \in Nat /\ n >= 1 /\ 1 \in 1 .. n /\ imgs \in [1 .. n -> BlockImages] /\ \A k \in 1 .. n : DOMAIN imgs[k] # {}
      /\ \A k, l \in 1 .. n : \A p \in Reached(imgs[k]), q \in Reached(imgs[l]) :
            imgs[k][p].name = imgs[l][q].name => k = l /\ p = q
      /\ first[0].name = "." /\ first[0].len = size
      /\ size \in Reached(first) /\ first[size].name = ".."
  BY <1>1 DEF Directory
<1>3. Len(imgs) = n
  BY <1>2, FcnIsSeq
<1>4. first \in BlockImages /\ 0 \in Reached(first) /\ \A k \in 1 .. n : imgs[k] \in BlockImages /\ 0 \in Reached(imgs[k])
  BY <1>2, FirstReached
<1>5. at.block = 1 /\ at.pos = size
  <2>1. HasName(imgs, n, "..")
    BY <1>2 DEF HasName
  <2>2. IsFound(imgs, "..", at)
    BY <1>1, <2>1, ThereFound
  <2> HIDE DEF at
  <2>3. at.block \in 1 .. n /\ at.pos \in Reached(imgs[at.block]) /\ imgs[at.block][at.pos].name = ".."
    BY <1>2, <2>2 DEF IsFound
  <2> HIDE DEF size
  <2> QED
    BY <1>2, <2>3
<1> DEFINE end == size + first[size].len
<1>6. IsEmptyDir(imgs) <=> n <= 1 /\ end = BLOCK_SIZE
  <2>1. size \in Nat /\ -1 # size
    BY SizeFacts
  <2> HIDE DEF at, size
  <2> QED
    BY <1>3, <1>5, <2>1 DEF IsEmptyDir, at
<1> HIDE DEF first, size, at
<1>7. /\ size \in Nat /\ size > 0 /\ end \in Reached(first) \cup {BLOCK_SIZE} /\ end > size /\ end \in Nat
      /\ \A q \in Reached(first) : q > size => q >= end
      /\ \A q \in Reached(first) : q \in Nat /\ q < BLOCK_SIZE /\ (q > 0 => q >= size)
  <2>1. /\ size \in Nat /\ size > 0 /\ first[size].len \in Nat /\ first[size].len > 0
        /\ end \in Reached(first) \cup {BLOCK_SIZE} /\ \A q \in Reached(first) : q > size => q >= end
    BY <1>2, <1>4, ReachedFacts, SizeFacts DEF size
  <2>2. \A q \in Reached(first) : q \in Nat /\ q < BLOCK_SIZE
    BY <1>4, ReachedFacts
  <2>3. \A q \in Reached(first) : q > 0 => q >= 0 + first[0].len
    BY <1>4, ReachedFacts
  <2> QED
    BY <1>2, <2>1, <2>2, <2>3
<1> HIDE DEF end
<1>8. ASSUME n <= 1, end = BLOCK_SIZE, NEW r \in Listing(imgs)
      PROVE  r.name \in {".", ".."}
  <2>1. PICK k \in 1 .. n : r \in {imgs[k][p] : p \in Reached(imgs[k])}
    BY <1>2 DEF Listing
  <2>2. k = 1
    BY <1>2, <1>8
  <2>3. PICK p \in Reached(first) : r = first[p]
    BY <2>1, <2>2 DEF first
  <2>4. p = 0 \/ p = size
    BY <1>7, <1>8, <2>3
  <2> QED
    BY <1>2, <2>3, <2>4
<1>9. ASSUME NEW k \in 1 .. n, NEW p \in Reached(imgs[k]), \A r \in Listing(imgs) : r.name \in {".", ".."}
       PROVE  k = 1 /\ (p = 0 \/ p = size)
  <2>1. imgs[k][p] \in Listing(imgs)
    BY <1>2 DEF Listing
  <2>2. imgs[k][p].name = "." \/ imgs[k][p].name = ".."
    BY <1>9, <2>1
  <2> QED
    BY <1>2, <1>4, <2>2 DEF first
<1>10. ASSUME \A r \in Listing(imgs) : r.name \in {".", ".."}
       PROVE  n <= 1 /\ end = BLOCK_SIZE
  <2>1. \A k \in 1 .. n : k = 1
    BY <1>4, <1>9, <1>10
  <2>2. n <= 1
    BY <1>2, <2>1
  <2>3. \A p \in Reached(first) : p = 0 \/ p = size
    BY <1>2, <1>9, <1>10 DEF first
  <2> QED
    BY <1>7, <2>2, <2>3
<1> QED
  BY <1>6, <1>8, <1>10

\* What the callbacks leave, until something is freed or changed that is gone.
NamesInv == Whole(Device(<<>>)) /\ reply \in BOOLEAN

(* The blocks that will be handed out concern nothing else.                *)
LEMMA PickAny ==
    ASSUME NEW dev \in Devices, NEW pick \in Seq(Blocks)
    PROVE  LET d == [dev EXCEPT !.pick = pick]
           IN  /\ d \in Devices /\ d.pick = pick /\ d.free = dev.free
               /\ Numbers(dev) => Numbers(d)
               /\ Sane(dev) => Sane(d)
               /\ Whole(dev) => Whole(d)
<1> DEFINE d == [dev EXCEPT !.pick = pick]
<1>1. /\ d \in Devices /\ d.pick = pick
      /\ d.image = dev.image /\ d.free = dev.free /\ d.inodes = dev.inodes
      /\ d.latest = dev.latest /\ d.cache = dev.cache /\ d.removed = dev.removed
      /\ d.misfreed = dev.misfreed /\ d.strayed = dev.strayed
  BY DEF Devices
<1> HIDE DEF d
<1>2. Numbers(dev) => Numbers(d)
  BY <1>1, NumbersIff DEF AllUnder
<1>3. Live(d) = Live(dev)
  BY <1>1 DEF Live
<1>4. Sane(dev) => Sane(d)
  BY <1>1, <1>3, SaneElsewhere DEF SameBlocks
<1>5. Whole(dev) => Whole(d)
  BY <1>1, <1>2, <1>4 DEF Whole
<1> QED
  BY <1>1, <1>2, <1>4, <1>5 DEF d

\* A call that leaves a whole device keeps NamesInv.
LEMMA FinishKeeps ==
    ASSUME NEW d, Whole(d), NEW ok \in BOOLEAN, Finish(d, ok)
    PROVE  NamesInv'
<1> DEFINE e == [d EXCEPT !.pick = <<>>]
<1>1. d \in Devices
  BY DEF Whole
<1>2. Device(<<>>)' = e
  BY <1>1 DEF Device, Finish, Devices
<1>3. Whole(e)
  <2>1. <<>> \in Seq(Blocks)
    OBVIOUS
  <2> QED
    BY <1>1, <2>1, PickAny
<1>4. reply' \in BOOLEAN
  BY DEF Finish
<1> HIDE DEF e
<1> QED
  BY <1>2, <1>3, <1>4 DEF NamesInv

\* The blocks chosen for a call are free and no block occurs twice.
LEMMA PicksGive ==
    ASSUME NEW dev \in Devices, free = dev.free, NEW pick \in Picks
    PROVE  pick \in Seq(Blocks) /\ Picked([dev EXCEPT !.pick = pick])
<1>1. PICK n \in 0 .. 2 : pick \in [1 .. n -> free]
  BY DEF Picks
<1>2. free \subseteq Blocks /\ n \in Nat
  BY <1>1 DEF Devices
<1>3. pick \in Seq(free) /\ Len(pick) = n /\ DOMAIN pick = 1 .. n
  BY <1>1, <1>2, FcnIsSeq
<1>4. pick \in Seq(Blocks)
  BY <1>2, <1>3
<1>5. ASSUME n = 2, pick[1] = pick[2]
      PROVE  FALSE
  <2>1. DOMAIN pick = {1, 2}
    BY <1>3, <1>5
  <2>2. {pick[i] : i \in DOMAIN pick} = {pick[1]}
    BY <1>5, <2>1
  <2>3. Cardinality({pick[1]}) = 1
    BY FS_Singleton
  <2> DEFINE C == {pick[i] : i \in DOMAIN pick}
  <2>4. Cardinality(C) = Len(pick)
    BY DEF Picks
  <2>5. C = {pick[1]}
    BY <2>2
  <2> HIDE DEF C
  <2>6. Cardinality(C) = 1
    BY <2>3, <2>5
  <2> QED
    BY <1>3, <1>5, <2>4, <2>6
<1>6. ASSUME NEW j \in 1 .. n, NEW k \in 1 .. n, pick[j] = pick[k]
      PROVE  j = k
  <2>1. j = k \/ (n = 2 /\ j = 1 /\ k = 2) \/ (n = 2 /\ j = 2 /\ k = 1)
    BY <1>1
  <2> QED
    BY <1>5, <1>6, <2>1
<1> DEFINE d == [dev EXCEPT !.pick = pick]
<1>7. d.pick = pick /\ d.free = free
  BY <1>4 DEF Devices
<1> HIDE DEF d
<1>8. Picked(d)
  BY <1>1, <1>3, <1>6, <1>7 DEF Picked
<1> QED
  BY <1>4, <1>8 DEF d

\* make_fs leaves a whole device on which no inode is in use.
LEMMA FormattedMade ==
    ASSUME NEW b \in Blocks
    PROVE  Made([ok |-> TRUE, dev |-> Formatted(b), inum |-> ROOT_INODE])
<1> DEFINE dev == Formatted(b)
           images == [c \in Blocks |-> EmptyImage]
           inodesNow == [i \in Inums |-> BlankInode]
           none == [k \in {} |-> ROOT_INODE]
<1>1. images \in [Blocks -> BlockImages] /\ \A c \in Blocks : images[c] = EmptyImage
  BY EmptyUnder
<1>2. inodesNow \in [Inums -> InodeSet] /\ \A i \in Inums : inodesNow[i].kind = "none"
  BY NewInodeType
<1>3. none \in Caches /\ DOMAIN none = {}
  <2>1. DOMAIN none = {} /\ none = [k \in DOMAIN none |-> none[k]]
    OBVIOUS
  <2> HIDE DEF none
  <2> QED
    BY <2>1, CachesIff
<1>4. <<b>> \in Seq(Blocks) /\ ROOT_INODE + 1 \in Nat /\ ROOT_INODE + 1 <= inode_count /\ ROOT_INODE < ROOT_INODE + 1
  BY InodeCount DEF ROOT_INODE
<1>5. dev = [image |-> images, pick |-> <<b>>, free |-> Blocks, inodes |-> inodesNow, latest |-> ROOT_INODE + 1,
             cache |-> none, removed |-> {}, misfreed |-> FALSE, strayed |-> FALSE]
  BY DEF Formatted
<1> HIDE DEF dev, images, inodesNow, none
<1>6. /\ dev \in Devices /\ dev.image = images /\ dev.pick = <<b>> /\ dev.free = Blocks /\ dev.inodes = inodesNow
      /\ dev.latest = ROOT_INODE + 1 /\ dev.cache = none /\ dev.removed = {}
      /\ dev.misfreed = FALSE /\ dev.strayed = FALSE
  BY <1>1, <1>2, <1>3, <1>4, <1>5 DEF Devices
<1>7. Numbers(dev)
  <2>1. AllUnder(dev, dev.latest)
    BY <1>1, <1>6, EmptyUnder DEF AllUnder
  <2> QED
    BY <1>2, <1>3, <1>4, <1>6, <2>1, NumbersIff
<1>8. Live(dev) = {}
  BY <1>2, <1>6 DEF Live
<1>9. Sane(dev)
  BY <1>6, <1>8 DEF Sane
<1>10. Picked(dev)
  <2>1. DOMAIN <<b>> = {1} /\ <<b>>[1] = b
    OBVIOUS
  <2> QED
    BY <1>6, <2>1 DEF Picked
<1>11. Whole(dev)
  BY <1>6, <1>7, <1>9 DEF Whole
<1>12. ROOT_INODE \in Inums
  BY InodeCount
<1> DEFINE f == [ok |-> TRUE, dev |-> dev, inum |-> ROOT_INODE]
<1>13. f \in FileResults /\ f.ok = TRUE /\ f.dev = dev /\ f.inum = ROOT_INODE
  BY <1>6, <1>12 DEF FileResults
<1> HIDE DEF f
<1>14. Made(f)
  BY <1>2, <1>4, <1>6, <1>10, <1>11, <1>12, <1>13 DEF Made
<1> QED
  BY <1>14 DEF f, dev

\* The state init_file_layer leaves satisfies NamesInv.
LEMMA InitNames == Init => NamesInv
<1> SUFFICES ASSUME Init
             PROVE  NamesInv
  OBVIOUS
<1>1. PICK b \in Blocks :
         LET made == NewDir([ok |-> TRUE, dev |-> Formatted(b), inum |-> ROOT_INODE]).dev
         IN  /\ image = made.image /\ free = made.free /\ inodes = made.inodes
             /\ latest_inum = made.latest /\ cache = made.cache
             /\ removed = made.removed /\ misfreed = made.misfreed /\ strayed = made.strayed
  BY DEF Init
<1> DEFINE f == [ok |-> TRUE, dev |-> Formatted(b), inum |-> ROOT_INODE]
           made == NewDir(f).dev
<1>2. Whole(made)
  <2>1. Made(f)
    BY FormattedMade
  <2> HIDE DEF f
  <2> QED
    BY <2>1, DirectoryWritten
<1>3. /\ image = made.image /\ free = made.free /\ inodes = made.inodes
      /\ latest_inum = made.latest /\ cache = made.cache
      /\ removed = made.removed /\ misfreed = made.misfreed /\ strayed = made.strayed
  BY <1>1
<1> HIDE DEF made
<1>4. made \in Devices
  BY <1>2 DEF Whole
<1>5. Device(<<>>) = [made EXCEPT !.pick = <<>>]
  BY <1>3, <1>4 DEF Device, Devices
<1>6. <<>> \in Seq(Blocks)
  OBVIOUS
<1>7. Whole(Device(<<>>))
  BY <1>2, <1>4, <1>5, <1>6, PickAny
<1>8. reply \in BOOLEAN
  BY DEF Init
<1> QED
  BY <1>7, <1>8 DEF NamesInv

\* Every call keeps NamesInv.
LEMMA NextNames == NamesInv /\ [Next]_vars => NamesInv'
<1> SUFFICES ASSUME NamesInv, [Next]_vars
             PROVE  NamesInv'
  OBVIOUS
<1> DEFINE dev == Device(<<>>)
<1>1. dev \in Devices /\ Whole(dev) /\ reply \in BOOLEAN
  BY DEF NamesInv, Whole
<1>2. CASE UNCHANGED vars
  BY <1>2 DEF vars, NamesInv, Device
<1>3. CASE Next
  <2>1. Numbers(dev) /\ Sane(dev)
    BY <1>1, <1>3 DEF Next, Whole, Device
  <2>2. Fit(dev)
    <3>1. dev.pick = <<>> /\ DOMAIN <<>> = {}
      BY DEF Device
    <3>2. Picked(dev)
      BY <3>1 DEF Picked
    <3> QED
      BY <1>1, <2>1, <3>2 DEF Fit
  <2>3. ASSUME NEW pick \in Picks
        PROVE  Fit(Device(pick))
    <3>1. free = dev.free /\ Device(pick) = [dev EXCEPT !.pick = pick]
      BY DEF Device
    <3> HIDE DEF dev
    <3>2. pick \in Seq(Blocks) /\ Picked([dev EXCEPT !.pick = pick])
      BY <1>1, <3>1, PicksGive
    <3> QED
      BY <1>1, <2>1, <3>1, <3>2, PickAny DEF Fit
  <2> HIDE DEF dev
  <2>4. ASSUME NEW path \in Paths, LookUp(path)
        PROVE  NamesInv'
    <3> DEFINE r == Resolve(dev, path, FALSE)
    <3>1. LooksUp(r, dev)
      BY <1>1, PathsGive, ResolveLooksUp
    <3>2. Finish(r.dev, r.inum # NoInode)
      BY <2>4 DEF LookUp, dev
    <3> HIDE DEF r
    <3>3. Whole(r.dev)
      BY <2>2, <3>1, LookedUpFit, FitWhole
    <3> QED
      BY <3>2, <3>3, FinishKeeps
  <2>5. ASSUME NEW key, LookUpElsewhere(key)
        PROVE  NamesInv'
    <3> DEFINE d == Uncached(dev, key)
    <3>1. Finish(d, TRUE)
      BY <2>5 DEF LookUpElsewhere, dev
    <3>2. /\ d \in Devices
          /\ d.image = dev.image /\ d.free = dev.free /\ d.inodes = dev.inodes
          /\ d.latest = dev.latest /\ d.removed = dev.removed
          /\ \A k \in DOMAIN d.cache : k \in DOMAIN dev.cache /\ d.cache[k] = dev.cache[k]
      BY <1>1, UncachedGives
    <3> HIDE DEF d
    <3>3. Numbers(d)
      BY <2>1, <3>2, NumbersIff DEF AllUnder
    <3>4. Live(d) = Live(dev)
      BY <3>2 DEF Live
    <3>5. Sane(d)
      BY <1>1, <2>1, <3>2, <3>4, SaneElsewhere DEF SameBlocks
    <3>6. Whole(d)
      BY <3>2, <3>3, <3>5 DEF Whole
    <3> QED
      BY <3>1, <3>6, FinishKeeps
  <2>6. ASSUME NEW path \in Paths, CreateFile(path)
        PROVE  NamesInv'
    <3>1. PICK pick \in Picks :
             LET f == NewFile(Device(pick), path)
             IN  Return(IF f.ok THEN [f EXCEPT !.dev.inodes[f.inum] = NewInode("file")] ELSE f)
      BY <2>6 DEF CreateFile
    <3> DEFINE f == NewFile(Device(pick), path)
               r == IF f.ok THEN [f EXCEPT !.dev.inodes[f.inum] = NewInode("file")] ELSE f
    <3>2. Made(f)
      BY <2>3, PathsGive, NewFileMade
    <3>3. Finish(r.dev, r.ok)
      BY <3>1 DEF Return
    <3> HIDE DEF f
    <3>4. Whole(r.dev) /\ r.ok \in BOOLEAN
      <4>1. Whole(f.dev) /\ f.ok \in BOOLEAN
        BY <3>2 DEF Made, FileResults
      <4> QED
        BY <3>2, <4>1, FileWritten
    <3> HIDE DEF r
    <3> QED
      BY <3>3, <3>4, FinishKeeps
  <2>7. ASSUME NEW path \in Paths, MakeDir(path)
        PROVE  NamesInv'
    <3>1. PICK pick \in Picks : Return(NewDir(NewFile(Device(pick), path)))
      BY <2>7 DEF MakeDir
    <3> DEFINE r == NewDir(NewFile(Device(pick), path))
    <3>2. Whole(r.dev) /\ r.ok \in BOOLEAN
      BY <2>3, PathsGive, NewFileMade, DirectoryWritten
    <3>3. Finish(r.dev, r.ok)
      BY <3>1 DEF Return
    <3> HIDE DEF r
    <3> QED
      BY <3>2, <3>3, FinishKeeps
  <2>8. ASSUME NEW path \in Paths, Unlink(path)
        PROVE  NamesInv'
    <3> DEFINE r == Resolve(dev, path, FALSE)
               gone == \/ r.inum = NoInode
                       \/ r.dev.inodes[r.inum].kind = "dir" /\ ~ IsEmptyDir(Images(r.dev, r.dev.inodes[r.inum]))
               u == Unlinked(Parent(r.dev, path), r.inum, path)
    <3>1. LooksUp(r, dev)
      BY <1>1, PathsGive, ResolveLooksUp
    <3>2. UnlinkFound(r, path)
      BY <2>8 DEF Unlink, dev
    <3> HIDE DEF r
    <3>3. Fit(r.dev) /\ r.inum \in Inums \cup {NoInode} /\ r.inum < r.dev.latest
      BY <2>2, <3>1, LookedUpFit
    <3>4. CASE gone
      <4>1. Finish(r.dev, TRUE)
        BY <3>2, <3>4 DEF UnlinkFound
      <4> QED
        BY <3>3, <4>1, FitWhole, FinishKeeps
    <3>5. CASE ~ gone
      <4>1. Finish(u.dev, u.ok)
        BY <3>2, <3>5 DEF UnlinkFound, Return
      <4>2. r.inum \in Inums
        BY <3>3, <3>5
      <4>3. Whole(u.dev) /\ u.ok \in BOOLEAN
        BY <3>3, <4>2, UnlinkFoundWhole
      <4> HIDE DEF u
      <4> QED
        BY <4>1, <4>3, FinishKeeps
    <3> QED
      BY <3>4, <3>5
  <2> QED
    BY <1>3, <2>4, <2>5, <2>6, <2>7, <2>8 DEF Next
<1> QED
  BY <1>2, <1>3

\* The inductive invariant: numbers not given yet are nowhere, and until something is freed twice or a
\* removed directory is used, free blocks and directories are as Sane says.
THEOREM NamesInvariant == Spec => []NamesInv
  BY InitNames, NextNames, PTL DEF Spec

-----------------------------------------------------------------------------
(* The theorems                                                            *)

\* What the invariant says of the state, while nothing is wrong.
LEMMA SoundGives ==
    ASSUME NamesInv, Sound
    PROVE  /\ Sane(Device(<<>>)) /\ Device(<<>>) \in Devices
           /\ Directories = Live(Device(<<>>))
           /\ Device(<<>>).inodes = inodes /\ Device(<<>>).free = free
           /\ \A i \in Directories :
                 /\ i \in Inums /\ inodes[i] \in InodeSet /\ inodes[i].kind = "dir"
                 /\ Directory(ImagesOf(i), inodes[i].num_blocks)
<1>1. Sane(Device(<<>>)) /\ Device(<<>>) \in Devices
  BY DEF NamesInv, Whole, Sound, Device
<1>2. Directories = Live(Device(<<>>)) /\ Device(<<>>).inodes = inodes /\ Device(<<>>).free = free
  BY DEF Directories, Live, Device
<1>3. ASSUME NEW i \in Directories
      PROVE  /\ i \in Inums /\ inodes[i] \in InodeSet /\ inodes[i].kind = "dir"
             /\ Directory(ImagesOf(i), inodes[i].num_blocks)
  <2>1. i \in Inums /\ inodes[i].kind = "dir"
    BY DEF Directories
  <2>2. inodes[i] \in InodeSet
    <3>1. inodes \in [Inums -> InodeSet]
      BY <1>1, <1>2 DEF Devices
    <3> QED
      BY <2>1, <3>1
  <2> QED
    BY <1>1, <1>2, <2>1, <2>2 DEF Sane, ImagesOf
<1> QED
  BY <1>1, <1>2, <1>3

(* Inode numbers, links, block numbers and their counts, and the cached    *)
(* numbers have their types, whatever the callbacks did (file_layer.c,     *)
(* block_layer.c).                                                         *)
THEOREM TypeCorrect == Spec => []TypeOK
<1>1. NamesInv => TypeOK
  <2> SUFFICES ASSUME NamesInv
               PROVE  TypeOK
    OBVIOUS
  <2> DEFINE dev == Device(<<>>)
  <2>1. dev \in Devices /\ Numbers(dev) /\ reply \in BOOLEAN
    BY DEF NamesInv, Whole
  <2>2. /\ free \subseteq Blocks /\ removed \subseteq Inums /\ misfreed \in BOOLEAN /\ strayed \in BOOLEAN
        /\ latest_inum \in Nat /\ inodes \in [Inums -> InodeSet] /\ cache \in Caches
    BY <2>1 DEF Devices, Device
  <2>3. ROOT_INODE < latest_inum /\ latest_inum <= inode_count
    BY <2>1 DEF Numbers, Device
  <2>4. latest_inum \in 3 .. inode_count
    BY <2>2, <2>3, InodeCount DEF ROOT_INODE
  <2>5. ASSUME NEW i \in Inums
        PROVE  /\ inodes[i].kind \in {"none", "file", "dir"} /\ inodes[i].links \in Int /\ inodes[i].links <= 1
               /\ inodes[i].blocks \in Seq(Blocks) /\ inodes[i].num_blocks \in 0 .. Len(inodes[i].blocks)
    <3>1. inodes[i] \in InodeSet
      BY <2>2
    <3> DEFINE node == inodes[i]
    <3> HIDE DEF node
    <3>2. node \in InodeSet
      BY <3>1 DEF node
    <3>3. /\ node.kind \in {"none", "file", "dir"} /\ node.links \in Int /\ node.links <= 1
          /\ node.blocks \in Seq(Blocks) /\ Len(node.blocks) \in Nat
          /\ node.num_blocks \in Nat /\ node.num_blocks <= Len(node.blocks)
      BY <3>2, InodeFacts
    <3>4. node.num_blocks \in 0 .. Len(node.blocks)
      BY <3>3
    <3> QED
      BY <3>3, <3>4 DEF node
  <2>6. \A k \in DOMAIN cache : cache[k] \in Inums
    BY <2>2, CachesIff
  <2> QED
    BY <2>1, <2>2, <2>4, <2>5, <2>6 DEF TypeOK
<1> QED
  BY <1>1, NamesInvariant, PTL

(* The records of a directory's blocks follow one another to the end of the*)
(* block after any additions (split_entry, add_new_entry) and removals     *)
(* (custom_unlink), so that find_file is never broken off.                 *)
THEOREM RecordsAlwaysTile == Spec => []RecordsTile
<1>1. NamesInv => RecordsTile
  <2> SUFFICES ASSUME NamesInv, Sound, NEW i \in Directories, NEW j \in DOMAIN ImagesOf(i)
               PROVE  Tiled(ImagesOf(i)[j])
    BY DEF RecordsTile
  <2>1. Directory(ImagesOf(i), inodes[i].num_blocks)
    BY SoundGives
  <2>2. ImagesOf(i)[j] \in BlockImages /\ DOMAIN ImagesOf(i)[j] # {}
    BY <2>1 DEF Directory
  <2> QED
    BY <2>2, BlockImageFacts
<1> QED
  BY <1>1, NamesInvariant, PTL

(* A name that readdir shows is found by find_file, and the record it finds*)
(* is the one that was shown: no name is in a directory twice.             *)
THEOREM ListedAlwaysFound == Spec => []ListedIsFound
<1>1. NamesInv => ListedIsFound
  <2> SUFFICES ASSUME NamesInv, Sound, NEW i \in Directories, NEW r \in Listing(ImagesOf(i))
               PROVE  LET at == FindFile(ImagesOf(i), r.name) IN at.pos # -1 /\ ImagesOf(i)[at.block][at.pos] = r
    BY DEF ListedIsFound
  <2> DEFINE imgs == ImagesOf(i)
             n == inodes[i].num_blocks
             at == FindFile(imgs, r.name)
  <2>1. Directory(imgs, n)
    BY SoundGives
  <2>2. r \in Listing(imgs)
    OBVIOUS
  <2> HIDE DEF imgs, n
  <2>3. /\ n \in Nat /\ imgs \in [1 .. n -> BlockImages] /\ \A k \in 1 .. n : DOMAIN imgs[k] # {}
        /\ \A k, l \in 1 .. n : \A p \in Reached(imgs[k]), q \in Reached(imgs[l]) :
              imgs[k][p].name = imgs[l][q].name => k = l /\ p = q
    BY <2>1 DEF Directory
  <2>4. PICK k \in 1 .. n : r \in {imgs[k][p] : p \in Reached(imgs[k])}
    BY <2>2, <2>3 DEF Listing
  <2>5. PICK p \in Reached(imgs[k]) : r = imgs[k][p]
    BY <2>4
  <2>6. HasName(imgs, n, r.name)
    BY <2>5 DEF HasName
  <2>7. IsFound(imgs, r.name, at)
    BY <2>1, <2>6, ThereFound
  <2> HIDE DEF at
  <2>8. /\ at.block \in 1 .. n /\ at.pos \in Reached(imgs[at.block]) /\ at.pos # -1
        /\ imgs[at.block][at.pos].name = r.name
    BY <2>3, <2>7 DEF IsFound
  <2>9. at.block = k /\ at.pos = p
    BY <2>3, <2>5, <2>8
  <2> QED
    BY <2>5, <2>8, <2>9 DEF imgs, at
<1> QED
  BY <1>1, NamesInvariant, PTL

(* is_empty_dir, which rmdir goes by, holds of a directory exactly when it *)
(* lists no other name than "." and "..": no block but the first is ever   *)
(* left without one, and ".." stays where the test looks for it.           *)
THEOREM EmptyAlwaysMeansEmpty == Spec => []EmptyMeansEmpty
<1>1. NamesInv => EmptyMeansEmpty
  <2> SUFFICES ASSUME NamesInv, Sound, NEW i \in Directories
               PROVE  IsEmptyDir(ImagesOf(i)) <=> Named(i) = {}
    BY DEF EmptyMeansEmpty
  <2> DEFINE imgs == ImagesOf(i)
             n == inodes[i].num_blocks
  <2>1. Directory(imgs, n)
    BY SoundGives
  <2>2. Named(i) = {} <=> \A r \in Listing(imgs) : r.name \in {".", ".."}
    BY DEF Named
  <2> HIDE DEF imgs, n
  <2>3. IsEmptyDir(imgs) <=> \A r \in Listing(imgs) : r.name \in {".", ".."}
    BY <2>1, EmptyDirIff
  <2> QED
    BY <2>2, <2>3 DEF imgs
<1> QED
  BY <1>1, NamesInvariant, PTL

(* The blocks that create_new_dblock may hand out are those that no        *)
(* directory uses, and no block has two uses, however directories grow and *)
(* shrink (add_new_entry, custom_unlink) and go (free_inode).              *)
THEOREM BlocksAlwaysAccounted == Spec => []BlocksAccounted
<1>1. NamesInv => BlocksAccounted
  <2> SUFFICES ASSUME NamesInv, Sound
               PROVE  /\ free = Blocks \ UNION {UsedBy(Device(<<>>), d) : d \in Directories}
                      /\ \A d, e \in Directories :
                            \A j \in 1 .. inodes[d].num_blocks, k \in 1 .. inodes[e].num_blocks :
                               inodes[d].blocks[j] = inodes[e].blocks[k] => d = e /\ j = k
    BY DEF BlocksAccounted
  <2> DEFINE dev == Device(<<>>)
  <2>1. /\ Sane(dev) /\ dev \in Devices /\ Directories = Live(dev) /\ dev.inodes = inodes /\ dev.free = free
        /\ \A i \in Directories : i \in Inums /\ inodes[i] \in InodeSet /\ inodes[i].kind = "dir"
    BY SoundGives
  <2> HIDE DEF dev
  <2>2. free \subseteq Blocks
    BY <2>1 DEF Devices
  <2>3. ASSUME NEW d \in Directories
        PROVE  \A b : b \in UsedBy(dev, d) <=> Holds(inodes[d], b)
    BY <2>1 DEF UsedBy, Holds
  <2>4. \A b \in Blocks : b \in free <=> \A d \in Directories : ~ Holds(inodes[d], b)
    BY <2>1 DEF Sane
  <2>5. free = Blocks \ UNION {UsedBy(dev, d) : d \in Directories}
    <3>1. ASSUME NEW b \in Blocks
          PROVE  b \in UNION {UsedBy(dev, d) : d \in Directories} <=> \E d \in Directories : Holds(inodes[d], b)
      BY <2>3
    <3> QED
      BY <2>2, <2>4, <3>1
  <2>6. ASSUME NEW d \in Directories, NEW e \in Directories,
               NEW j \in 1 .. inodes[d].num_blocks, NEW k \in 1 .. inodes[e].num_blocks,
               inodes[d].blocks[j] = inodes[e].blocks[k]
        PROVE  d = e /\ j = k
    <3> DEFINE b == inodes[d].blocks[j]
    <3>1. b \in Blocks
      BY <2>1, InodeFacts
    <3>2. Holds(inodes[d], b) /\ Holds(inodes[e], b)
      BY <2>6 DEF Holds
    <3>3. d = e
      BY <2>1, <3>1, <3>2 DEF Sane
    <3>4. Distinct(inodes[d])
      BY <2>1 DEF Sane
    <3> QED
      BY <2>6, <3>3, <3>4 DEF Distinct
  <2> QED
    BY <2>5, <2>6 DEF dev
<1> QED
  BY <1>1, NamesInvariant, PTL
=============================================================================
