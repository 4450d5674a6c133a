----------------------------- MODULE TreeProofs -----------------------------
(***************************************************************************)
(* Theorems about the names in Namespace.  The records of the directories  *)
(* on the device are the edges of a tree from the root, each inode's       *)
(* number in one record of it; the path cache tells of every path what the *)
(* walk of that tree would, or of an inode that is gone; and so the calls  *)
(* do to the device what NameTree says they do to names.                   *)
(***************************************************************************)
EXTENDS NamespaceProofs

(* The first n names of a path.                                            *)
LEMMA PrefixFacts ==
    ASSUME NEW path \in Seq(NameSet), NEW n \in 0 .. Len(path)
    PROVE  LET p == SubSeq(path, 1, n)
           IN  /\ p \in Seq(NameSet) /\ Len(p) = n /\ \A k \in 1 .. n : p[k] = path[k]
               /\ n = Len(path) => p = path
               /\ n = 0 => p = <<>>
               /\ n > 0 => Front(p) = SubSeq(path, 1, n - 1) /\ Last(p) = path[n]
<1> DEFINE p == SubSeq(path, 1, n)
<1>1. n \in Nat /\ n \in Int /\ 1 \in Int /\ Len(path) \in Nat /\ n <= Len(path)
  OBVIOUS
<1>2. \A i \in 1 .. Len(path) : path[i] \in NameSet
  OBVIOUS
<1>3. \A i \in 1 .. n : path[i] \in NameSet
  BY <1>1, <1>2
<1>4. /\ p \in Seq(NameSet) /\ Len(p) = IF 1 <= n THEN n - 1 + 1 ELSE 0
      /\ \A i \in 1 .. n - 1 + 1 : p[i] = path[1 + i - 1]
  BY <1>1, <1>3, SubSeqProperties
<1> HIDE DEF p
<1>5. Len(p) = n /\ \A k \in 1 .. n : p[k] = path[k]
  BY <1>1, <1>4
<1>6. n = Len(path) => p = path
  BY SubSeqFull DEF p
<1>7. n = 0 => p = <<>>
  BY <1>4, <1>5, EmptySeq
<1>8. ASSUME n > 0
      PROVE  Front(p) = SubSeq(path, 1, n - 1) /\ Last(p) = path[n]
  <2>1. Front(p) = SubSeq(p, 1, n - 1) /\ Last(p) = p[n] /\ n \in 1 .. n
    BY <1>1, <1>5, <1>8 DEF Front, Last
  <2>2. SubSeq(p, 1, n - 1) = SubSeq(path, 1, n - 1)
    <3> DEFINE a == SubSeq(p, 1, n - 1)
               b == SubSeq(path, 1, n - 1)
    <3>1. n - 1 \in Int /\ n - 1 \in Nat /\ \A i \in 1 .. n - 1 : i \in 1 .. n /\ 1 + i - 1 = i
      BY <1>1, <1>8
    <3>2. \A i \in 1 .. n - 1 : path[i] \in NameSet /\ p[i] \in NameSet
      BY <1>3, <1>5, <3>1
    <3>3. /\ a \in Seq(NameSet) /\ Len(a) = IF 1 <= n - 1 THEN n - 1 - 1 + 1 ELSE 0
          /\ \A i \in 1 .. n - 1 - 1 + 1 : a[i] = p[1 + i - 1]
      BY <1>1, <3>1, <3>2, SubSeqProperties
    <3>4. /\ b \in Seq(NameSet) /\ Len(b) = IF 1 <= n - 1 THEN n - 1 - 1 + 1 ELSE 0
          /\ \A i \in 1 .. n - 1 - 1 + 1 : b[i] = path[1 + i - 1]
      BY <1>1, <3>1, <3>2, SubSeqProperties
    <3> HIDE DEF a, b
    <3>5. Len(a) = n - 1 /\ Len(b) = n - 1 /\ \A i \in 1 .. n - 1 : a[i] = b[i]
      BY <1>5, <3>1, <3>3, <3>4
    <3>6. a = b
      BY <3>3, <3>4, <3>5, SeqEqual
    <3> QED
      BY <3>6 DEF a, b
  <2> QED
    BY <1>5, <2>1, <2>2
<1> QED
  BY <1>4, <1>5, <1>6, <1>7, <1>8 DEF p

(* A path is the path without its last name, and that name.                *)
LEMMA FrontAndLast ==
    ASSUME NEW p \in Seq(NameSet), Len(p) > 0
    PROVE  /\ Front(p) \in Seq(NameSet) /\ Len(Front(p)) = Len(p) - 1 /\ p = Append(Front(p), Last(p))
           /\ Last(p) = p[Len(p)] /\ Last(p) \in NameSet /\ \A k \in 1 .. Len(p) - 1 : Front(p)[k] = p[k]
           /\ Front(p) = SubSeq(p, 1, Len(p) - 1)
<1> DEFINE n == Len(p)
<1>1. n \in Nat /\ n - 1 \in 0 .. n /\ n \in 1 .. n
  OBVIOUS
<1>2. Front(p) = SubSeq(p, 1, n - 1) /\ Last(p) = p[n]
  BY DEF Front, Last
<1>3. Front(p) \in Seq(NameSet) /\ Len(Front(p)) = n - 1 /\ \A k \in 1 .. n - 1 : Front(p)[k] = p[k]
  <2>1. PICK m : m = n - 1 /\ m \in 0 .. Len(p)
    BY <1>1
  <2>2. /\ SubSeq(p, 1, m) \in Seq(NameSet) /\ Len(SubSeq(p, 1, m)) = m
        /\ \A k \in 1 .. m : SubSeq(p, 1, m)[k] = p[k]
    BY <2>1, PrefixFacts
  <2>3. Front(p) = SubSeq(p, 1, m)
    BY <1>2, <2>1
  <2> HIDE DEF n
  <2> QED
    BY <2>1, <2>2, <2>3
<1>4. Last(p) \in NameSet
  BY <1>1, <1>2
<1> DEFINE a == Append(Front(p), Last(p))
<1>5. a \in Seq(NameSet) /\ Len(a) = n /\ a[n] = Last(p) /\ \A k \in 1 .. n - 1 : a[k] = Front(p)[k]
  BY <1>1, <1>3, <1>4
<1> HIDE DEF a
<1>6. \A k \in 1 .. n : a[k] = p[k]
  BY <1>2, <1>3, <1>5
<1>7. a = p
  BY <1>5, <1>6, SeqEqual
<1> QED
  BY <1>1, <1>2, <1>3, <1>4, <1>7 DEF a

-----------------------------------------------------------------------------
(* What paths stand for                                                    *)

\* An edge is a directory, a name in it, and the number the name stands for.
EdgeSet == Inums \X NameSet \X Inums

\* f is the walk along p from the root.
Goes(E, p, f) ==
    /\ f \in [0 .. Len(p) -> Inums] /\ f[0] = ROOT_INODE
    /\ \A k \in 1 .. Len(p) : <<f[k - 1], p[k], f[k]>> \in E

Denotes(E, p, i) == \E f : Goes(E, p, f) /\ f[Len(p)] = i

\* Every number has one name, and a name stands for one number.
Forest(E) ==
    /\ \A e, g \in E : e[3] = g[3] => e = g
    /\ \A e, g \in E : e[1] = g[1] /\ e[2] = g[2] => e = g
    /\ \A e \in E : e[3] # ROOT_INODE

\* The root is where the empty path leads.
LEMMA RootDenoted ==
    ASSUME NEW E
    PROVE  /\ Denotes(E, <<>>, ROOT_INODE)
           /\ \A i : Denotes(E, <<>>, i) => i = ROOT_INODE
<1>1. Len(<<>>) = 0
  OBVIOUS
<1>2. Goes(E, <<>>, [k \in 0 .. 0 |-> ROOT_INODE])
  BY <1>1, InodeCount DEF Goes
<1>3. Denotes(E, <<>>, ROOT_INODE)
  BY <1>1, <1>2 DEF Denotes
<1>4. ASSUME NEW i, Denotes(E, <<>>, i)
      PROVE  i = ROOT_INODE
  BY <1>1, <1>4 DEF Denotes, Goes
<1> QED
  BY <1>3, <1>4

\* One name further than what a path stands for.
LEMMA OneFurther ==
    ASSUME NEW E \in SUBSET EdgeSet, NEW p \in Seq(NameSet), NEW i, Denotes(E, p, i), NEW name, NEW j, <<i, name, j>> \in E
    PROVE  Append(p, name) \in Seq(NameSet) /\ Denotes(E, Append(p, name), j)
<1>1. PICK f : Goes(E, p, f) /\ f[Len(p)] = i
  BY DEF Denotes
<1>2. i \in Inums /\ name \in NameSet /\ j \in Inums
  BY DEF EdgeSet
<1> DEFINE q == Append(p, name)
           n == Len(p)
           g == [k \in 0 .. n + 1 |-> IF k = n + 1 THEN j ELSE f[k]]
<1>3. /\ n \in Nat /\ q \in Seq(NameSet) /\ Len(q) = n + 1 /\ q[n + 1] = name
      /\ \A k \in 1 .. n : q[k] = p[k]
  BY <1>2
<1> HIDE DEF q
<1>4. g \in [0 .. Len(q) -> Inums] /\ g[0] = ROOT_INODE /\ g[Len(q)] = j
  BY <1>1, <1>2, <1>3 DEF Goes
<1>5. ASSUME NEW k \in 1 .. Len(q)
      PROVE  <<g[k - 1], q[k], g[k]>> \in E
  <2>1. CASE k = n + 1
    <3>1. k - 1 = n /\ n \in 0 .. n + 1 /\ k \in 0 .. n + 1 /\ n # n + 1
      BY <1>3, <2>1
    <3>2. g[k - 1] = i /\ g[k] = j /\ q[k] = name
      BY <1>1, <1>3, <2>1, <3>1
    <3> QED
      BY <3>2
  <2>2. CASE k # n + 1
    <3>1. k \in 1 .. n /\ k - 1 \in 0 .. n + 1 /\ k \in 0 .. n + 1 /\ k - 1 # n + 1
      BY <1>3, <2>2
    <3>2. g[k - 1] = f[k - 1] /\ g[k] = f[k] /\ q[k] = p[k]
      BY <1>3, <2>2, <3>1
    <3> QED
      BY <1>1, <3>1, <3>2 DEF Goes
  <2> QED
    BY <2>1, <2>2
<1>6. Goes(E, q, g)
  BY <1>4, <1>5 DEF Goes
<1> QED
  BY <1>3, <1>4, <1>6 DEF Denotes, q

\* A path that is not the root's leads on from what the path without the last name stands for.
LEMMA OneBefore ==
    ASSUME NEW E \in SUBSET EdgeSet, NEW p \in Seq(NameSet), Len(p) > 0, NEW j, Denotes(E, p, j)
    PROVE  \E i \in Inums : Denotes(E, Front(p), i) /\ <<i, Last(p), j>> \in E
<1>1. PICK f : Goes(E, p, f) /\ f[Len(p)] = j
  BY DEF Denotes
<1> DEFINE n == Len(p) - 1
           q == Front(p)
           g == [k \in 0 .. n |-> f[k]]
<1>2. /\ n \in Nat /\ Len(q) = n /\ Last(p) = p[n + 1] /\ n + 1 = Len(p)
      /\ \A k \in 1 .. n : q[k] = p[k]
  BY FrontAndLast
<1> HIDE DEF q, n
<1>3. g \in [0 .. n -> Inums] /\ g[0] = ROOT_INODE /\ g[n] = f[n] /\ f[n] \in Inums
  BY <1>1, <1>2 DEF Goes
<1>4. ASSUME NEW k \in 1 .. n
      PROVE  <<g[k - 1], q[k], g[k]>> \in E
  <2>1. k \in 1 .. Len(p) /\ k \in 0 .. n /\ k - 1 \in 0 .. n
    BY <1>2
  <2>2. <<f[k - 1], p[k], f[k]>> \in E
    BY <1>1, <2>1 DEF Goes
  <2> QED
    BY <1>2, <2>1, <2>2
<1>5. Goes(E, q, g)
  BY <1>2, <1>3, <1>4 DEF Goes
<1>6. <<f[n], Last(p), j>> \in E
  <2>1. n + 1 \in 1 .. Len(p) /\ n + 1 - 1 = n
    BY <1>2
  <2>2. <<f[n + 1 - 1], p[n + 1], f[n + 1]>> \in E
    BY <1>1, <2>1 DEF Goes
  <2> QED
    BY <1>1, <1>2, <2>1, <2>2
<1> QED
  BY <1>2, <1>3, <1>5, <1>6 DEF Denotes, q

\* A path stands for one number.
LEMMA OnePlace ==
    ASSUME NEW E \in SUBSET EdgeSet, Forest(E), NEW p \in Seq(NameSet), NEW i, Denotes(E, p, i),
           NEW j, Denotes(E, p, j)
    PROVE  i = j
<1>1. PICK f : Goes(E, p, f) /\ f[Len(p)] = i
  BY DEF Denotes
<1>2. PICK g : Goes(E, p, g) /\ g[Len(p)] = j
  BY DEF Denotes
<1> DEFINE S == {k \in 0 .. Len(p) : f[k] = g[k]}
<1>3. 0 \in S /\ Len(p) \in Nat /\ Len(p) \in 0 .. Len(p)
  BY <1>1, <1>2 DEF Goes
<1>4. ASSUME NEW k \in 1 .. Len(p), k - 1 \in S
      PROVE  k \in S
  <2>1. f[k - 1] = g[k - 1] /\ k \in 0 .. Len(p)
    BY <1>4
  <2>2. <<f[k - 1], p[k], f[k]>> \in E /\ <<g[k - 1], p[k], g[k]>> \in E
    BY <1>1, <1>2 DEF Goes
  <2>3. <<f[k - 1], p[k], f[k]>> = <<g[k - 1], p[k], g[k]>>
    BY <2>1, <2>2 DEF Forest
  <2> QED
    BY <2>1, <2>3
<1>5. \A k \in 0 .. Len(p) : k \in S
  <2> HIDE DEF S
  <2> QED
    BY <1>3, <1>4, RangeInduction
<1> QED
  BY <1>1, <1>2, <1>3, <1>5

\* The longer of two paths to the same number is the shorter one.
LEMMA NoLongerPath ==
    ASSUME NEW E \in SUBSET EdgeSet, Forest(E), NEW p \in Seq(NameSet), NEW q \in Seq(NameSet), Len(p) <= Len(q),
           NEW i, Denotes(E, p, i), Denotes(E, q, i)
    PROVE  p = q
<1>1. PICK f : Goes(E, p, f) /\ f[Len(p)] = i
  BY DEF Denotes
<1>2. PICK g : Goes(E, q, g) /\ g[Len(q)] = i
  BY DEF Denotes
<1>3. PICK m, n : m = Len(p) /\ n = Len(q) /\ m \in Nat /\ n \in Nat /\ m <= n
  OBVIOUS
<1> DEFINE S == {k \in 0 .. m : f[m - k] = g[n - k]}
<1>4. 0 \in S
  BY <1>1, <1>2, <1>3
<1>5. ASSUME NEW k \in 1 .. m, f[m - (k - 1)] = g[n - (k - 1)]
      PROVE  f[m - k] = g[n - k] /\ p[m - (k - 1)] = q[n - (k - 1)]
  <2>1. PICK a, b : a = m - (k - 1) /\ b = n - (k - 1) /\ a \in 1 .. m /\ b \in 1 .. n /\ a - 1 = m - k /\ b - 1 = n - k
    BY <1>3
  <2>2. <<f[a - 1], p[a], f[a]>> \in E /\ <<g[b - 1], q[b], g[b]>> \in E
    BY <1>1, <1>2, <1>3, <2>1 DEF Goes
  <2>3. f[a] = g[b]
    BY <1>5, <2>1
  <2>4. <<f[a - 1], p[a], f[a]>> = <<g[b - 1], q[b], g[b]>>
    BY <2>2, <2>3 DEF Forest
  <2> QED
    BY <2>1, <2>4
<1>6. \A k \in 1 .. m : k - 1 \in S => k \in S
  BY <1>5
<1>7. \A k \in 0 .. m : k \in S
  <2> HIDE DEF S
  <2> QED
    BY <1>3, <1>4, <1>6, RangeInduction
<1>8. m = n
  <2> SUFFICES ASSUME m # n
               PROVE  FALSE
    OBVIOUS
  <2>1. m \in 0 .. m /\ m - m = 0 /\ n - m \in 1 .. n
    BY <1>3
  <2>2. f[0] = g[n - m]
    BY <1>7, <2>1
  <2>3. <<g[(n - m) - 1], q[n - m], g[n - m]>> \in E
    BY <1>2, <1>3, <2>1 DEF Goes
  <2>4. g[n - m] # ROOT_INODE
    BY <2>3 DEF Forest
  <2> QED
    BY <1>1, <2>2, <2>4 DEF Goes
<1>9. ASSUME NEW k \in 1 .. m
      PROVE  p[k] = q[k]
  <2>1. m - k + 1 \in 1 .. m /\ (m - k + 1) - 1 \in 0 .. m /\ m - ((m - k + 1) - 1) = k
    BY <1>3
  <2>2. f[m - ((m - k + 1) - 1)] = g[n - ((m - k + 1) - 1)]
    BY <1>7, <2>1
  <2>3. p[m - ((m - k + 1) - 1)] = q[n - ((m - k + 1) - 1)]
    BY <1>5, <2>1, <2>2
  <2> QED
    BY <1>8, <2>1, <2>3
<1> QED
  BY <1>3, <1>8, <1>9, SeqEqual

\* What a path stands for has no other path.
LEMMA OnePath ==
    ASSUME NEW E \in SUBSET EdgeSet, Forest(E), NEW p \in Seq(NameSet), NEW q \in Seq(NameSet),
           NEW i, Denotes(E, p, i), Denotes(E, q, i)
    PROVE  p = q
<1>1. Len(p) \in Nat /\ Len(q) \in Nat
  OBVIOUS
<1>2. CASE Len(p) <= Len(q)
  BY <1>2, NoLongerPath
<1>3. CASE Len(q) <= Len(p)
  BY <1>3, NoLongerPath
<1> QED
  BY <1>1, <1>2, <1>3

\* More edges lead at least as far.
LEMMA MoreDenoted ==
    ASSUME NEW E, NEW E2, E \subseteq E2, NEW p, NEW i, Denotes(E, p, i)
    PROVE  Denotes(E2, p, i)
<1>1. PICK f : Goes(E, p, f) /\ f[Len(p)] = i
  BY DEF Denotes
<1>2. Goes(E2, p, f)
  BY <1>1 DEF Goes
<1> QED
  BY <1>1, <1>2 DEF Denotes

(* Without the edge to a number that leads no further, all other numbers   *)
(* are where they were.                                                    *)
LEMMA LeafRemoved ==
    ASSUME NEW E, NEW E2, NEW x, \A e \in E : e[1] # x /\ (e[3] # x => e \in E2),
           NEW p \in Seq(NameSet), NEW i, i # x, Denotes(E, p, i)
    PROVE  Denotes(E2, p, i)
<1>1. PICK f : Goes(E, p, f) /\ f[Len(p)] = i
  BY DEF Denotes
<1>2. ASSUME NEW k \in 1 .. Len(p)
      PROVE  <<f[k - 1], p[k], f[k]>> \in E2
  <2>1. <<f[k - 1], p[k], f[k]>> \in E
    BY <1>1 DEF Goes
  <2>2. f[k] # x
    <3>1. CASE k = Len(p)
      BY <1>1, <3>1
    <3>2. CASE k # Len(p)
      <4>1. k + 1 \in 1 .. Len(p) /\ k + 1 - 1 = k
        BY <3>2
      <4>2. <<f[k + 1 - 1], p[k + 1], f[k + 1]>> \in E
        BY <1>1, <4>1 DEF Goes
      <4> QED
        BY <4>1, <4>2
    <3> QED
      BY <3>1, <3>2
  <2> QED
    BY <2>1, <2>2
<1>3. Goes(E2, p, f)
  BY <1>1, <1>2 DEF Goes
<1> QED
  BY <1>1, <1>3 DEF Denotes

(* With an edge to a number that was nowhere, one path more stands for     *)
(* something.                                                              *)
LEMMA LeafAdded ==
    ASSUME NEW E \in SUBSET EdgeSet, NEW d, NEW name, NEW x, x # ROOT_INODE, <<d, name, x>> \in EdgeSet,
           \A e \in E : e[1] # x /\ e[3] # x, d # x,
           NEW p \in Seq(NameSet), NEW i, Denotes(E \cup {<<d, name, x>>}, p, i)
    PROVE  \/ i # x /\ Denotes(E, p, i)
           \/ i = x /\ Len(p) > 0 /\ Denotes(E, Front(p), d) /\ Last(p) = name
<1> DEFINE E2 == E \cup {<<d, name, x>>}
<1>1. E2 \in SUBSET EdgeSet /\ \A e \in E2 : e[1] # x /\ (e[3] # x => e \in E)
  OBVIOUS
<1>2. Denotes(E2, p, i)
  OBVIOUS
<1> HIDE DEF E2
<1>3. CASE i # x
  BY <1>1, <1>2, <1>3, LeafRemoved
<1>4. CASE i = x
  <2>1. Len(p) > 0
    <3> SUFFICES ASSUME ~ Len(p) > 0
                 PROVE  FALSE
      OBVIOUS
    <3>1. p = <<>>
      BY EmptySeq
    <3> QED
      BY <1>2, <1>4, <3>1, RootDenoted
  <2>2. PICK j \in Inums : Denotes(E2, Front(p), j) /\ <<j, Last(p), i>> \in E2
    BY <1>1, <1>2, <2>1, OneBefore
  <2>3. j # x
    BY <1>1, <2>2
  <2>4. j = d /\ Last(p) = name
    BY <1>4, <2>2 DEF E2
  <2>5. Front(p) \in Seq(NameSet)
    BY <2>1, FrontAndLast
  <2>6. Denotes(E, Front(p), j)
    BY <1>1, <2>2, <2>3, <2>5, LeafRemoved
  <2> QED
    BY <1>4, <2>1, <2>4, <2>6
<1> QED
  BY <1>3, <1>4

-----------------------------------------------------------------------------
(* The edges on a device                                                   *)

\* The names in the directories that are there, but for "." and "..".
Edges(dev) ==
    {e \in EdgeSet :
        /\ e[1] \in Live(dev) /\ e[2] \notin {".", ".."}
        /\ Holding(Images(dev, dev.inodes[e[1]]), dev.inodes[e[1]].num_blocks, e[2], e[3])}

\* Which numbers a directory's name stands for depends on the directory only.
LEMMA EdgesIff ==
    ASSUME NEW dev, NEW d, NEW name, NEW i
    PROVE  <<d, name, i>> \in Edges(dev) <=>
              /\ d \in Live(dev) /\ name \in NameSet \ {".", ".."} /\ i \in Inums
              /\ Holding(Images(dev, dev.inodes[d]), dev.inodes[d].num_blocks, name, i)
<1>1. d \in Live(dev) => d \in Inums
  BY DEF Live
<1> QED
  BY <1>1 DEF Edges, EdgeSet

\* The parts of an edge.
LEMMA EdgeParts ==
    ASSUME NEW dev, NEW e \in Edges(dev)
    PROVE  /\ e = <<e[1], e[2], e[3]>> /\ e \in EdgeSet
           /\ e[1] \in Inums /\ e[2] \in NameSet \ {".", ".."} /\ e[3] \in Inums
           /\ e[1] \in Live(dev)
  BY DEF Edges, EdgeSet

\* Edges are the same when the same names in the same directories stand for the same numbers.
LEMMA SameEdges ==
    ASSUME NEW dev, NEW dev2, \A k, nm, i : <<k, nm, i>> \in Edges(dev2) <=> <<k, nm, i>> \in Edges(dev)
    PROVE  Edges(dev2) = Edges(dev)
<1>1. \A e \in Edges(dev2) : e = <<e[1], e[2], e[3]>>
  BY EdgeParts
<1>2. \A e \in Edges(dev) : e = <<e[1], e[2], e[3]>>
  BY EdgeParts
<1>3. ASSUME NEW e \in Edges(dev2)
      PROVE  e \in Edges(dev)
  BY <1>1
<1>4. ASSUME NEW e \in Edges(dev)
      PROVE  e \in Edges(dev2)
  BY <1>2
<1> QED
  BY <1>3, <1>4

\* The records of a directory that nothing was written to are the same.
LEMMA ElsewhereSame ==
    ASSUME NEW dev \in Devices, NEW dev2 \in Devices, Sane(dev), NEW d \in Inums,
           d \in Live(dev) \/ \A b \in Blocks : ~ Holds(dev.inodes[d], b), WrittenIn(dev2, dev, d),
           NEW k \in Live(dev), k # d, SameBlocks(dev2.inodes[k], dev.inodes[k])
    PROVE  Images(dev2, dev2.inodes[k]) = Images(dev, dev.inodes[k])
<1>1. k \in Inums /\ dev.inodes[k] \in InodeSet /\ dev2.inodes[k] \in InodeSet
  BY DEF Live, Devices
<1>2. ASSUME NEW b \in Blocks, Holds(dev2.inodes[k], b)
      PROVE  dev2.image[b] = dev.image[b]
  <2>1. Holds(dev.inodes[k], b)
    BY <1>2 DEF Holds, SameBlocks
  <2>2. b \notin dev.free /\ ~ Holds(dev.inodes[d], b)
    BY <2>1 DEF Sane
  <2> QED
    BY <2>2 DEF WrittenIn
<1> QED
  BY <1>1, <1>2, SameImages

\* Nothing that matters to names changed.
LEMMA EdgesKept ==
    ASSUME NEW dev, NEW dev2, Live(dev2) = Live(dev),
           \A k \in Live(dev) : /\ Images(dev2, dev2.inodes[k]) = Images(dev, dev.inodes[k])
                                /\ dev2.inodes[k].num_blocks = dev.inodes[k].num_blocks
    PROVE  Edges(dev2) = Edges(dev)
  BY DEF Edges

\* The images, the removals and the directories are the same.
LEMMA EdgesElsewhere ==
    ASSUME NEW dev \in Devices, NEW dev2 \in Devices, dev2.image = dev.image, Live(dev2) = Live(dev),
           \A k \in Live(dev) : SameBlocks(dev2.inodes[k], dev.inodes[k])
    PROVE  Edges(dev2) = Edges(dev)
<1>1. ASSUME NEW k \in Live(dev)
      PROVE  /\ Images(dev2, dev2.inodes[k]) = Images(dev, dev.inodes[k])
             /\ dev2.inodes[k].num_blocks = dev.inodes[k].num_blocks
  <2>1. k \in Inums /\ dev.inodes[k] \in InodeSet /\ dev2.inodes[k] \in InodeSet
    BY DEF Live, Devices
  <2> QED
    BY <2>1, SameImages DEF SameBlocks
<1> QED
  BY <1>1, EdgesKept

\* A directory has a name more.
LEMMA EdgeGained ==
    ASSUME NEW dev \in Devices, NEW dev2 \in Devices, Sane(dev), NEW d \in Live(dev),
           NEW name \in NameSet \ {".", ".."}, NEW inum \in Inums, Live(dev2) = Live(dev),
           NameGained(dev2, dev, d, name, inum), WrittenIn(dev2, dev, d),
           \A k \in Inums \ {d} : SameBlocks(dev2.inodes[k], dev.inodes[k])
    PROVE  Edges(dev2) = Edges(dev) \cup {<<d, name, inum>>}
<1>1. d \in Inums
  BY DEF Live
<1>2. \A k \in Live(dev) : k # d => /\ Images(dev2, dev2.inodes[k]) = Images(dev, dev.inodes[k])
                                    /\ dev2.inodes[k].num_blocks = dev.inodes[k].num_blocks
  <2> SUFFICES ASSUME NEW k \in Live(dev), k # d
               PROVE  /\ Images(dev2, dev2.inodes[k]) = Images(dev, dev.inodes[k])
                      /\ dev2.inodes[k].num_blocks = dev.inodes[k].num_blocks
    OBVIOUS
  <2>1. SameBlocks(dev2.inodes[k], dev.inodes[k])
    BY DEF Live
  <2> QED
    BY <1>1, <2>1, ElsewhereSame DEF SameBlocks
<1>3. ASSUME NEW k, NEW nm, NEW i
      PROVE  <<k, nm, i>> \in Edges(dev2) <=> <<k, nm, i>> \in Edges(dev) \/ <<k, nm, i>> = <<d, name, inum>>
  <2>1. CASE k = d
    <3>1. Holding(Images(dev2, dev2.inodes[d]), dev2.inodes[d].num_blocks, nm, i)
             <=> Holding(Images(dev, dev.inodes[d]), dev.inodes[d].num_blocks, nm, i) \/ (nm = name /\ i = inum)
      BY DEF NameGained
    <3> QED
      BY <1>1, <2>1, <3>1, EdgesIff
  <2>2. CASE k # d
    BY <1>2, <2>2, EdgesIff
  <2> QED
    BY <2>1, <2>2
<1>4. \A e \in Edges(dev2) : e = <<e[1], e[2], e[3]>>
  BY EdgeParts
<1>5. \A e \in Edges(dev) : e = <<e[1], e[2], e[3]>>
  BY EdgeParts
<1>6. \A e \in Edges(dev2) : e \in Edges(dev) \/ e = <<d, name, inum>>
  BY <1>3, <1>4
<1>7. \A e \in Edges(dev) : e \in Edges(dev2)
  BY <1>3, <1>5
<1>8. <<d, name, inum>> \in Edges(dev2)
  BY <1>3
<1> QED
  BY <1>6, <1>7, <1>8

\* A directory has a name less.
LEMMA EdgeLost ==
    ASSUME NEW dev \in Devices, NEW dev2 \in Devices, Sane(dev), NEW d \in Live(dev), NEW name,
           Live(dev2) = Live(dev), NameLost(dev2, dev, d, name), WrittenIn(dev2, dev, d),
           \A k \in Inums \ {d} : SameBlocks(dev2.inodes[k], dev.inodes[k])
    PROVE  Edges(dev2) = {e \in Edges(dev) : ~ (e[1] = d /\ e[2] = name)}
<1>1. d \in Inums
  BY DEF Live
<1>2. \A k \in Live(dev) : k # d => /\ Images(dev2, dev2.inodes[k]) = Images(dev, dev.inodes[k])
                                    /\ dev2.inodes[k].num_blocks = dev.inodes[k].num_blocks
  <2> SUFFICES ASSUME NEW k \in Live(dev), k # d
               PROVE  /\ Images(dev2, dev2.inodes[k]) = Images(dev, dev.inodes[k])
                      /\ dev2.inodes[k].num_blocks = dev.inodes[k].num_blocks
    OBVIOUS
  <2>1. SameBlocks(dev2.inodes[k], dev.inodes[k])
    BY DEF Live
  <2> QED
    BY <1>1, <2>1, ElsewhereSame DEF SameBlocks
<1>3. ASSUME NEW k, NEW nm, NEW i
      PROVE  <<k, nm, i>> \in Edges(dev2) <=> <<k, nm, i>> \in Edges(dev) /\ ~ (k = d /\ nm = name)
  <2>1. CASE k = d
    <3>1. Holding(Images(dev2, dev2.inodes[d]), dev2.inodes[d].num_blocks, nm, i)
             <=> Holding(Images(dev, dev.inodes[d]), dev.inodes[d].num_blocks, nm, i) /\ nm # name
      BY DEF NameLost
    <3> QED
      BY <1>1, <2>1, <3>1, EdgesIff
  <2>2. CASE k # d
    BY <1>2, <2>2, EdgesIff
  <2> QED
    BY <2>1, <2>2
<1>4. \A e \in Edges(dev2) : e = <<e[1], e[2], e[3]>>
  BY EdgeParts
<1>5. \A e \in Edges(dev) : e = <<e[1], e[2], e[3]>>
  BY EdgeParts
<1>6. \A e \in Edges(dev2) : e \in Edges(dev) /\ ~ (e[1] = d /\ e[2] = name)
  BY <1>3, <1>4
<1>7. \A e \in Edges(dev) : ~ (e[1] = d /\ e[2] = name) => e \in Edges(dev2)
  BY <1>3, <1>5
<1> QED
  BY <1>6, <1>7

\* A directory has a name once.
LEMMA EdgesNamed ==
    ASSUME NEW dev \in Devices, Sane(dev), NEW e \in Edges(dev), NEW g \in Edges(dev), e[1] = g[1], e[2] = g[2]
    PROVE  e = g
<1> DEFINE node == dev.inodes[e[1]]
           imgs == Images(dev, node)
<1>1. /\ e = <<e[1], e[2], e[3]>> /\ g = <<g[1], g[2], g[3]>> /\ e[1] \in Live(dev)
      /\ Holding(imgs, node.num_blocks, e[2], e[3]) /\ Holding(imgs, node.num_blocks, e[2], g[3])
  BY EdgeParts DEF Edges
<1>2. Directory(imgs, node.num_blocks)
  BY <1>1 DEF Sane
<1>3. e[3] = g[3]
  <2> HIDE DEF imgs, node
  <2> QED
    BY <1>1, <1>2 DEF Holding, Directory
<1> QED
  BY <1>1, <1>3

\* The numbers in edges were given.
LEMMA EdgesUnder ==
    ASSUME NEW dev \in Devices, Numbers(dev), NEW e \in Edges(dev)
    PROVE  e[1] < dev.latest /\ e[3] < dev.latest
<1> DEFINE node == dev.inodes[e[1]]
           imgs == Images(dev, node)
<1>1. e[1] \in Live(dev) /\ Holding(imgs, node.num_blocks, e[2], e[3])
  BY DEF Edges
<1>2. e[1] \in Inums /\ node.kind = "dir" /\ node \in InodeSet /\ dev.latest \in Nat
  BY <1>1 DEF Live, Devices
<1>3. e[1] < dev.latest
  BY <1>2, InodeCount DEF Numbers
<1>4. /\ \A i \in 1 .. node.num_blocks : imgs[i] = dev.image[node.blocks[i]]
      /\ \A i \in 1 .. node.num_blocks : node.blocks[i] \in Blocks
  BY <1>2, ImagesFacts, InodeFacts
<1>5. e[3] < dev.latest
  <2> HIDE DEF imgs, node
  <2>1. PICK i \in 1 .. node.num_blocks : \E p \in Reached(imgs[i]) : imgs[i][p].inum = e[3]
    BY <1>1 DEF Holding
  <2> QED
    BY <1>4, <2>1 DEF Numbers
<1> QED
  BY <1>3, <1>5

-----------------------------------------------------------------------------
(* The tree on a device                                                    *)

\* The callers' paths, and the root's.
Walks == Paths \cup {<<>>}

\* The root is a directory, and exactly the inodes that were written have a link.
Counted(dev) ==
    /\ ROOT_INODE \notin dev.removed /\ dev.inodes[ROOT_INODE].kind = "dir"
    /\ \A i \in Inums : dev.inodes[i].kind = "none" => dev.inodes[i].links < 1
    /\ \A i \in Inums : dev.inodes[i].kind # "none" => dev.inodes[i].links = 1

\* Names lead to numbers that are not removed, on a path of the callers; and every inode that was
\* written and not removed has a name.
NamesOnce(dev) ==
    /\ Forest(Edges(dev))
    /\ \A e \in Edges(dev) : e[3] \notin dev.removed /\ \E q \in Paths : Denotes(Edges(dev), q, e[3])
    /\ \A i \in Inums \ (dev.removed \cup {ROOT_INODE}) :
          dev.inodes[i].kind # "none" => \E e \in Edges(dev) : e[3] = i

\* i may be the answer for p: it is wrong only if it is gone, or if something without names in it
\* is asked for with a slash behind.
Tells(dev, i, p, slash) ==
    /\ i # NoInode /\ i \notin dev.removed /\ dev.inodes[i].kind # "none" => Denotes(Edges(dev), p, i)
    /\ i # NoInode /\ ~ slash => i \notin dev.removed
    /\ \A j : Denotes(Edges(dev), p, j) => j = i \/ (slash /\ \A e \in Edges(dev) : e[1] # j)

AllTell(dev, c) == \A k \in DOMAIN c : k[1] \in Paths /\ Tells(dev, c[k], k[1], k[2])

Treed(dev) == Counted(dev) /\ NamesOnce(dev) /\ AllTell(dev, dev.cache)

\* The names of a path are not "." and "..", and its prefixes are paths.
LEMMA PathOfNames ==
    ASSUME NEW path \in Paths
    PROVE  /\ path \in Seq(NameSet) /\ Len(path) \in Nat /\ Len(path) > 0
           /\ \A n \in 1 .. Len(path) : path[n] \in NameSet \ {".", ".."} /\ SubSeq(path, 1, n) \in Paths
<1>1. path \in Seq(NameSet) /\ Len(path) > 0 /\ path \in Seq(NameSet \ {".", ".."})
  BY PathsGive, NameAssumption
<1> DEFINE N == Len(path)
           cut(m) == SubSeq(path, 1, m)
           S == {k \in 0 .. N - 1 : cut(N - k) \in Paths}
<1>2. N \in Nat /\ N - 1 \in Nat /\ N > 0 /\ N \in 0 .. N
  BY <1>1
<1>3. 0 \in S
  <2>1. cut(N) = path
    BY <1>1, <1>2, PrefixFacts
  <2>2. N - 0 = N /\ 0 \in 0 .. N - 1
    BY <1>2
  <2>3. cut(N - 0) = cut(N)
    BY <2>2
  <2> HIDE DEF cut, N
  <2> QED
    BY <2>1, <2>2, <2>3
<1>4. ASSUME NEW k \in 1 .. N - 1, k - 1 \in S
      PROVE  k \in S
  <2> DEFINE m == N - (k - 1)
  <2>1. m \in 0 .. N /\ m > 1 /\ m - 1 = N - k /\ k \in 0 .. N - 1
    BY <1>2
  <2>2. cut(m) \in Paths
    BY <1>4
  <2> HIDE DEF m
  <2>3. Len(cut(m)) = m /\ Front(cut(m)) = cut(m - 1)
    BY <1>1, <2>1, PrefixFacts
  <2>4. Front(cut(m)) \in Paths
    BY <2>1, <2>2, <2>3, NameAssumption
  <2> QED
    BY <2>1, <2>3, <2>4
<1>5. \A k \in 0 .. N - 1 : k \in S
  <2> HIDE DEF S, N
  <2> QED
    BY <1>2, <1>3, <1>4, RangeInduction
<1>6. ASSUME NEW n \in 1 .. N
      PROVE  path[n] \in NameSet \ {".", ".."} /\ cut(n) \in Paths
  <2>1. N - n \in 0 .. N - 1 /\ N - (N - n) = n
    BY <1>2
  <2>2. cut(N - (N - n)) \in Paths
    BY <1>5, <2>1
  <2>3. path[n] \in NameSet \ {".", ".."}
    BY <1>1
  <2> QED
    BY <2>1, <2>2, <2>3
<1> QED
  BY <1>1, <1>2, <1>6

\* The root answers for the empty path.
LEMMA RootTells ==
    ASSUME NEW dev, Counted(dev), NEW slash
    PROVE  Tells(dev, ROOT_INODE, <<>>, slash)
  BY RootDenoted DEF Counted, Tells

\* A device with the same tree but for the cache.
SameTree(dev2, dev) ==
    /\ Edges(dev2) = Edges(dev) /\ dev2.removed = dev.removed
    /\ \A i \in Inums : dev2.inodes[i].kind = dev.inodes[i].kind /\ dev2.inodes[i].links = dev.inodes[i].links

\* What is said of the tree holds of the same tree.
LEMMA SameTold ==
    ASSUME NEW dev \in Devices, NEW dev2 \in Devices, SameTree(dev2, dev)
    PROVE  /\ Counted(dev) => Counted(dev2)
           /\ NamesOnce(dev) => NamesOnce(dev2)
           /\ \A i \in Inums \cup {NoInode} : \A p, slash : Tells(dev, i, p, slash) => Tells(dev2, i, p, slash)
<1>1. Counted(dev) => Counted(dev2)
  BY InodeCount DEF Counted, SameTree
<1>2. NamesOnce(dev) => NamesOnce(dev2)
  BY DEF NamesOnce, SameTree
<1>3. \A i \in Inums \cup {NoInode} : \A p, slash : Tells(dev, i, p, slash) => Tells(dev2, i, p, slash)
  BY DEF Tells, SameTree
<1> QED
  BY <1>1, <1>2, <1>3

\* The same tree, with answers all of which told before.
LEMMA SameTreed ==
    ASSUME NEW dev \in Devices, NEW dev2 \in Devices, SameTree(dev2, dev), Treed(dev), AllTell(dev, dev2.cache)
    PROVE  Treed(dev2)
<1>1. \A k \in DOMAIN dev2.cache : dev2.cache[k] \in Inums
  <2>1. dev2.cache \in Caches
    BY DEF Devices
  <2> QED
    BY <2>1, CachesIff
<1>2. AllTell(dev2, dev2.cache)
  BY <1>1, SameTold DEF AllTell
<1> QED
  BY <1>2, SameTold DEF Treed

-----------------------------------------------------------------------------
(* Lookups in the tree                                                     *)

\* A name that leads somewhere is found in the directory it is in.
LEMMA EdgeFound ==
    ASSUME NEW dev \in Devices, Sane(dev), NEW d, NEW name, NEW j, <<d, name, j>> \in Edges(dev)
    PROVE  LET imgs == Images(dev, dev.inodes[d])
               at == FindFile(imgs, name)
           IN  /\ IsFound(imgs, name, at) /\ at.pos # -1 /\ imgs[at.block][at.pos].inum = j
               /\ Directory(imgs, dev.inodes[d].num_blocks)
<1> DEFINE node == dev.inodes[d]
           imgs == Images(dev, node)
           at == FindFile(imgs, name)
<1>1. d \in Live(dev) /\ Holding(imgs, node.num_blocks, name, j)
  BY EdgesIff
<1>2. Directory(imgs, node.num_blocks)
  BY <1>1 DEF Sane
<1> HIDE DEF imgs, node
<1>3. HasName(imgs, node.num_blocks, name)
  BY <1>1 DEF HasName, Holding
<1>4. IsFound(imgs, name, at)
  BY <1>2, <1>3, ThereFound
<1> HIDE DEF at
<1>5. at.pos # -1
  BY <1>4 DEF IsFound
<1>6. imgs[at.block][at.pos].inum = j
  BY <1>1, <1>2, <1>4, FoundHeld
<1> QED
  BY <1>2, <1>4, <1>5, <1>6 DEF imgs, node, at

\* A name that is found in a directory that is there leads to the number in its record.
LEMMA FoundEdge ==
    ASSUME NEW dev \in Devices, Sane(dev), NEW d \in Inums \ dev.removed, NEW name \in NameSet \ {".", ".."},
           NEW imgs, imgs = Images(dev, dev.inodes[d]), NEW at, at = FindFile(imgs, name), at.pos # -1
    PROVE  /\ d \in Live(dev) /\ IsFound(imgs, name, at)
           /\ imgs[at.block][at.pos].inum \in Inums /\ <<d, name, imgs[at.block][at.pos].inum>> \in Edges(dev)
<1> DEFINE node == dev.inodes[d]
           n == node.num_blocks
<1>1. node \in InodeSet
  BY DEF Devices
<1>2. n \in Nat /\ imgs \in [1 .. n -> BlockImages]
  BY <1>1, InodeFacts, ImagesFacts
<1>3. IsFound(imgs, name, at)
  <2> HIDE DEF n
  <2> QED
    BY <1>2, FindFileGives
<1>4. at.block \in 1 .. n /\ at.pos \in Reached(imgs[at.block]) /\ imgs[at.block][at.pos].name = name
  BY <1>2, <1>3 DEF IsFound
<1>5. imgs[at.block][at.pos].inum \in Inums
  <2>1. imgs[at.block] \in BlockImages
    BY <1>2, <1>4
  <2> QED
    BY <1>4, <2>1, ReachedFacts
<1>6. d \in Live(dev)
  <2>1. n # 0
    BY <1>4
  <2> QED
    BY <1>1, <2>1, InodeFacts DEF Live
<1>7. Holding(imgs, n, name, imgs[at.block][at.pos].inum)
  BY <1>4 DEF Holding
<1> QED
  BY <1>3, <1>5, <1>6, <1>7, EdgesIff

\* What one step of a lookup needs to know of the answer for the parent.
LEMMA AskedOf ==
    ASSUME NEW dev \in Devices, NEW p \in Seq(NameSet), Len(p) > 0, NEW up, Tells(dev, up, Front(p), TRUE),
           NEW j, Denotes(Edges(dev), p, j)
    PROVE  up \in Inums /\ <<up, Last(p), j>> \in Edges(dev)
<1> DEFINE E == Edges(dev)
<1>1. E \in SUBSET EdgeSet
  BY DEF Edges
<1> HIDE DEF E
<1>2. PICK i \in Inums : Denotes(E, Front(p), i) /\ <<i, Last(p), j>> \in E
  BY <1>1, OneBefore DEF E
<1>3. <<i, Last(p), j>>[1] = i
  OBVIOUS
<1>4. i = up
  BY <1>2, <1>3 DEF Tells, E
<1> QED
  BY <1>2, <1>4 DEF E

\* What a lookup answers for p may be answered, and so may all it has cached.
Told(r, dev, p, slash) ==
    ~ r.dev.strayed => AllTell(dev, r.dev.cache) /\ Tells(dev, r.inum, p, slash)

(* What is found in the records is what the path stands for.               *)
LEMMA FoundTold ==
    ASSUME NEW dev \in Devices, Sane(dev), NamesOnce(dev), NEW p \in Paths, NEW slash \in BOOLEAN,
           NEW up, LooksUp(up, dev), Told(up, dev, Front(p), TRUE), up.inum \in Inums,
           NEW imgs, imgs = Images(dev, dev.inodes[up.inum]), NEW at, at = FindFile(imgs, Last(p)), at.pos # -1,
           NEW j, j = imgs[at.block][at.pos].inum, j \in Inums
    PROVE  Told(Found(up, <<p, slash>>, j), dev, p, slash)
<1> DEFINE r == Found(up, <<p, slash>>, j)
           E == Edges(dev)
<1>1. SUFFICES ASSUME ~ r.dev.strayed
               PROVE  AllTell(dev, r.dev.cache) /\ Tells(dev, r.inum, p, slash)
  BY DEF Told
<1>2. /\ r.inum = j /\ DOMAIN r.dev.cache = DOMAIN up.dev.cache \cup {<<p, slash>>}
      /\ \A k \in DOMAIN r.dev.cache : r.dev.cache[k] = IF k = <<p, slash>> THEN j ELSE up.dev.cache[k]
      /\ ~ up.dev.strayed /\ up.inum \notin up.dev.removed
  <2>1. up.dev \in Devices
    BY LooksUpSame
  <2> DEFINE c == [k \in DOMAIN up.dev.cache \cup {<<p, slash>>} |-> IF k = <<p, slash>> THEN j ELSE up.dev.cache[k]]
             s == up.dev.strayed \/ up.inum \in up.dev.removed
  <2>2. r = [inum |-> j, dev |-> [up.dev EXCEPT !.cache = c, !.strayed = s]]
    BY DEF Found
  <2>3. DOMAIN c = DOMAIN up.dev.cache \cup {<<p, slash>>} /\ \A k \in DOMAIN c : c[k] = IF k = <<p, slash>> THEN j ELSE up.dev.cache[k]
    OBVIOUS
  <2> HIDE DEF c, r, s
  <2>4. r.inum = j /\ r.dev.cache = c /\ r.dev.strayed = s
    BY <2>1, <2>2 DEF Devices
  <2> QED
    BY <1>1, <2>1, <2>3, <2>4 DEF Devices, r, s, c
<1> HIDE DEF r
<1>3. up.inum \in Inums \ dev.removed
  BY <1>2, LooksUpSame
<1>4. AllTell(dev, up.dev.cache) /\ Tells(dev, up.inum, Front(p), TRUE)
  BY <1>2 DEF Told
<1>5. p \in Seq(NameSet) /\ Len(p) > 0 /\ Last(p) = p[Len(p)] /\ Last(p) \in NameSet \ {".", ".."}
  BY PathsGive, FrontAndLast
<1>6. up.inum \in Live(dev) /\ <<up.inum, Last(p), j>> \in E
  BY <1>3, <1>5, FoundEdge
<1>7. Denotes(E, Front(p), up.inum)
  <2>1. up.inum # NoInode /\ up.inum \notin dev.removed /\ dev.inodes[up.inum].kind # "none"
    BY <1>3, <1>6, InodeCount DEF Live, NoInode
  <2> QED
    BY <1>4, <2>1 DEF Tells
<1>8. E \in SUBSET EdgeSet /\ Forest(E)
  BY DEF Edges, NamesOnce
<1>9. Denotes(E, p, j)
  <2>1. Front(p) \in Seq(NameSet) /\ p = Append(Front(p), Last(p))
    BY <1>5, FrontAndLast
  <2> HIDE DEF E
  <2> QED
    BY <1>6, <1>7, <1>8, <2>1, OneFurther
<1>10. j \notin dev.removed
  <2>1. <<up.inum, Last(p), j>>[3] = j
    OBVIOUS
  <2> QED
    BY <1>6, <2>1 DEF NamesOnce
<1>11. ASSUME NEW i, Denotes(E, p, i)
       PROVE  i = j
  <2> HIDE DEF E
  <2>1. Denotes(E, p, i)
    BY <1>11
  <2> QED
    BY <1>5, <1>8, <1>9, <2>1, OnePlace
<1>12. Tells(dev, j, p, slash)
  BY <1>9, <1>10, <1>11 DEF Tells
<1>13. AllTell(dev, r.dev.cache)
  <2> SUFFICES ASSUME NEW k \in DOMAIN r.dev.cache
               PROVE  k[1] \in Paths /\ Tells(dev, r.dev.cache[k], k[1], k[2])
    BY DEF AllTell
  <2>1. CASE k = <<p, slash>>
    <3>1. k[1] = p /\ k[2] = slash /\ r.dev.cache[k] = j
      BY <1>2, <2>1
    <3> QED
      BY <1>12, <3>1
  <2>2. CASE k # <<p, slash>>
    BY <1>2, <1>4, <2>2 DEF AllTell
  <2> QED
    BY <2>1, <2>2
<1> QED
  BY <1>2, <1>12, <1>13

(* One name of a lookup.                                                   *)
LEMMA StepTold ==
    ASSUME NEW dev \in Devices, Sane(dev), Treed(dev), NEW path \in Paths, NEW slash \in BOOLEAN,
           NEW n \in 1 .. Len(path), NEW up, LooksUp(up, dev), Told(up, dev, SubSeq(path, 1, n - 1), TRUE)
    PROVE  Told(LookStep(dev, path, slash, up, n), dev, SubSeq(path, 1, n), slash \/ n < Len(path))
<1> DEFINE p == SubSeq(path, 1, n)
           sl == slash \/ n < Len(path)
           key == Key(path, n, slash)
           r == LookStep(dev, path, slash, up, n)
<1>1. /\ path \in Seq(NameSet) /\ Len(path) \in Nat /\ n \in 0 .. Len(path) /\ n > 0
      /\ path[n] \in NameSet \ {".", ".."} /\ p \in Paths /\ sl \in BOOLEAN
  BY PathOfNames
<1>2. p \in Seq(NameSet) /\ Len(p) > 0 /\ Front(p) = SubSeq(path, 1, n - 1) /\ Last(p) = path[n]
  BY <1>1, PrefixFacts
<1>3. key = <<p, sl>> /\ key \in Keys
  BY <1>1, KeyType DEF Key
<1> HIDE DEF p, sl, key
<1>4. CASE key \in DOMAIN dev.cache
  <2>1. r.dev = dev /\ r.inum = dev.cache[key]
    BY <1>4 DEF LookStep, key
  <2>2. key[1] = p /\ key[2] = sl
    BY <1>3
  <2>3. AllTell(dev, dev.cache)
    BY DEF Treed
  <2> QED
    BY <1>4, <2>1, <2>2, <2>3 DEF AllTell, Told, p, sl
<1>5. CASE key \notin DOMAIN dev.cache
  <2>1. r = Further(up, key, path[n])
    BY <1>5 DEF LookStep, key
  <2>2. FurtherWays(r, dev, up, key, path[n])
    BY <1>3, <2>1, FurtherGives
  <2> DEFINE imgs == Images(dev, dev.inodes[up.inum])
             at == FindFile(imgs, path[n])
  <2>3. \/ up.inum = NoInode /\ r = up
        \/ up.inum \in Inums /\ at.pos = -1 /\ r = [up EXCEPT !.inum = NoInode]
        \/ /\ up.inum \in Inums /\ at.pos # -1 /\ imgs[at.block][at.pos].inum \in Inums
           /\ r = Found(up, key, imgs[at.block][at.pos].inum)
    BY <2>2 DEF FurtherWays
  <2> HIDE DEF r
  <2> SUFFICES Told(r, dev, p, sl)
    BY DEF r, p, sl
  <2>4. CASE up.inum \in Inums /\ at.pos # -1 /\ r = Found(up, key, imgs[at.block][at.pos].inum)
             /\ imgs[at.block][at.pos].inum \in Inums
    <3> DEFINE j == imgs[at.block][at.pos].inum
    <3>1. Told(up, dev, Front(p), TRUE) /\ NamesOnce(dev)
      BY <1>2 DEF Treed
    <3>2. at = FindFile(imgs, Last(p)) /\ at.pos # -1 /\ up.inum \in Inums /\ j \in Inums /\ r = Found(up, <<p, sl>>, j)
      BY <1>2, <1>3, <2>4
    <3> HIDE DEF at
    <3>3. Told(Found(up, <<p, sl>>, j), dev, p, sl)
      BY <1>1, <3>1, <3>2, FoundTold
    <3> QED
      BY <3>2, <3>3
  <2>5. CASE \/ up.inum = NoInode /\ r = up
             \/ up.inum \in Inums /\ at.pos = -1 /\ r = [up EXCEPT !.inum = NoInode]
    <3>1. r.dev = up.dev /\ r.inum = NoInode
      <4>1. up \in [dev : Devices, inum : Inums \cup {NoInode}]
        BY DEF LooksUp, Results
      <4> QED
        BY <2>5, <4>1
    <3>2. SUFFICES ASSUME ~ up.dev.strayed
                   PROVE  AllTell(dev, up.dev.cache) /\ Tells(dev, NoInode, p, sl)
      BY <3>1 DEF Told
    <3>3. AllTell(dev, up.dev.cache) /\ Tells(dev, up.inum, Front(p), TRUE)
      BY <1>2, <3>2 DEF Told
    <3>4. ASSUME NEW j, Denotes(Edges(dev), p, j)
          PROVE  FALSE
      <4>1. up.inum \in Inums /\ <<up.inum, path[n], j>> \in Edges(dev)
        BY <1>2, <3>3, <3>4, AskedOf
      <4>2. at.pos # -1
        BY <4>1, EdgeFound
      <4>3. up.inum # NoInode
        BY <4>1, InodeCount DEF NoInode
      <4> QED
        BY <2>5, <4>2, <4>3
    <3> QED
      BY <3>3, <3>4 DEF Tells
  <2> QED
    BY <2>3, <2>4, <2>5
<1> QED
  BY <1>4, <1>5

(* get_inode_num_from_path, whatever is cached: unless it looked into a    *)
(* removed directory, what it answers and what it caches may be answered.  *)
LEMMA ResolveTold ==
    ASSUME NEW dev \in Devices, Sane(dev), Treed(dev), NEW path \in Walks, NEW slash \in BOOLEAN
    PROVE  Told(Resolve(dev, path, slash), dev, path, slash)
<1>1. path \in Seq(NameSet) /\ Len(path) \in Nat
  <2>1. <<>> \in Seq(NameSet)
    OBVIOUS
  <2>2. path \in Seq(NameSet)
    BY <2>1, PathsGive DEF Walks
  <2> QED
    BY <2>2
<1>2. PICK to : /\ Resolve(dev, path, slash) = to[Len(path)]
                /\ \A n \in 0 .. Len(path) : LooksUp(to[n], dev)
                /\ to[0] = [dev |-> dev, inum |-> ROOT_INODE]
                /\ \A n \in 1 .. Len(path) : to[n] = LookStep(dev, path, slash, to[n - 1], n)
  BY <1>1, ResolveGives
<1> DEFINE N == Len(path)
           cut(n) == SubSeq(path, 1, n)
           S == {n \in 0 .. N : Told(to[n], dev, cut(n), slash \/ n < N)}
<1>3. 0 \in S
  <2>1. cut(0) = <<>> /\ 0 \in 0 .. N
    BY <1>1, PrefixFacts
  <2>2. to[0].dev = dev /\ to[0].inum = ROOT_INODE
    BY <1>2
  <2>3. Tells(dev, ROOT_INODE, <<>>, slash \/ 0 < N) /\ AllTell(dev, dev.cache)
    BY RootTells DEF Treed
  <2>4. Told(to[0], dev, <<>>, slash \/ 0 < N)
    BY <2>2, <2>3 DEF Told
  <2> HIDE DEF cut, N
  <2> QED
    BY <2>1, <2>4
<1>4. ASSUME NEW n \in 1 .. N, n - 1 \in S
      PROVE  n \in S
  <2>1. path \in Paths
    <3>1. path # <<>>
      BY <1>1
    <3> QED
      BY <3>1 DEF Walks
  <2>2. n - 1 < N /\ n - 1 \in 0 .. N /\ n \in 0 .. N
    BY <1>1
  <2>3. Told(to[n - 1], dev, cut(n - 1), slash \/ n - 1 < N)
    BY <1>4
  <2>4. (slash \/ n - 1 < N) = TRUE
    BY <2>2
  <2>5. Told(to[n - 1], dev, cut(n - 1), TRUE)
    BY <2>3, <2>4
  <2>6. Told(to[n], dev, cut(n), slash \/ n < N)
    BY <1>2, <2>1, <2>2, <2>5, StepTold
  <2> QED
    BY <2>2, <2>6
<1>5. \A n \in 0 .. N : n \in S
  <2> HIDE DEF S, N
  <2> QED
    BY <1>1, <1>3, <1>4, RangeInduction DEF N
<1>6. Told(to[N], dev, cut(N), slash \/ N < N)
  BY <1>1, <1>5
<1>7. cut(N) = path /\ ~ N < N
  BY <1>1, PrefixFacts
<1>8. (slash \/ N < N) = slash
  BY <1>7
<1> HIDE DEF cut
<1>9. Told(to[N], dev, path, slash)
  BY <1>6, <1>7, <1>8
<1> QED
  BY <1>2, <1>9

\* No inode has the number that stands for none.
LEMMA NoInodeNot == \A i \in Inums : i # NoInode
  BY InodeCount DEF NoInode

\* A device that a lookup leaves has the same tree.
LEMMA LookupSameTree ==
    ASSUME NEW dev \in Devices, NEW r, LooksUp(r, dev)
    PROVE  SameTree(r.dev, dev)
<1>1. /\ r.dev \in Devices /\ r.dev.image = dev.image /\ r.dev.inodes = dev.inodes /\ r.dev.removed = dev.removed
  BY LooksUpSame
<1>2. Live(r.dev) = Live(dev)
  BY <1>1 DEF Live
<1>3. Edges(r.dev) = Edges(dev)
  BY <1>1, <1>2, EdgesElsewhere DEF SameBlocks
<1> QED
  BY <1>1, <1>3 DEF SameTree

(* After a lookup that did not look into a removed directory the tree is   *)
(* as before, and the answer may be given.                                 *)
LEMMA ResolveTreed ==
    ASSUME NEW dev \in Devices, Sane(dev), Treed(dev), NEW path \in Walks, NEW slash \in BOOLEAN,
           NEW r, r = Resolve(dev, path, slash), ~ r.dev.strayed
    PROVE  Treed(r.dev) /\ SameTree(r.dev, dev) /\ Tells(r.dev, r.inum, path, slash)
<1>1. path \in Seq(NameSet)
  <2>1. <<>> \in Seq(NameSet)
    OBVIOUS
  <2> QED
    BY <2>1, PathsGive DEF Walks
<1>2. LooksUp(r, dev)
  BY <1>1, ResolveLooksUp
<1>3. r.dev \in Devices /\ r.inum \in Inums \cup {NoInode} /\ SameTree(r.dev, dev)
  BY <1>2, LooksUpSame, LookupSameTree
<1>4. AllTell(dev, r.dev.cache) /\ Tells(dev, r.inum, path, slash)
  BY ResolveTold DEF Told
<1>5. Treed(r.dev)
  BY <1>3, <1>4, SameTreed
<1>6. Tells(r.dev, r.inum, path, slash)
  BY <1>3, <1>4, SameTold
<1> QED
  BY <1>3, <1>5, <1>6

(* When the parent was found and the child was not, the second lookup came *)
(* from the cached parent and cached nothing.                              *)
LEMMA ChildNotCached ==
    ASSUME NEW dev \in Devices, NEW path \in Seq(NameSet), Len(path) > 0, NEW p, p = Parent(dev, path),
           p.inum # NoInode, NEW child, child = Resolve(p.dev, path, FALSE), child.inum = NoInode
    PROVE  /\ child.dev = p.dev
           /\ <<path, FALSE>> \notin DOMAIN p.dev.cache
           /\ Len(path) > 1 => <<Front(path), TRUE>> \in DOMAIN p.dev.cache /\ p.dev.cache[<<Front(path), TRUE>>] = p.inum
           /\ Len(path) = 1 => p.inum = ROOT_INODE
<1> DEFINE n == Len(path)
           front == Front(path)
           key == Key(path, n - 1, FALSE)
<1>1. /\ front \in Seq(NameSet) /\ Len(front) = n - 1 /\ Last(path) = path[n] /\ n \in Nat /\ n > 0
      /\ n - 1 \in 0 .. n /\ n \in 1 .. n /\ n \in 0 .. n /\ Key(front, n - 1, TRUE) = key
  <2> DEFINE N == Len(path)
  <2>1. N \in Nat /\ N > 0
    OBVIOUS
  <2>2. /\ Front(path) \in Seq(NameSet) /\ Len(Front(path)) = N - 1 /\ Last(path) = path[N]
        /\ N - 1 \in 0 .. N /\ N \in 1 .. N
        /\ Key(Front(path), N - 1, TRUE) = Key(path, N - 1, FALSE)
    BY PathFacts
  <2> HIDE DEF N
  <2>3. N \in 0 .. N
    BY <2>1
  <2> QED
    BY <2>1, <2>2, <2>3 DEF N
<1>2. p = Resolve(dev, front, TRUE)
  BY DEF Parent
<1>3. LooksUp(p, dev) /\ p.dev \in Devices
  BY <1>1, <1>2, ResolveLooksUp, LooksUpSame
<1>4. PICK to : /\ Resolve(dev, front, TRUE) = to[Len(front)]
                /\ \A i \in 0 .. Len(front) : LooksUp(to[i], dev)
                /\ to[0] = [dev |-> dev, inum |-> ROOT_INODE]
                /\ \A i \in 1 .. Len(front) : to[i] = LookStep(dev, front, TRUE, to[i - 1], i)
  BY <1>1, ResolveGives
<1>5. PICK down : /\ Resolve(p.dev, path, FALSE) = down[n]
                  /\ \A i \in 0 .. n : LooksUp(down[i], p.dev)
                  /\ down[0] = [dev |-> p.dev, inum |-> ROOT_INODE]
                  /\ \A i \in 1 .. n : down[i] = LookStep(p.dev, path, FALSE, down[i - 1], i)
  BY <1>3, ResolveGives
<1>6. n > 1 => key = <<front, TRUE>>
  <2>1. Front(path) = SubSeq(path, 1, Len(path) - 1)
    BY FrontAndLast
  <2>2. n > 1 => (n - 1 < Len(path)) = TRUE
    BY <1>1
  <2> QED
    BY <2>1, <2>2 DEF Key
<1>7. Key(path, n, FALSE) = <<path, FALSE>>
  <2>1. SubSeq(path, 1, Len(path)) = path /\ (Len(path) < Len(path)) = FALSE
    <3>1. Len(path) \in 0 .. Len(path) /\ Len(path) \in Nat
      BY <1>1
    <3> QED
      BY <3>1, PrefixFacts
  <2> QED
    BY <2>1 DEF Key
<1> HIDE DEF n, front, key
<1>8. /\ down[n - 1].inum = p.inum /\ down[n - 1].dev = p.dev
      /\ n > 1 => key \in DOMAIN p.dev.cache /\ p.dev.cache[key] = p.inum
      /\ n = 1 => p.inum = ROOT_INODE
  <2>1. CASE n = 1
    <3>1. n - 1 = 0 /\ Len(front) = 0
      BY <1>1, <2>1
    <3>2. p = [dev |-> dev, inum |-> ROOT_INODE]
      BY <1>2, <1>4, <3>1
    <3>3. p.inum = ROOT_INODE
      BY <3>2
    <3>4. ~ n > 1
      BY <2>1
    <3> QED
      BY <1>5, <3>1, <3>3, <3>4
  <2>2. CASE n # 1
    <3>1. n - 1 \in 1 .. n /\ n - 1 \in 1 .. Len(front) /\ (n - 1) - 1 \in 0 .. Len(front) /\ (n - 1) - 1 \in 0 .. n
      BY <1>1, <2>2
    <3>2. p = LookStep(dev, front, TRUE, to[(n - 1) - 1], n - 1)
      BY <1>1, <1>2, <1>4, <3>1
    <3>3. LooksUp(to[(n - 1) - 1], dev)
      BY <1>4, <3>1
    <3>4. key \in DOMAIN p.dev.cache /\ p.dev.cache[key] = p.inum
      <4>1. StepWays(p, dev, front, TRUE, to[(n - 1) - 1], n - 1)
        BY <1>1, <3>1, <3>2, <3>3, StepLooksUp
      <4> QED
        BY <1>1, <4>1 DEF StepWays
    <3>5. down[n - 1] = LookStep(p.dev, path, FALSE, down[(n - 1) - 1], n - 1)
      BY <1>5, <3>1
    <3>6. down[n - 1] = [dev |-> p.dev, inum |-> p.dev.cache[key]]
      BY <3>4, <3>5 DEF LookStep, key
    <3> QED
      BY <2>2, <3>4, <3>6
  <2> QED
    BY <2>1, <2>2
<1>9. child = LookStep(p.dev, path, FALSE, down[n - 1], n)
  BY <1>1, <1>5
<1>10. <<path, FALSE>> \notin DOMAIN p.dev.cache
  <2> SUFFICES ASSUME <<path, FALSE>> \in DOMAIN p.dev.cache
               PROVE  FALSE
    OBVIOUS
  <2>1. child = [dev |-> p.dev, inum |-> p.dev.cache[<<path, FALSE>>]]
    BY <1>7, <1>9 DEF LookStep
  <2>2. p.dev.cache \in Caches
    BY <1>3 DEF Devices
  <2>3. p.dev.cache[<<path, FALSE>>] \in Inums
    BY <2>2, CachesIff
  <2>4. child.inum = p.dev.cache[<<path, FALSE>>]
    <3>1. \A c, a, b : c = [dev |-> a, inum |-> b] => c.inum = b
      OBVIOUS
    <3> QED
      BY <2>1, <3>1, Zenon
  <2> QED
    BY <2>3, <2>4, NoInodeNot
<1>11. child.dev = p.dev
  <2> DEFINE up == down[n - 1]
  <2>1. child = Further(up, <<path, FALSE>>, path[n])
    BY <1>7, <1>9, <1>10 DEF LookStep
  <2>2. LooksUp(up, p.dev)
    BY <1>1, <1>5
  <2>3. <<path, FALSE>> \in Keys
    BY DEF Keys
  <2> HIDE DEF up
  <2>4. FurtherWays(child, p.dev, up, <<path, FALSE>>, path[n])
    BY <1>3, <2>1, <2>2, <2>3, FurtherGives
  <2>5. up.inum # NoInode /\ up.dev = p.dev
    BY <1>8 DEF up
  <2> DEFINE imgs == Images(p.dev, p.dev.inodes[up.inum])
             at == FindFile(imgs, path[n])
             j == imgs[at.block][at.pos].inum
  <2>6. \/ child = [up EXCEPT !.inum = NoInode]
        \/ j \in Inums /\ child = Found(up, <<path, FALSE>>, j)
    BY <2>4, <2>5 DEF FurtherWays
  <2> HIDE DEF j
  <2>7. ~ (j \in Inums /\ child = Found(up, <<path, FALSE>>, j))
    <3>1. Found(up, <<path, FALSE>>, j).inum = j
      BY DEF Found
    <3> QED
      BY <3>1, NoInodeNot
  <2>8. up \in [dev : Devices, inum : Inums \cup {NoInode}]
    BY <2>2 DEF LooksUp, Results
  <2> QED
    BY <2>5, <2>6, <2>7, <2>8
<1> QED
  BY <1>6, <1>8, <1>10, <1>11 DEF n, front

-----------------------------------------------------------------------------
(* The tree grows and shrinks                                              *)

\* The premises under which d takes the name of path for the next number x.
Grows(dev2, dev, d, path, x) ==
    /\ d \in Live(dev) /\ Denotes(Edges(dev), Front(path), d) /\ \A j : ~ Denotes(Edges(dev), path, j)
    /\ x \in Inums /\ x = dev.latest
    /\ Edges(dev2) = Edges(dev) \cup {<<d, Last(path), x>>}
    /\ dev2.removed = dev.removed
    /\ \A i \in Inums : i # x => /\ dev2.inodes[i].kind = dev.inodes[i].kind
                                 /\ dev2.inodes[i].links = dev.inodes[i].links
    /\ dev2.inodes[x].kind = "none" => dev2.inodes[x].links < 1
    /\ dev2.inodes[x].kind # "none" => dev2.inodes[x].links = 1

\* The cache holds the parent, and not the path.
ParentCached(c, d, path) ==
    /\ <<path, FALSE>> \notin DOMAIN c
    /\ Len(path) > 1 => <<Front(path), TRUE>> \in DOMAIN c /\ c[<<Front(path), TRUE>>] = d
    /\ Len(path) = 1 => d = ROOT_INODE

\* The next number is nowhere yet.
LEMMA NextNumber ==
    ASSUME NEW dev \in Devices, Numbers(dev), NEW x \in Inums, x = dev.latest
    PROVE  /\ x # ROOT_INODE /\ x \notin dev.removed /\ dev.inodes[x].kind = "none" /\ x \notin Live(dev)
           /\ \A e \in Edges(dev) : e[1] # x /\ e[3] # x
           /\ \A k \in DOMAIN dev.cache : dev.cache[k] \in Inums /\ dev.cache[k] # x
<1>1. x \in Nat /\ x >= x /\ ~ x < x
  BY InodeCount
<1>2. x # ROOT_INODE /\ x \notin dev.removed /\ dev.inodes[x].kind = "none"
  BY <1>1, InodeCount DEF Numbers
<1>3. \A e \in Edges(dev) : e[1] # x /\ e[3] # x
  BY <1>1, EdgesUnder
<1>4. \A k \in DOMAIN dev.cache : dev.cache[k] \in Inums /\ dev.cache[k] # x
  <2>1. dev.cache \in Caches
    BY DEF Devices
  <2> QED
    BY <1>1, <2>1, CachesIff DEF Numbers
<1> QED
  BY <1>2, <1>3, <1>4 DEF Live

\* With a name for a number that is new, names and numbers still go together.
LEMMA NamesGrow ==
    ASSUME NEW dev \in Devices, NamesOnce(dev), Numbers(dev), NEW dev2 \in Devices,
           NEW d, NEW path \in Paths, NEW x, Grows(dev2, dev, d, path, x)
    PROVE  NamesOnce(dev2)
<1> DEFINE E == Edges(dev)
           E2 == Edges(dev2)
           name == Last(path)
           new == <<d, name, x>>
<1>1. /\ d \in Live(dev) /\ Denotes(E, Front(path), d) /\ \A j : ~ Denotes(E, path, j)
      /\ x \in Inums /\ x = dev.latest /\ E2 = E \cup {new} /\ dev2.removed = dev.removed
      /\ \A i \in Inums : i # x => dev2.inodes[i].kind = dev.inodes[i].kind
  BY DEF Grows
<1>2. /\ x # ROOT_INODE /\ x \notin dev.removed
      /\ \A e \in E : e[1] # x /\ e[3] # x
  BY <1>1, NextNumber
<1>3. path \in Seq(NameSet) /\ Front(path) \in Seq(NameSet) /\ path = Append(Front(path), name)
  BY PathsGive, FrontAndLast
<1>4. E \in SUBSET EdgeSet /\ E2 \in SUBSET EdgeSet
  BY DEF Edges
<1>5. new[1] = d /\ new[2] = name /\ new[3] = x
  OBVIOUS
<1>6. Forest(E) /\ \A e \in E : e[3] \notin dev.removed /\ \E q \in Paths : Denotes(E, q, e[3])
  BY DEF NamesOnce
<1>7. \A e \in E : e = <<e[1], e[2], e[3]>>
  BY EdgeParts
<1> HIDE DEF E, E2
<1>8. ASSUME NEW e \in E, e[1] = d, e[2] = name
      PROVE  FALSE
  <2>1. <<d, name, e[3]>> \in E
    BY <1>7, <1>8
  <2> DEFINE front == Front(path)
             j == e[3]
  <2>2. front \in Seq(NameSet) /\ Denotes(E, front, d) /\ path = Append(front, name)
    BY <1>1, <1>3
  <2>3. <<d, name, j>> \in E
    BY <2>1
  <2> HIDE DEF front, j, name
  <2>4. Denotes(E, Append(front, name), j)
    BY <1>4, <2>2, <2>3, OneFurther
  <2> QED
    BY <1>1, <2>2, <2>4
<1>9. Forest(E2)
  <2> HIDE DEF new
  <2> QED
    BY <1>1, <1>2, <1>5, <1>6, <1>8 DEF Forest
<1>10. Denotes(E2, path, x)
  <2>1. Denotes(E2, Front(path), d) /\ new \in E2
    BY <1>1, MoreDenoted
  <2> QED
    BY <1>3, <1>4, <2>1, OneFurther
<1>11. ASSUME NEW e \in E2
       PROVE  e[3] \notin dev2.removed /\ \E q \in Paths : Denotes(E2, q, e[3])
  <2> HIDE DEF new
  <2>1. CASE e = new
    BY <1>1, <1>2, <1>5, <1>10, <2>1
  <2>2. CASE e \in E
    <3>1. E \subseteq E2
      BY <1>1
    <3> QED
      BY <1>1, <1>6, <2>2, <3>1, MoreDenoted
  <2> QED
    BY <1>1, <2>1, <2>2
<1>12. ASSUME NEW i \in Inums \ (dev2.removed \cup {ROOT_INODE}), dev2.inodes[i].kind # "none"
       PROVE  \E e \in E2 : e[3] = i
  <2> HIDE DEF new
  <2>1. CASE i = x
    BY <1>1, <1>5, <2>1
  <2>2. CASE i # x
    BY <1>1, <1>12, <2>2 DEF NamesOnce, E
  <2> QED
    BY <2>1, <2>2
<1> QED
  BY <1>9, <1>11, <1>12 DEF NamesOnce, E2

\* ... and so do the answers.
LEMMA AnswersGrow ==
    ASSUME NEW dev \in Devices, Treed(dev), Numbers(dev), NEW dev2 \in Devices, dev2.cache = dev.cache,
           NEW d, NEW path \in Paths, NEW x, Grows(dev2, dev, d, path, x), ParentCached(dev.cache, d, path)
    PROVE  AllTell(dev2, dev2.cache)
<1> DEFINE E == Edges(dev)
           E2 == Edges(dev2)
           name == Last(path)
           new == <<d, name, x>>
<1>1. /\ d \in Live(dev) /\ Denotes(E, Front(path), d)
      /\ x \in Inums /\ x = dev.latest /\ E2 = E \cup {new} /\ dev2.removed = dev.removed
      /\ \A i \in Inums : i # x => dev2.inodes[i].kind = dev.inodes[i].kind
  BY DEF Grows
<1>2. /\ x # ROOT_INODE /\ x \notin dev.removed /\ d # x
      /\ \A e \in E : e[1] # x /\ e[3] # x
      /\ \A k \in DOMAIN dev.cache : dev.cache[k] \in Inums /\ dev.cache[k] # x
  BY <1>1, NextNumber
<1>3. path \in Seq(NameSet) /\ Len(path) \in Nat /\ Len(path) > 0 /\ Front(path) \in Seq(NameSet)
      /\ Len(Front(path)) = Len(path) - 1 /\ path = Append(Front(path), name) /\ name \in NameSet
  BY PathsGive, FrontAndLast
<1>4. E \in SUBSET EdgeSet /\ new \in EdgeSet /\ new[1] = d /\ d \in Inums
  BY <1>1, <1>3 DEF Edges, EdgeSet, Live
<1>5. Forest(E)
  BY DEF Treed, NamesOnce
<1> SUFFICES ASSUME NEW k \in DOMAIN dev.cache
             PROVE  k[1] \in Paths /\ Tells(dev2, dev.cache[k], k[1], k[2])
  BY DEF AllTell
<1> DEFINE i == dev.cache[k]
           p == k[1]
<1>6. p \in Paths /\ Tells(dev, i, p, k[2]) /\ i \in Inums /\ i # x
  BY <1>2 DEF Treed, AllTell
<1>7. p \in Seq(NameSet) /\ Len(p) > 0 /\ p = Append(Front(p), Last(p)) /\ Front(p) \in Seq(NameSet)
  BY <1>6, PathsGive, FrontAndLast
<1>8. k = <<p, k[2]>> /\ k[2] \in BOOLEAN
  <2>1. dev.cache \in Caches
    BY DEF Devices
  <2>2. k \in Keys
    BY <2>1, CachesIff
  <2> QED
    BY <2>2 DEF Keys
<1> HIDE DEF E, E2, new, i, p, name
<1>9. ASSUME i \notin dev2.removed, dev2.inodes[i].kind # "none"
      PROVE  Denotes(E2, p, i)
  <2>1. Denotes(E, p, i)
    <3>1. i # NoInode
      BY <1>6, NoInodeNot
    <3> QED
      BY <1>1, <1>6, <1>9, <3>1 DEF Tells, E
  <2>2. E \subseteq E2
    BY <1>1
  <2> QED
    BY <2>1, <2>2, MoreDenoted
<1>10. ~ k[2] => i \notin dev2.removed
  <2>1. i # NoInode
    BY <1>6, NoInodeNot
  <2> QED
    BY <1>1, <1>6, <2>1 DEF Tells
<1>11. ASSUME NEW j, Denotes(E2, p, j), j # i
       PROVE  k[2] /\ \A e \in E2 : e[1] # j
  <2>1. \/ j # x /\ Denotes(E, p, j)
        \/ j = x /\ Len(p) > 0 /\ Denotes(E, Front(p), d) /\ Last(p) = name
    <3>1. <<d, name, x>> \in EdgeSet /\ Denotes(E \cup {<<d, name, x>>}, p, j)
      BY <1>1, <1>4, <1>11 DEF new
    <3>2. p \in Seq(NameSet) /\ E \in SUBSET EdgeSet /\ x # ROOT_INODE /\ d # x /\ \A e \in E : e[1] # x /\ e[3] # x
      BY <1>2, <1>4, <1>7
    <3> QED
      BY <3>1, <3>2, LeafAdded
  <2>2. CASE j # x /\ Denotes(E, p, j)
    <3>1. k[2] /\ \A e \in E : e[1] # j
      BY <1>6, <1>11, <2>2 DEF Tells, E
    <3>2. j # d
      <4> SUFFICES ASSUME j = d
                   PROVE  FALSE
        OBVIOUS
      <4>1. p = Front(path)
        BY <1>1, <1>3, <1>4, <1>5, <1>7, <2>2, OnePath
      <4>2. Len(path) > 1
        BY <1>3, <1>7, <4>1
      <4>3. k = <<Front(path), TRUE>>
        BY <1>8, <3>1, <4>1
      <4>4. i = d
        BY <4>2, <4>3 DEF ParentCached, i
      <4> QED
        BY <1>11, <4>4
    <3> QED
      BY <1>1, <1>4, <3>1, <3>2
  <2>3. CASE j = x /\ Denotes(E, Front(p), d) /\ Last(p) = name
    <3>1. Front(p) = Front(path)
      BY <1>1, <1>3, <1>4, <1>5, <1>7, <2>3, OnePath
    <3>2. p = path
      BY <1>3, <1>7, <2>3, <3>1
    <3>3. k[2]
      BY <1>8, <3>2 DEF ParentCached
    <3>4. \A e \in E2 : e[1] # x
      BY <1>1, <1>2, <1>4
    <3> QED
      BY <2>3, <3>3, <3>4
  <2> QED
    BY <2>1, <2>2, <2>3
<1> QED
  BY <1>6, <1>9, <1>10, <1>11 DEF Tells, E2, i, p

\* A name for a new number keeps the tree.
LEMMA TreeGrows ==
    ASSUME NEW dev \in Devices, Treed(dev), Numbers(dev), NEW dev2 \in Devices, dev2.cache = dev.cache,
           NEW d, NEW path \in Paths, NEW x, Grows(dev2, dev, d, path, x), ParentCached(dev.cache, d, path)
    PROVE  Treed(dev2)
<1>1. NamesOnce(dev2)
  BY NamesGrow DEF Treed
<1>2. AllTell(dev2, dev2.cache)
  BY AnswersGrow
<1>3. Counted(dev2)
  <2>1. x \in Inums /\ x # ROOT_INODE
    BY NextNumber DEF Grows
  <2> QED
    BY <2>1, InodeCount DEF Treed, Counted, Grows
<1> QED
  BY <1>1, <1>2, <1>3 DEF Treed

\* The premises under which d loses the name of path, and x with it.
Shrinks(dev2, dev, d, path, x) ==
    /\ x \in Inums /\ <<d, Last(path), x>> \in Edges(dev) /\ Denotes(Edges(dev), Front(path), d)
    /\ \A e \in Edges(dev) : e[1] # x
    /\ Edges(dev2) = {e \in Edges(dev) : ~ (e[1] = d /\ e[2] = Last(path))}
    /\ dev2.removed = IF dev.inodes[x].kind = "none" THEN dev.removed ELSE dev.removed \cup {x}
    /\ \A i \in Inums : dev2.inodes[i].kind = dev.inodes[i].kind
    /\ \A i \in Inums : dev2.inodes[i].links = dev.inodes[i].links
                        \/ (dev2.inodes[i].kind = "none" /\ dev2.inodes[i].links < 1)
    /\ \A k \in DOMAIN dev2.cache : k \in DOMAIN dev.cache /\ dev2.cache[k] = dev.cache[k]
    /\ x \in dev2.removed => <<path, FALSE>> \notin DOMAIN dev2.cache

\* Without the last thing in it, the rest of the tree is as before.
LEMMA TreeShrinks ==
    ASSUME NEW dev \in Devices, Treed(dev), NEW dev2 \in Devices,
           NEW d, NEW path \in Paths, NEW x, Shrinks(dev2, dev, d, path, x)
    PROVE  Treed(dev2)
<1> DEFINE E == Edges(dev)
           E2 == Edges(dev2)
           name == Last(path)
           old == <<d, name, x>>
<1>1. /\ x \in Inums /\ old \in E /\ Denotes(E, Front(path), d) /\ \A e \in E : e[1] # x
      /\ E2 = {e \in E : ~ (e[1] = d /\ e[2] = name)}
      /\ dev2.removed = IF dev.inodes[x].kind = "none" THEN dev.removed ELSE dev.removed \cup {x}
      /\ \A i \in Inums : dev2.inodes[i].kind = dev.inodes[i].kind
  BY DEF Shrinks
<1>2. old[1] = d /\ old[2] = name /\ old[3] = x
  OBVIOUS
<1>3. E \in SUBSET EdgeSet /\ E2 \in SUBSET EdgeSet /\ E2 \subseteq E
  BY <1>1 DEF Edges
<1>4. Forest(E) /\ \A e \in E : e[3] \notin dev.removed /\ \E q \in Paths : Denotes(E, q, e[3])
  BY DEF Treed, NamesOnce
<1>5. path \in Seq(NameSet) /\ Front(path) \in Seq(NameSet) /\ path = Append(Front(path), name)
  BY PathsGive, FrontAndLast
<1>6. Denotes(E, path, x)
  <2> DEFINE front == Front(path)
  <2>1. front \in Seq(NameSet) /\ path = Append(front, name) /\ Denotes(E, front, d) /\ <<d, name, x>> \in E
    BY <1>1, <1>5
  <2> HIDE DEF front, E, name
  <2>2. Denotes(E, Append(front, name), x)
    BY <1>3, <2>1, OneFurther
  <2> QED
    BY <2>1, <2>2
<1> HIDE DEF E, E2, old, name
<1>7. x # ROOT_INODE /\ \A e \in E : e \in E2 <=> e[3] # x
  BY <1>1, <1>2, <1>4 DEF Forest
<1>8. \A p \in Seq(NameSet) : \A i : i # x /\ Denotes(E, p, i) => Denotes(E2, p, i)
  <2>1. \A e \in E : e[1] # x /\ (e[3] # x => e \in E2)
    BY <1>1, <1>7
  <2> SUFFICES ASSUME NEW p \in Seq(NameSet), NEW i, i # x, Denotes(E, p, i)
               PROVE  Denotes(E2, p, i)
    OBVIOUS
  <2> QED
    BY <2>1, LeafRemoved
<1>9. NamesOnce(dev2)
  <2>1. Forest(E2)
    BY <1>3, <1>4 DEF Forest
  <2>2. ASSUME NEW e \in E2
        PROVE  e[3] \notin dev2.removed /\ \E q \in Paths : Denotes(E2, q, e[3])
    <3>1. e \in E /\ e[3] # x
      BY <1>3, <1>7
    <3>2. PICK q \in Paths : Denotes(E, q, e[3])
      BY <1>4, <3>1
    <3>3. Denotes(E2, q, e[3])
      BY <1>8, <3>1, <3>2, PathsGive
    <3> QED
      BY <1>1, <1>4, <3>1, <3>3
  <2>3. ASSUME NEW i \in Inums \ (dev2.removed \cup {ROOT_INODE}), dev2.inodes[i].kind # "none"
        PROVE  \E e \in E2 : e[3] = i
    <3>1. i # x /\ i \notin dev.removed /\ dev.inodes[i].kind # "none"
      BY <1>1, <2>3
    <3>2. PICK e \in E : e[3] = i
      BY <3>1 DEF Treed, NamesOnce, E
    <3> QED
      BY <1>7, <3>1, <3>2
  <2> QED
    BY <2>1, <2>2, <2>3 DEF NamesOnce, E2
<1>10. Counted(dev2)
  <2>1. \A i \in Inums : dev.inodes[i].kind = "none" => dev.inodes[i].links < 1
    BY DEF Treed, Counted
  <2>2. \A i \in Inums : dev.inodes[i].kind # "none" => dev.inodes[i].links = 1
    BY DEF Treed, Counted
  <2>3. ROOT_INODE \notin dev.removed /\ dev.inodes[ROOT_INODE].kind = "dir"
    BY DEF Treed, Counted
  <2>4. \A i \in Inums : dev2.inodes[i].links = dev.inodes[i].links
                         \/ (dev2.inodes[i].kind = "none" /\ dev2.inodes[i].links < 1)
    BY DEF Shrinks
  <2> QED
    BY <1>1, <1>7, <2>1, <2>2, <2>3, <2>4, InodeCount DEF Counted
<1>11. ASSUME NEW k \in DOMAIN dev2.cache
       PROVE  k[1] \in Paths /\ Tells(dev2, dev2.cache[k], k[1], k[2])
  <2> DEFINE i == dev.cache[k]
             p == k[1]
  <2>1. dev2.cache[k] = i /\ k \in DOMAIN dev.cache
    BY DEF Shrinks
  <2>2. p \in Paths /\ Tells(dev, i, p, k[2])
    BY <2>1 DEF Treed, AllTell
  <2>3. k = <<p, k[2]>> /\ k[2] \in BOOLEAN /\ i \in Inums /\ i # NoInode
    <3>1. dev.cache \in Caches
      BY DEF Devices
    <3>2. k \in Keys /\ i \in Inums
      BY <2>1, <3>1, CachesIff
    <3> QED
      BY <3>2, NoInodeNot DEF Keys
  <2>4. p \in Seq(NameSet)
    BY <2>2, PathsGive
  <2> HIDE DEF i, p
  <2>5. ASSUME i \notin dev2.removed, dev2.inodes[i].kind # "none"
        PROVE  Denotes(E2, p, i)
    <3>1. i # x /\ i \notin dev.removed /\ dev.inodes[i].kind # "none"
      BY <1>1, <2>3, <2>5
    <3> QED
      BY <1>8, <2>2, <2>3, <2>4, <3>1 DEF Tells, E
  <2>6. ASSUME ~ k[2], i \in dev2.removed
        PROVE  FALSE
    <3>1. i \notin dev.removed
      BY <2>2, <2>3, <2>6 DEF Tells
    <3>2. i = x
      BY <1>1, <2>6, <3>1
    <3>3. dev.inodes[x].kind # "none"
      BY <1>1, <2>6, <3>1
    <3>4. Denotes(E, p, x)
      BY <2>2, <2>3, <3>1, <3>2, <3>3 DEF Tells, E
    <3>5. p = path
      BY <1>3, <1>4, <1>5, <1>6, <2>4, <3>4, OnePath
    <3>6. k = <<path, FALSE>>
      BY <2>3, <2>6, <3>5
    <3> QED
      BY <2>6, <3>2, <3>6 DEF Shrinks
  <2>7. ASSUME NEW j, Denotes(E2, p, j), j # i
        PROVE  k[2] /\ \A e \in E2 : e[1] # j
    <3>1. Denotes(E, p, j)
      BY <1>3, <2>7, MoreDenoted
    <3> QED
      BY <1>3, <2>2, <2>7, <3>1 DEF Tells, E
  <2> QED
    BY <2>1, <2>2, <2>5, <2>6, <2>7 DEF Tells, E2, i, p
<1> QED
  BY <1>9, <1>10, <1>11 DEF Treed, AllTell, E2

-----------------------------------------------------------------------------
(* The calls and the tree                                                  *)

\* An added entry leaves the links of its directory.
LEMMA AddedLinks ==
    ASSUME NEW dev \in Devices, NEW node \in InodeSet, node.kind = "dir", NEW inum \in Inums, NEW name \in NameSet
    PROVE  AddEntry(dev, node, inum, name).node.links = node.links
<1> DEFINE e == AddEntry(dev, node, inum, name)
<1>1. \/ AddFails(e, dev, node)
      \/ AddSplits(e, dev, node, inum, name)
      \/ AddGrows(e, dev, node, inum, name)
  BY AddEntryGives
<1> HIDE DEF e
<1>2. e.node.links = node.links
  BY <1>1 DEF AddFails, AddSplits, AddGrows
<1> QED
  BY <1>2 DEF e

\* A removed entry does too.
LEMMA RemovedLinks ==
    ASSUME NEW dev, NEW node \in InodeSet, NEW at
    PROVE  RemoveEntry(dev, node, at).node.links = node.links
<1> DEFINE w == RemoveEntry(dev, node, at)
<1>1. w.node = node \/ w.node = Dropped(node, at.block)
  <2>1. RemoveWays(w, dev, node, at)
    BY RemoveGives
  <2> HIDE DEF w
  <2> QED
    BY <2>1 DEF RemoveWays
<1> HIDE DEF w
<1>2. Dropped(node, at.block).links = node.links
  BY DEF Dropped, InodeSet
<1>3. w.node.links = node.links
  BY <1>1, <1>2
<1> QED
  BY <1>3 DEF w

\* Kinds and links of all inodes are as before.
SameInodes(dev2, dev) ==
    \A i \in Inums : dev2.inodes[i].kind = dev.inodes[i].kind /\ dev2.inodes[i].links = dev.inodes[i].links

\* A name was entered into p on dev for the next number, or not.
Enters(f, dev, p, name) ==
    /\ SameInodes(f.dev, dev) /\ f.dev.removed = dev.removed /\ f.dev.cache = dev.cache
    /\ dev.latest <= f.dev.latest
    /\ ~ f.dev.strayed => ~ dev.strayed
    /\ f.ok => /\ f.inum = dev.latest /\ dev.latest \in Inums
               /\ ~ f.dev.strayed =>
                     p \in Live(dev) /\ Edges(f.dev) = Edges(dev) \cup {<<p, name, dev.latest>>}
    /\ ~ f.ok => Edges(f.dev) = Edges(dev)

(* create_new_file: the parent has one name more.                          *)
LEMMA EnteredTree ==
    ASSUME NEW child, Fit(child.dev), NEW p \in Inums, p < child.dev.latest, NEW name \in NameSet \ {".", ".."},
           child.inum = NoInode =>
              FindFile(Images(child.dev, child.dev.inodes[p]), name).pos = -1
    PROVE  Enters(Entered(child, p, name), child.dev, p, name)
<1> DEFINE c == child.dev
           c1 == Numbered(c)
           node == c.inodes[p]
           e == AddEntry(c1, node, c.latest, name)
           f == Entered(child, p, name)
           fails == \/ child.inum # NoInode
                    \/ node.kind # "dir"
                    \/ c.latest >= inode_count
<1>1. CASE fails
  <2>1. f = Failed(c)
    BY <1>1 DEF Entered
  <2>2. f.dev = c /\ f.ok = FALSE
    BY <2>1 DEF Failed
  <2>3. c.latest <= c.latest
    <3>1. c.latest \in Nat
      BY DEF Fit, Devices
    <3> QED
      BY <3>1
  <2> HIDE DEF f
  <2> QED
    BY <2>2, <2>3 DEF Enters, SameInodes, f
<1>2. CASE ~ fails
  <2>1. /\ child.inum = NoInode /\ node.kind = "dir"
        /\ c.latest < inode_count /\ c \in Devices /\ Numbers(c) /\ Sane(c) /\ Picked(c)
    <3>1. c \in Devices /\ Numbers(c) /\ Sane(c) /\ Picked(c) /\ c.latest \in Nat
      BY DEF Fit, Devices
    <3> QED
      BY <1>2, <3>1, InodeCount
  <2>2. /\ Fit(c1) /\ c1.latest = c.latest + 1 /\ c.latest \in Inums /\ c.latest \in Nat
        /\ c1.image = c.image /\ c1.inodes = c.inodes /\ c1.removed = c.removed /\ c1.cache = c.cache
    BY <2>1, NumberedFit, InodeCount
  <2>3. c1 \in Devices /\ Numbers(c1) /\ Sane(c1) /\ Picked(c1) /\ node \in InodeSet
    BY <2>1, <2>2 DEF Fit, Devices
  <2>4. c1.strayed = c.strayed
    BY <2>1 DEF Numbered, Devices
  <2>5. c.latest <= c1.latest
    BY <2>2
  <2> HIDE DEF c1
  <2>6. EntryTypes(e, c1, node, c.latest, name)
    BY <2>1, <2>2, <2>3, EntryTyped
  <2>7. /\ e.node \in InodeSet /\ e.node.kind = "dir" /\ e.dev \in Devices
        /\ e.dev.inodes = c.inodes /\ e.dev.cache = c.cache /\ e.dev.removed = c.removed /\ e.dev.strayed = c.strayed
        /\ e.dev.latest = c1.latest
    <3> HIDE DEF e
    <3> QED
      BY <2>1, <2>2, <2>3, <2>6, <2>4 DEF EntryTypes, SameOtherwise
  <2>8. e.node.links = node.links
    BY <2>1, <2>2, <2>3, AddedLinks
  <2>9. Live(c1) = Live(c) /\ Edges(c1) = Edges(c)
    <3>1. Live(c1) = Live(c)
      BY <2>2 DEF Live
    <3> QED
      BY <2>1, <2>2, <2>3, <3>1, EdgesElsewhere DEF SameBlocks
  <2>10. CASE ~ e.ok
    <3>1. f = Failed(e.dev)
      BY <1>2, <2>10 DEF Entered, c1
    <3>2. e.dev = c1
      <4>1. \/ AddFails(e, c1, node)
            \/ AddSplits(e, c1, node, c.latest, name)
            \/ AddGrows(e, c1, node, c.latest, name)
        BY <2>1, <2>2, <2>3, AddEntryGives DEF e
      <4> HIDE DEF e
      <4>2. AddFails(e, c1, node)
        BY <2>10, <4>1, AddSucceeds
      <4> QED
        BY <4>2 DEF AddFails
    <3>3. f.dev = c1 /\ f.ok = FALSE
      BY <3>1, <3>2 DEF Failed
    <3> HIDE DEF f, e
    <3> QED
      BY <2>2, <2>9, <2>4, <2>5, <3>3 DEF Enters, SameInodes, f
  <2>11. CASE e.ok
    <3> DEFINE s == e.dev.strayed \/ p \in c.removed
               d == [e.dev EXCEPT !.inodes[p] = e.node, !.strayed = s]
    <3>1. f = [ok |-> TRUE, inum |-> c.latest, dev |-> d]
      BY <1>2, <2>7, <2>11 DEF Entered, c1, Devices
    <3>2. s \in BOOLEAN
      BY <2>7 DEF Devices
    <3> HIDE DEF e, s
    <3>3. /\ d \in Devices
          /\ d.image = e.dev.image /\ d.free = e.dev.free /\ d.cache = c.cache /\ d.removed = c.removed
          /\ d.strayed = s /\ d.inodes[p] = e.node /\ \A i \in Inums : i # p => d.inodes[i] = c.inodes[i]
          /\ d.latest = c1.latest
      BY <2>7, <3>2 DEF Devices
    <3> HIDE DEF d
    <3>4. SameInodes(d, c)
      BY <2>1, <2>7, <2>8, <3>3 DEF SameInodes
    <3>5. ASSUME ~ d.strayed
          PROVE  p \in Live(c) /\ Edges(d) = Edges(c) \cup {<<p, name, c.latest>>}
      <4>1. p \in Live(c1) /\ c1.inodes[p] = node /\ p \in Live(c)
        BY <2>1, <2>2, <2>9, <3>3, <3>5 DEF Live, s
      <4> DEFINE imgs == Images(c1, node)
                 n == node.num_blocks
      <4>2. Directory(imgs, n)
        BY <2>3, <4>1 DEF Sane
      <4>3. FindFile(imgs, name).pos = -1
        <5>1. imgs = Images(c, node)
          BY <2>2 DEF Images
        <5> QED
          BY <2>1, <5>1
      <4>4. ~ HasName(imgs, n, name)
        <5> HIDE DEF imgs, n
        <5>1. n \in Nat /\ imgs \in [1 .. n -> BlockImages] /\ \A i \in 1 .. n : DOMAIN imgs[i] # {}
          BY <4>2 DEF Directory
        <5> QED
          BY <4>3, <5>1, FindFileGives DEF HasName
      <4>5. \A i \in Inums \ {p} : SameBlocks(d.inodes[i], c1.inodes[i])
        BY <2>2, <3>3 DEF SameBlocks
      <4>6. e = AddEntry(c1, c1.inodes[p], c.latest, name)
        BY <4>1 DEF e
      <4>7. d.removed = c1.removed
        BY <2>2, <3>3
      <4>8. Live(d) = Live(c1)
        BY <2>2, <3>3, <3>4 DEF Live, SameInodes
      <4> HIDE DEF c, node
      <4>9. NameGained(d, c1, p, name, c.latest) /\ WrittenIn(d, c1, p)
        BY <2>2, <2>3, <2>11, <3>3, <4>1, <4>4, <4>5, <4>6, <4>7, EntryAdded
      <4>10. Edges(d) = Edges(c1) \cup {<<p, name, c.latest>>}
        BY <2>2, <2>3, <3>3, <4>1, <4>5, <4>8, <4>9, EdgeGained
      <4> QED
        BY <2>9, <4>1, <4>10
    <3>6. f.ok = TRUE /\ f.inum = c.latest /\ f.dev = d
      BY <3>1
    <3>7. ~ s => ~ c.strayed
      BY <2>7 DEF s
    <3> HIDE DEF f
    <3> QED
      BY <2>2, <2>5, <3>3, <3>4, <3>5, <3>6, <3>7 DEF Enters, f
  <2> QED
    BY <2>10, <2>11
<1> QED
  BY <1>1, <1>2

\* A file was entered in the tree of dev: c is dev after the lookups.
NewIn(f, dev, path, c, d) ==
    /\ c \in Devices /\ Treed(c) /\ Numbers(c) /\ SameTree(c, dev) /\ c.latest = dev.latest
    /\ f.dev.cache = c.cache /\ ParentCached(c.cache, d, path)
    /\ Grows(f.dev, c, d, path, f.inum)

(* create_new_file adds the name it was called for to the tree, or nothing.*)
LEMMA NewFileTree ==
    ASSUME NEW dev, Fit(dev), Treed(dev), NEW path \in Paths, NEW f, f = NewFile(dev, path), ~ f.dev.strayed
    PROVE  /\ ~ f.ok => Treed(f.dev) /\ SameTree(f.dev, dev)
           /\ f.ok => \E c, d : NewIn(f, dev, path, c, d)
           /\ dev.latest <= f.dev.latest
<1> DEFINE p == Parent(dev, path)
           child == Resolve(p.dev, path, FALSE)
           front == Front(path)
           name == Last(path)
<1>1. dev \in Devices /\ Sane(dev) /\ Numbers(dev)
  BY DEF Fit
<1>2. /\ path \in Seq(NameSet) /\ Len(path) > 0 /\ Len(path) \in Nat /\ front \in Seq(NameSet)
      /\ name \in NameSet \ {".", ".."} /\ Len(front) = Len(path) - 1 /\ path = Append(front, name)
      /\ path \in Walks
  BY PathsGive, FrontAndLast DEF Walks
<1>3. front \in Walks
  <2>1. CASE Len(path) > 1
    BY <2>1, NameAssumption DEF Walks
  <2>2. CASE ~ Len(path) > 1
    <3>1. Len(front) = 0
      BY <1>2, <2>2
    <3> QED
      BY <1>2, <3>1, EmptySeq DEF Walks
  <2> QED
    BY <2>1, <2>2
<1>4. LooksUp(p, dev) /\ p = Resolve(dev, front, TRUE)
  BY <1>1, <1>2, ResolveLooksUp DEF Parent
<1> HIDE DEF p
<1>5. Fit(p.dev) /\ p.inum \in Inums \cup {NoInode} /\ p.inum < dev.latest /\ p.dev.latest = dev.latest
  BY <1>4, LookedUpFit
<1>6. p.dev \in Devices /\ Sane(p.dev) /\ Numbers(p.dev)
  BY <1>5 DEF Fit
<1>7. LooksUp(child, p.dev)
  BY <1>2, <1>6, ResolveLooksUp
<1> HIDE DEF child
<1>8. /\ Fit(child.dev) /\ child.dev.latest = dev.latest
      /\ child.dev.image = p.dev.image /\ child.dev.inodes = p.dev.inodes
  BY <1>5, <1>6, <1>7, LookedUpFit, LooksUpSame
<1>9. ASSUME ~ p.dev.strayed
      PROVE  Treed(p.dev) /\ SameTree(p.dev, dev) /\ Tells(p.dev, p.inum, front, TRUE)
  BY <1>1, <1>3, <1>4, <1>9, ResolveTreed
<1>10. CASE p.inum = NoInode
  <2>1. f = Failed(p.dev)
    BY <1>10 DEF NewFile, EnteredBelow, p
  <2>2. f.dev = p.dev /\ f.ok = FALSE
    BY <2>1 DEF Failed
  <2>3. dev.latest <= f.dev.latest
    <3>1. dev.latest \in Nat
      BY <1>1 DEF Devices
    <3> QED
      BY <1>5, <2>2, <3>1
  <2> QED
    BY <1>9, <2>2, <2>3
<1>11. CASE p.inum # NoInode
  <2> DEFINE c == child.dev
             d == p.inum
  <2>1. f = Entered(child, d, name)
    BY <1>11 DEF NewFile, EnteredBelow, p, child
  <2>2. ASSUME child.inum = NoInode
        PROVE  FindFile(Images(c, c.inodes[d]), name).pos = -1
    <3>1. FindFile(Images(p.dev, p.dev.inodes[p.inum]), Last(path)).pos = -1
      BY <1>1, <1>2, <1>11, <2>2, ChildNotThere DEF p, child
    <3>2. Images(child.dev, child.dev.inodes[p.inum]) = Images(p.dev, p.dev.inodes[p.inum])
      BY <1>8 DEF Images
    <3> QED
      BY <3>1, <3>2
  <2>3. d \in Inums /\ d < c.latest
    BY <1>5, <1>8, <1>11
  <2>4. Enters(f, c, d, name)
    BY <1>2, <1>8, <2>1, <2>2, <2>3, EnteredTree
  <2>5. ~ c.strayed /\ ~ p.dev.strayed
    <3>1. ~ c.strayed
      BY <2>4 DEF Enters
    <3>2. p.dev.strayed => c.strayed
      BY <1>7 DEF LooksUp
    <3> QED
      BY <3>1, <3>2
  <2>6. Treed(c) /\ SameTree(c, p.dev) /\ Tells(c, child.inum, path, FALSE)
    BY <1>2, <1>6, <1>9, <2>5, ResolveTreed DEF child
  <2>7. SameTree(c, dev) /\ c \in Devices /\ Numbers(c)
    <3>1. SameTree(p.dev, dev)
      BY <1>9, <2>5
    <3> QED
      BY <1>8, <2>6, <3>1 DEF SameTree, Fit
  <2>8. dev.latest <= f.dev.latest
    BY <1>8, <2>4 DEF Enters
  <2>9. CASE ~ f.ok
    <3>1. SameTree(f.dev, c) /\ f.dev.cache = c.cache
      BY <2>4, <2>9 DEF Enters, SameInodes, SameTree
    <3>2. f.dev \in Devices
      <4>1. Made(f)
        BY <1>2, NewFileMade
      <4> QED
        BY <4>1 DEF Made, FileResults
    <3>3. AllTell(c, f.dev.cache)
      BY <2>6, <3>1 DEF Treed
    <3>4. Treed(f.dev)
      BY <2>6, <2>7, <3>1, <3>2, <3>3, SameTreed
    <3>5. SameTree(f.dev, dev)
      BY <2>7, <3>1 DEF SameTree
    <3> QED
      BY <2>8, <2>9, <3>4, <3>5
  <2>10. CASE f.ok
    <3>1. /\ f.inum = c.latest /\ c.latest \in Inums /\ d \in Live(c)
          /\ Edges(f.dev) = Edges(c) \cup {<<d, name, c.latest>>}
          /\ SameInodes(f.dev, c) /\ f.dev.removed = c.removed /\ f.dev.cache = c.cache
      BY <2>4, <2>10 DEF Enters
    <3>2. child.inum = NoInode
      <4> SUFFICES ASSUME child.inum # NoInode
                   PROVE  FALSE
        OBVIOUS
      <4>1. f = Failed(c)
        BY <2>1 DEF Entered
      <4> QED
        BY <2>10, <4>1 DEF Failed
    <3>3. \A j : ~ Denotes(Edges(c), path, j)
      <4> SUFFICES ASSUME NEW j, Denotes(Edges(c), path, j)
                   PROVE  FALSE
        OBVIOUS
      <4>1. j = NoInode
        BY <2>6, <3>2 DEF Tells
      <4>2. j \in Inums
        <5>1. Len(path) \in 0 .. Len(path)
          BY <1>2
        <5> QED
          BY <5>1 DEF Denotes, Goes
      <4> QED
        BY <4>1, <4>2, NoInodeNot
    <3>4. Denotes(Edges(c), front, d)
      <4>1. Tells(p.dev, d, front, TRUE) /\ Edges(c) = Edges(p.dev) /\ c.removed = p.dev.removed
        BY <1>9, <2>5, <2>6 DEF SameTree
      <4>2. d \notin c.removed /\ c.inodes[d].kind = "dir" /\ d # NoInode
        BY <1>11, <3>1 DEF Live
      <4> QED
        BY <1>8, <4>1, <4>2 DEF Tells
    <3>5. Grows(f.dev, c, d, path, f.inum)
      <4>1. /\ f.dev.inodes[f.inum].kind = "none" => f.dev.inodes[f.inum].links < 1
            /\ f.dev.inodes[f.inum].kind # "none" => f.dev.inodes[f.inum].links = 1
        BY <2>6, <3>1 DEF SameInodes, Treed, Counted
      <4> HIDE DEF c, d
      <4> QED
        BY <3>1, <3>3, <3>4, <4>1 DEF Grows, SameInodes
    <3>6. ParentCached(c.cache, d, path)
      <4>1. /\ child.dev = p.dev
            /\ <<path, FALSE>> \notin DOMAIN p.dev.cache
            /\ Len(path) > 1 => <<Front(path), TRUE>> \in DOMAIN p.dev.cache /\ p.dev.cache[<<Front(path), TRUE>>] = p.inum
            /\ Len(path) = 1 => p.inum = ROOT_INODE
        BY <1>1, <1>2, <1>11, <3>2, ChildNotCached DEF p, child
      <4> QED
        BY <4>1 DEF ParentCached
    <3>7. c.latest = dev.latest
      BY <1>8
    <3>8. NewIn(f, dev, path, c, d)
      <4> HIDE DEF c, d
      <4> QED
        BY <2>6, <2>7, <3>1, <3>5, <3>6, <3>7 DEF NewIn
    <3> QED
      BY <2>8, <2>10, <3>8
  <2>11. f.ok \in BOOLEAN
    <3>1. Made(f)
      BY <1>2, NewFileMade
    <3> QED
      BY <3>1 DEF Made, FileResults
  <2> QED
    BY <2>9, <2>10, <2>11
<1> QED
  BY <1>10, <1>11

\* The inode x was written, and nothing else that concerns the tree.
Writes(dev2, dev, x, kind) ==
    /\ dev2 \in Devices /\ Edges(dev2) = Edges(dev)
    /\ dev2.removed = dev.removed /\ dev2.cache = dev.cache /\ dev2.latest = dev.latest
    /\ dev2.inodes[x].kind = kind /\ dev2.inodes[x].links = 1
    /\ \A i \in Inums : i # x => /\ dev2.inodes[i].kind = dev.inodes[i].kind
                                 /\ dev2.inodes[i].links = dev.inodes[i].links

\* A new inode has one link.
LEMMA NewInodeLinks ==
    ASSUME NEW kind \in {"none", "file", "dir"}
    PROVE  NewInode(kind).links = 1
  BY DEF NewInode, BlankInode

(* charm_mknod: a file has no names in it.                                 *)
LEMMA FileTree ==
    ASSUME NEW f, Made(f), f.ok, NEW r, r = [f EXCEPT !.dev.inodes[f.inum] = NewInode("file")]
    PROVE  /\ Writes(r.dev, f.dev, f.inum, "file")
           /\ r.inum = f.inum /\ r.dev.strayed = f.dev.strayed /\ r.dev.misfreed = f.dev.misfreed
<1> DEFINE x == f.inum
           new == NewInode("file")
           dev == f.dev
           d == [dev EXCEPT !.inodes[x] = new]
<1>1. f \in FileResults /\ Whole(dev) /\ x \in Inums /\ dev.inodes[x].kind = "none"
  BY DEF Made
<1>2. new \in InodeSet /\ new.kind = "file" /\ new.links = 1
  BY NewInodeType, NewInodeLinks
<1> HIDE DEF new
<1>3. r.dev = d /\ r.inum = x
  BY <1>1 DEF FileResults, new
<1> HIDE DEF dev, x
<1>4. dev \in Devices
  BY <1>1 DEF Whole
<1>5. /\ d \in Devices /\ d.image = dev.image /\ d.cache = dev.cache /\ d.latest = dev.latest
      /\ d.removed = dev.removed /\ d.strayed = dev.strayed /\ d.misfreed = dev.misfreed
      /\ d.inodes[x] = new /\ \A i \in Inums : i # x => d.inodes[i] = dev.inodes[i]
  BY <1>1, <1>2, <1>4 DEF Devices
<1> HIDE DEF d
<1>6. Live(d) = Live(dev) /\ \A i \in Live(dev) : i \in Inums /\ i # x
  BY <1>1, <1>2, <1>5 DEF Live
<1>7. Edges(d) = Edges(dev)
  BY <1>4, <1>5, <1>6, EdgesElsewhere DEF SameBlocks
<1>8. Writes(d, dev, x, "file")
  BY <1>2, <1>5, <1>7 DEF Writes
<1> QED
  BY <1>3, <1>5, <1>8 DEF x, dev

\* Two records are all a new directory has.
LEMMA NoNamesHeld ==
    ASSUME NEW img, \A q \in Reached(img) : img[q].name \in {".", ".."}, NEW nm, NEW i,
           NEW imgs, \A j \in 1 .. 1 : imgs[j] = img, Holding(imgs, 1, nm, i)
    PROVE  nm \in {".", ".."}
  BY DEF Holding

(* custom_mkdir: a new directory has no names in it but "." and "..", and a*)
(* failure leaves the tree.                                                *)
LEMMA DirectoryTree ==
    ASSUME NEW f, Made(f), f.ok, Sane(f.dev), NEW r, r = NewDir(f)
    PROVE  /\ r.ok => Writes(r.dev, f.dev, f.inum, "dir") /\ r.inum = f.inum
           /\ ~ r.ok => /\ SameTree(r.dev, f.dev) /\ r.dev.cache = f.dev.cache /\ r.dev.latest = f.dev.latest
                       /\ f.dev.pick = <<>>
           /\ r.dev.strayed = f.dev.strayed /\ r.dev.misfreed = f.dev.misfreed
<1>1. f \in FileResults /\ Whole(f.dev) /\ f.ok \in BOOLEAN
  BY DEF Made, FileResults
<1> DEFINE x == f.inum
           dev == f.dev
           n0 == NewInode("dir")
           dot == AddEntry(dev, n0, x, ".")
           dotdot == AddEntry(dot.dev, dot.node, x, "..")
           b == Head(dev.pick)
           img == Split(Lone(x, "."), x, "..")
<1>2. /\ Picked(dev) /\ x \in Inums /\ x < dev.latest /\ x \notin dev.removed /\ dev.inodes[x].kind = "none"
      /\ dev \in Devices /\ Sane(dev)
  BY DEF Made, Whole
<1>3. n0 \in InodeSet /\ n0.kind = "dir" /\ n0.num_blocks = 0 /\ n0.links = 1
  BY NewInodeType, NewInodeLinks
<1>4. r = IF ~ dot.ok \/ ~ dotdot.ok THEN Failed(dotdot.dev)
          ELSE [f EXCEPT !.dev = [dotdot.dev EXCEPT !.inodes[x] = dotdot.node]]
  BY DEF NewDir
<1> HIDE DEF x, dev, n0
<1>5. \/ AddFails(dot, dev, n0) /\ (dev.pick = <<>> \/ n0.num_blocks # 0)
      \/ AddSplits(dot, dev, n0, x, ".")
      \/ AddGrows(dot, dev, n0, x, ".")
  BY <1>2, <1>3, SizeFacts, AddEntryGives
<1>6. EntryTypes(dot, dev, n0, x, ".") /\ dot.node.links = 1
  BY <1>2, <1>3, SizeFacts, EntryTyped, AddedLinks
<1> HIDE DEF dot
<1>7. /\ dot.node \in InodeSet /\ dot.node.kind = "dir" /\ dot.dev \in Devices
      /\ SameOtherwise(dot.dev, dev) /\ dot.dev.misfreed = dev.misfreed
  BY <1>3, <1>6 DEF EntryTypes
<1>8. \/ AddFails(dotdot, dot.dev, dot.node) /\ (dot.dev.pick = <<>> \/ dot.node.num_blocks # 0)
      \/ AddSplits(dotdot, dot.dev, dot.node, x, "..")
      \/ AddGrows(dotdot, dot.dev, dot.node, x, "..")
  BY <1>2, <1>7, SizeFacts, AddEntryGives
<1>9. EntryTypes(dotdot, dot.dev, dot.node, x, "..")
  BY <1>2, <1>7, SizeFacts, EntryTyped
<1>10. dotdot.dev \in Devices /\ SameOtherwise(dotdot.dev, dot.dev) /\ dotdot.dev.misfreed = dot.dev.misfreed
  <2> HIDE DEF dotdot
  <2> QED
    BY <1>9 DEF EntryTypes
<1>11. CASE AddFails(dot, dev, n0) /\ (dev.pick = <<>> \/ n0.num_blocks # 0)
  <2>1. dot.ok = FALSE /\ dot.node = n0 /\ dot.dev = dev /\ dev.pick = <<>>
    BY <1>3, <1>11 DEF AddFails
  <2> HIDE DEF dotdot
  <2>2. ~ AddSplits(dotdot, dot.dev, dot.node, x, "..")
    BY <1>3, <2>1 DEF AddSplits
  <2>3. ~ AddGrows(dotdot, dot.dev, dot.node, x, "..")
    BY <2>1 DEF AddGrows
  <2>4. dotdot.dev = dev
    BY <1>8, <2>1, <2>2, <2>3 DEF AddFails
  <2>5. r = Failed(dev)
    BY <1>4, <2>1, <2>4
  <2>6. r.ok = FALSE /\ r.dev = dev
    BY <2>5 DEF Failed
  <2> QED
    BY <2>1, <2>6 DEF SameTree, dev
<1>12. CASE AddGrows(dot, dev, n0, x, ".")
  <2>1. /\ dot.ok /\ dev.pick # <<>> /\ b \in Blocks /\ dot.node.num_blocks = 1 /\ dot.node.blocks[1] = b
        /\ dot.dev = [dev EXCEPT !.image[b] = Lone(x, "."), !.free = @ \ {b}, !.pick = Tail(@)]
    BY <1>3, <1>12 DEF AddGrows
  <2>2. b \in dev.free
    <3>1. dev.pick \in Seq(Blocks) /\ 1 \in DOMAIN dev.pick /\ b = dev.pick[1]
      BY <1>2, <2>1 DEF Devices
    <3> QED
      BY <1>2, <3>1 DEF Picked
  <2>3. Room(Lone(x, "."), "..") # {} /\ \A q \in Reached(img) : img[q].name \in {".", ".."}
    BY <1>2, DirectoryMade
  <2> DEFINE one == Lone(x, ".")
  <2> HIDE DEF b, img, one
  <2>4. /\ dot.dev.image[b] = one /\ \A c \in Blocks : c # b => dot.dev.image[c] = dev.image[c]
    BY <1>2, <2>1 DEF Devices, one
  <2>5. dotdot = [ok |-> TRUE, node |-> dot.node, dev |-> [dot.dev EXCEPT !.image[b] = Split(@, x, "..")]]
    BY <2>1, <2>3, <2>4 DEF AddEntry, one
  <2>6. /\ dotdot.ok /\ dotdot.node = dot.node
        /\ dotdot.dev.image[b] = img /\ \A c \in Blocks : c # b => dotdot.dev.image[c] = dev.image[c]
    <3> DEFINE e == [dot.dev EXCEPT !.image[b] = Split(@, x, "..")]
    <3>1. Split(one, x, "..") = img
      BY DEF img, one
    <3>2. /\ e.image[b] = img /\ \A c \in Blocks : c # b => e.image[c] = dot.dev.image[c]
      BY <1>7, <2>1, <2>4, <3>1 DEF Devices
    <3>3. dotdot.ok = TRUE /\ dotdot.node = dot.node /\ dotdot.dev = e
      BY <2>5
    <3> HIDE DEF e, dotdot
    <3> QED
      BY <2>4, <3>2, <3>3
  <2> DEFINE d == [dotdot.dev EXCEPT !.inodes[x] = dot.node]
  <2>7. r = [f EXCEPT !.dev = d]
    BY <1>4, <2>1, <2>6
  <2> HIDE DEF dotdot
  <2>8. /\ d \in Devices /\ d.image = dotdot.dev.image /\ d.latest = dev.latest
        /\ d.cache = dev.cache /\ d.removed = dev.removed /\ d.strayed = dev.strayed /\ d.misfreed = dev.misfreed
        /\ d.inodes[x] = dot.node /\ \A i \in Inums : i # x => d.inodes[i] = dev.inodes[i]
    <3>1. /\ dotdot.dev.inodes = dev.inodes /\ dotdot.dev.latest = dev.latest /\ dotdot.dev.cache = dev.cache
          /\ dotdot.dev.removed = dev.removed /\ dotdot.dev.strayed = dev.strayed /\ dotdot.dev.misfreed = dev.misfreed
      BY <1>7, <1>10 DEF SameOtherwise
    <3> QED
      BY <1>2, <1>7, <1>10, <2>6, <3>1 DEF Devices
  <2> HIDE DEF d
  <2>9. Live(d) = Live(dev) \cup {x} /\ x \notin Live(dev)
    BY <1>2, <1>7, <2>8 DEF Live
  <2>10. ASSUME NEW k \in Live(dev)
         PROVE  k # x /\ Images(d, d.inodes[k]) = Images(dev, dev.inodes[k]) /\ d.inodes[k].num_blocks = dev.inodes[k].num_blocks
    <3>1. k # x /\ d.inodes[k] = dev.inodes[k]
      BY <2>8, <2>9 DEF Live
    <3>2. \A c \in Blocks : ~ Holds(dev.inodes[x], c)
      <4>1. dev.inodes[x] \in InodeSet
        BY <1>2 DEF Devices
      <4>2. dev.inodes[x].num_blocks = 0
        BY <1>2, <4>1, InodeFacts
      <4> QED
        BY <4>2 DEF Holds
    <3>3. WrittenIn(d, dev, x)
      BY <2>2, <2>6, <2>8 DEF WrittenIn
    <3>4. SameBlocks(d.inodes[k], dev.inodes[k])
      BY <3>1 DEF SameBlocks
    <3>5. Images(d, d.inodes[k]) = Images(dev, dev.inodes[k])
      BY <1>2, <2>8, <3>1, <3>2, <3>3, <3>4, ElsewhereSame
    <3> QED
      BY <3>1, <3>5
  <2>11. ASSUME NEW nm, NEW i, <<x, nm, i>> \in Edges(d)
         PROVE  FALSE
    <3> DEFINE imgs == Images(d, d.inodes[x])
    <3>1. Holding(imgs, 1, nm, i) /\ nm \notin {".", ".."}
      BY <2>1, <2>8, <2>11, EdgesIff
    <3>2. \A j \in 1 .. 1 : imgs[j] = d.image[d.inodes[x].blocks[j]]
      BY <1>7, <2>1, <2>8, ImagesFacts
    <3>3. \A j \in 1 .. 1 : imgs[j] = img
      BY <2>1, <2>6, <2>8, <3>2
    <3> HIDE DEF imgs
    <3> QED
      BY <2>3, <3>1, <3>3, NoNamesHeld
  <2>12. ASSUME NEW k, NEW nm, NEW i
         PROVE  <<k, nm, i>> \in Edges(d) <=> <<k, nm, i>> \in Edges(dev)
    <3>1. CASE k = x
      BY <2>9, <2>11, <3>1, EdgesIff
    <3>2. CASE k # x
      BY <2>9, <2>10, <3>2, EdgesIff
    <3> QED
      BY <3>1, <3>2
  <2>13. Edges(d) = Edges(dev)
    BY <2>12, SameEdges
  <2>14. Writes(d, dev, x, "dir")
    BY <1>6, <1>7, <2>8, <2>13 DEF Writes
  <2>15. r.dev = d /\ r.ok = TRUE /\ r.inum = x
    BY <1>1, <2>7 DEF FileResults, x
  <2> QED
    BY <2>8, <2>14, <2>15 DEF x, dev
<1>13. ~ AddSplits(dot, dev, n0, x, ".")
  BY <1>3 DEF AddSplits
<1> QED
  BY <1>5, <1>11, <1>12, <1>13

\* custom_mkdir frees no block, and looks into no directory but the new one.
LEMMA NewDirSame ==
    ASSUME NEW f, Made(f), f.ok, NEW r, r = NewDir(f)
    PROVE  r.dev.strayed = f.dev.strayed /\ r.dev.misfreed = f.dev.misfreed
<1> DEFINE x == f.inum
           dev == f.dev
           n0 == NewInode("dir")
           dot == AddEntry(dev, n0, x, ".")
           dotdot == AddEntry(dot.dev, dot.node, x, "..")
           node == dotdot.node
           last == dotdot.dev
           d == [last EXCEPT !.inodes[x] = node]
<1>1. f \in FileResults /\ x \in Inums /\ dev \in Devices
  BY DEF Made, Whole
<1>2. n0 \in InodeSet /\ n0.kind = "dir"
  BY NewInodeType
<1>3. r = IF ~ dot.ok \/ ~ dotdot.ok THEN Failed(last) ELSE [f EXCEPT !.dev = d]
  BY DEF NewDir
<1> HIDE DEF x, dev, n0
<1>4. EntryTypes(dot, dev, n0, x, ".")
  BY <1>1, <1>2, SizeFacts, EntryTyped
<1> HIDE DEF dot
<1>5. dot.node \in InodeSet /\ dot.node.kind = "dir" /\ dot.dev \in Devices /\ SameOtherwise(dot.dev, dev) /\ dot.dev.misfreed = dev.misfreed
  BY <1>2, <1>4 DEF EntryTypes
<1>6. EntryTypes(dotdot, dot.dev, dot.node, x, "..")
  BY <1>1, <1>5, SizeFacts, EntryTyped
<1> HIDE DEF dotdot
<1>7. last \in Devices /\ SameOtherwise(last, dot.dev) /\ last.misfreed = dot.dev.misfreed
  BY <1>6 DEF EntryTypes
<1>8. last.strayed = dev.strayed /\ last.misfreed = dev.misfreed
  BY <1>5, <1>7 DEF SameOtherwise
<1> HIDE DEF last, node
<1>9. d.strayed = last.strayed /\ d.misfreed = last.misfreed
  BY <1>7 DEF Devices
<1> HIDE DEF d
<1>10. r.dev = last \/ r.dev = d
  BY <1>1, <1>3 DEF Failed, FileResults
<1> QED
  BY <1>8, <1>9, <1>10 DEF dev

\* The path has an object of this kind on d, and nothing else in the tree of dev has changed.
GrewFrom(d, dev, path, kind) ==
    \E c \in Devices : \E e, x :
        /\ Treed(c) /\ Numbers(c) /\ SameTree(c, dev) /\ c.latest = dev.latest
        /\ Grows(d, c, e, path, x) /\ d.inodes[x].kind = kind

\* create_new_file leaves a tree.
LEMMA CreatedTreed ==
    ASSUME NEW dev, Fit(dev), Treed(dev), NEW path \in Paths, NEW f, f = NewFile(dev, path), ~ f.dev.strayed
    PROVE  Treed(f.dev)
<1>1. Made(f)
  BY PathsGive, NewFileMade
<1>2. f.dev \in Devices
  BY <1>1 DEF Made, Whole
<1>3. CASE ~ f.ok
  BY <1>3, NewFileTree
<1>4. CASE f.ok
  <2>1. PICK c, d : NewIn(f, dev, path, c, d)
    BY <1>4, NewFileTree
  <2> QED
    BY <1>2, <2>1, TreeGrows DEF NewIn
<1> QED
  BY <1>3, <1>4

\* ... and the write of the inode it got does, too.
LEMMA WrittenTreed ==
    ASSUME NEW dev, Fit(dev), Treed(dev), NEW path \in Paths, NEW f, f = NewFile(dev, path), ~ f.dev.strayed, f.ok = TRUE,
           NEW dev2, NEW kind, kind # "none", Writes(dev2, f.dev, f.inum, kind)
    PROVE  Treed(dev2) /\ GrewFrom(dev2, dev, path, kind) /\ dev.latest <= dev2.latest
<1>1. PICK c, d : NewIn(f, dev, path, c, d)
  BY NewFileTree
<1> DEFINE x == f.inum
<1> HIDE DEF x
<1>2. /\ c \in Devices /\ Treed(c) /\ Numbers(c) /\ f.dev.cache = c.cache /\ ParentCached(c.cache, d, path)
      /\ Grows(f.dev, c, d, path, x) /\ SameTree(c, dev) /\ c.latest = dev.latest
  BY <1>1 DEF NewIn, x
<1>3. Writes(dev2, f.dev, x, kind)
  BY DEF x
<1>4. Grows(dev2, c, d, path, x)
  BY <1>2, <1>3 DEF Grows, Writes
<1>5. dev2 \in Devices /\ dev2.cache = c.cache /\ dev2.latest = f.dev.latest /\ dev2.inodes[x].kind = kind
  BY <1>2, <1>3 DEF Writes
<1>6. Treed(dev2)
  BY <1>2, <1>4, <1>5, TreeGrows
<1>7. GrewFrom(dev2, dev, path, kind)
  BY <1>2, <1>4, <1>5 DEF GrewFrom
<1>8. dev.latest <= f.dev.latest
  BY NewFileTree
<1> QED
  BY <1>5, <1>6, <1>7, <1>8

\* charm_mknod keeps the tree.
LEMMA FileTreed ==
    ASSUME NEW dev, Fit(dev), Treed(dev), NEW path \in Paths, NEW f, f = NewFile(dev, path),
           NEW r, r = (IF f.ok THEN [f EXCEPT !.dev.inodes[f.inum] = NewInode("file")] ELSE f), ~ r.dev.strayed
    PROVE  /\ Treed(r.dev) /\ dev.latest <= r.dev.latest
           /\ IF r.ok THEN GrewFrom(r.dev, dev, path, "file") ELSE SameTree(r.dev, dev)
<1>1. Made(f)
  BY PathsGive, NewFileMade
<1>2. f.ok => f.ok = TRUE
  BY <1>1 DEF Made, FileResults
<1>3. CASE ~ f.ok
  <2>1. r = f
    BY <1>3
  <2>2. SameTree(f.dev, dev) /\ dev.latest <= f.dev.latest
    BY <1>3, <2>1, NewFileTree
  <2> QED
    BY <1>3, <2>1, <2>2, CreatedTreed
<1>4. CASE f.ok
  <2> DEFINE w == [f EXCEPT !.dev.inodes[f.inum] = NewInode("file")]
  <2>1. r = w
    BY <1>4
  <2>2. Writes(w.dev, f.dev, f.inum, "file") /\ w.dev.strayed = f.dev.strayed
    BY <1>1, <1>4, FileTree
  <2>3. w.ok = f.ok
    BY <1>1 DEF Made, FileResults
  <2> HIDE DEF w
  <2>4. Writes(r.dev, f.dev, f.inum, "file") /\ r.dev.strayed = f.dev.strayed
    BY <2>1, <2>2
  <2>5. "file" # "none"
    OBVIOUS
  <2> DEFINE e == r.dev
  <2>6. Writes(e, f.dev, f.inum, "file") /\ ~ f.dev.strayed /\ f.ok = TRUE
    BY <1>4, <1>2, <2>4
  <2> HIDE DEF e
  <2>7. Treed(e) /\ GrewFrom(e, dev, path, "file") /\ dev.latest <= e.latest
    BY <2>5, <2>6, WrittenTreed
  <2> QED
    BY <1>4, <2>1, <2>7, <2>3 DEF e
<1> QED
  BY <1>3, <1>4

\* charm_mkdir keeps the tree, also when the new directory stays without its two records.
LEMMA DirectoryTreed ==
    ASSUME NEW dev, Fit(dev), Treed(dev), NEW path \in Paths, NEW f, f = NewFile(dev, path),
           NEW r, r = NewDir(f), ~ r.dev.strayed, ~ r.dev.misfreed
    PROVE  /\ Treed(r.dev) /\ dev.latest <= r.dev.latest
           /\ IF r.ok THEN GrewFrom(r.dev, dev, path, "dir")
              ELSE SameTree(r.dev, dev) \/ GrewFrom(r.dev, dev, path, "none")
<1>1. Made(f)
  BY PathsGive, NewFileMade
<1>2. f.ok => f.ok = TRUE
  BY <1>1 DEF Made, FileResults
<1>3. CASE ~ f.ok
  <2>1. r = f
    BY <1>3 DEF NewDir
  <2>2. Treed(f.dev) /\ SameTree(f.dev, dev) /\ dev.latest <= f.dev.latest
    BY <1>3, <2>1, CreatedTreed, NewFileTree
  <2> QED
    BY <1>3, <2>1, <2>2
<1>4. CASE f.ok
  <2>1. ~ f.dev.strayed /\ ~ f.dev.misfreed
    BY <1>1, <1>4, NewDirSame
  <2>2. Sane(f.dev) /\ f.dev \in Devices
    BY <1>1, <2>1 DEF Made, Whole
  <2>3. /\ r.ok => Writes(r.dev, f.dev, f.inum, "dir")
        /\ ~ r.ok => SameTree(r.dev, f.dev) /\ r.dev.cache = f.dev.cache /\ r.dev.latest = f.dev.latest
    BY <1>1, <1>4, <2>2, DirectoryTree
  <2>4. CASE r.ok
    <3>1. Writes(r.dev, f.dev, f.inum, "dir")
      BY <2>3, <2>4
    <3>2. "dir" # "none"
      OBVIOUS
    <3> QED
      BY <1>4, <1>2, <2>1, <2>4, <3>1, <3>2, WrittenTreed
  <2>5. CASE ~ r.ok
    <3>1. r.dev \in Devices
      BY <1>1, DirectoryWritten DEF Whole
    <3>2. Treed(f.dev)
      BY <2>1, CreatedTreed
    <3>3. AllTell(f.dev, r.dev.cache)
      BY <2>3, <2>5, <3>2 DEF Treed
    <3>4. Treed(r.dev)
      BY <2>2, <2>3, <2>5, <3>1, <3>2, <3>3, SameTreed
    <3>5. (\E c, d : NewIn(f, dev, path, c, d)) /\ dev.latest <= f.dev.latest
      BY <1>4, <2>1, NewFileTree
    <3>6. PICK c, d : NewIn(f, dev, path, c, d)
      BY <3>5
    <3> DEFINE x == f.inum
               e == r.dev
    <3>7. SameTree(e, f.dev) /\ e.latest = f.dev.latest
      BY <2>3, <2>5
    <3>8. x \in Inums /\ f.dev.inodes[x].kind = "none"
      BY <1>1, <1>4 DEF Made
    <3> HIDE DEF x, e
    <3>9. c \in Devices /\ Treed(c) /\ Numbers(c) /\ SameTree(c, dev) /\ c.latest = dev.latest /\ Grows(f.dev, c, d, path, x)
      BY <3>6 DEF NewIn, x
    <3>10. Grows(e, c, d, path, x)
      BY <3>7, <3>8, <3>9 DEF Grows, SameTree
    <3>11. e.inodes[x].kind = "none"
      BY <3>7, <3>8 DEF SameTree
    <3>12. GrewFrom(e, dev, path, "none")
      BY <3>9, <3>10, <3>11 DEF GrewFrom
    <3> QED
      BY <2>5, <3>4, <3>5, <3>7, <3>12 DEF e
  <2> QED
    BY <2>4, <2>5
<1> QED
  BY <1>3, <1>4

\* d is g but for the inode p and for strayed.
WritesOne(d, g, p, node) ==
    /\ d \in Devices /\ d.image = g.image /\ d.free = g.free /\ d.removed = g.removed
    /\ d.cache = g.cache /\ d.misfreed = g.misfreed /\ d.inodes[p] = node
    /\ \A i \in Inums : i # p => d.inodes[i] = g.inodes[i]

\* The inode of the parent and strayed are all that UnlinkedDev writes after Fewer.
LEMMA UnlinkedSame ==
    ASSUME NEW dev \in Devices, NEW x, NEW p \in Inums, NEW key, NEW w, w.node \in InodeSet,
           NEW g \in Devices, g = Fewer(w.dev, x, key), NEW d, d = UnlinkedDev(dev, x, p, w, key)
    PROVE  WritesOne(d, g, p, w.node)
<1> DEFINE s == g.strayed \/ p \in dev.removed
           e == [g EXCEPT !.inodes[p] = w.node, !.strayed = s]
<1>1. d = e /\ s \in BOOLEAN
  BY DEF UnlinkedDev, Devices
<1> HIDE DEF s
<1>2. /\ e \in Devices /\ e.image = g.image /\ e.free = g.free /\ e.removed = g.removed
      /\ e.cache = g.cache /\ e.misfreed = g.misfreed /\ e.inodes[p] = w.node
      /\ e.strayed = s
      /\ \A i \in Inums : i # p => e.inodes[i] = g.inodes[i]
  BY <1>1 DEF Devices
<1> HIDE DEF e
<1> QED
  BY <1>1, <1>2 DEF WritesOne

\* A link less.
OneLess(dev, x) == [dev EXCEPT !.inodes[x].links = @ - 1]

\* Of an inode with a link less all else is as it was.
LEMMA LinkLess ==
    ASSUME NEW dev \in Devices, NEW x \in Inums, NEW g, g = OneLess(dev, x)
    PROVE  /\ g \in Devices /\ g.image = dev.image /\ g.free = dev.free /\ g.removed = dev.removed /\ g.cache = dev.cache
           /\ SameBlocks(g.inodes[x], dev.inodes[x]) /\ g.inodes[x].links = dev.inodes[x].links - 1
           /\ \A i \in Inums : i # x => g.inodes[i] = dev.inodes[i]
<1> DEFINE l == dev.inodes[x].links - 1
           node == [dev.inodes[x] EXCEPT !.links = l]
<1>1. dev.inodes[x] \in InodeSet
  BY DEF Devices
<1>2. l \in Links
  <2>1. dev.inodes[x].links \in Int /\ dev.inodes[x].links <= 1
    BY <1>1, InodeFacts
  <2> QED
    BY <2>1 DEF Links
<1> HIDE DEF l
<1>3. /\ node \in [kind : {"none", "file", "dir"}, links : Links, blocks : Seq(Blocks), num_blocks : Nat]
      /\ node.kind = dev.inodes[x].kind /\ node.blocks = dev.inodes[x].blocks
      /\ node.num_blocks = dev.inodes[x].num_blocks /\ node.links = l
  BY <1>1, <1>2 DEF InodeSet
<1> DEFINE e == [dev EXCEPT !.inodes[x] = node]
<1>4. g = e
  BY DEF Devices, l, OneLess
<1> HIDE DEF node
<1>5. node \in InodeSet
  BY <1>1, <1>3 DEF InodeSet
<1>6. /\ e \in Devices /\ e.image = dev.image /\ e.free = dev.free /\ e.removed = dev.removed /\ e.cache = dev.cache
      /\ e.inodes[x] = node
      /\ \A i \in Inums : i # x => e.inodes[i] = dev.inodes[i]
  BY <1>5 DEF Devices
<1> HIDE DEF e
<1>7. /\ g \in Devices /\ g.image = dev.image /\ g.free = dev.free /\ g.removed = dev.removed /\ g.cache = dev.cache
      /\ g.inodes[x] = node
      /\ \A i \in Inums : i # x => g.inodes[i] = dev.inodes[i]
  BY <1>4, <1>6
<1> QED
  BY <1>3, <1>7 DEF SameBlocks, l

(* custom_unlink, when what the name stands for has no names in it: the    *)
(* name goes from the parent, and the inode if it was written.             *)
LEMMA UnlinkedShrinks ==
    ASSUME NEW dev, Fit(dev), Counted(dev), NEW x \in Inums \ dev.removed, NEW p \in Live(dev),
           NEW path \in Seq(NameSet), Len(path) > 0,
           <<p, Last(path), x>> \in Edges(dev), Denotes(Edges(dev), Front(path), p), \A e \in Edges(dev) : e[1] # x,
           NEW at, IsFound(Images(dev, dev.inodes[p]), Last(path), at),
           NEW w, w = RemoveEntry(dev, dev.inodes[p], at),
           NEW d, d = UnlinkedDev(dev, x, p, w, <<path, FALSE>>), ~ d.misfreed
    PROVE  d \in Devices /\ Shrinks(d, dev, p, path, x)
<1> DEFINE name == Last(path)
           key == <<path, FALSE>>
           old == dev.inodes[p]
           g == Fewer(w.dev, x, key)
           less == {e \in Edges(dev) : ~ (e[1] = p /\ e[2] = name)}
<1>1. dev \in Devices /\ Numbers(dev) /\ Sane(dev)
  BY DEF Fit
<1>2. p \in Inums /\ old \in InodeSet /\ old.kind = "dir" /\ p \notin dev.removed /\ p # x
  <2>1. p # x
    <3> DEFINE e == <<p, Last(path), x>>
    <3>1. e \in Edges(dev) /\ e[1] = p
      OBVIOUS
    <3> HIDE DEF e
    <3> QED
      BY <3>1
  <2> QED
    BY <1>1, <2>1 DEF Live, Devices
<1>3. RemoveTypes(w, dev, old)
  BY <1>1, <1>2, RemovalTyped
<1>4. w.node.links = old.links
  BY <1>2, RemovedLinks
<1>5. /\ w.node \in InodeSet /\ w.node.kind = "dir" /\ w.dev \in Devices
      /\ w.dev.inodes = dev.inodes /\ w.dev.cache = dev.cache /\ w.dev.removed = dev.removed
  BY <1>2, <1>3 DEF RemoveTypes, SameOtherwise
<1>6. FewerTypes(g, w.dev, x)
  BY <1>5, FewerTyped
<1>7. g \in Devices
  BY <1>6 DEF FewerTypes
<1> HIDE DEF name, key, old, g
<1>8. /\ d \in Devices /\ d.image = g.image /\ d.free = g.free /\ d.removed = g.removed
      /\ d.cache = g.cache /\ d.misfreed = g.misfreed /\ d.inodes[p] = w.node
      /\ \A i \in Inums : i # p => d.inodes[i] = g.inodes[i]
  <2>1. g = Fewer(w.dev, x, key)
    BY DEF g
  <2>2. d = UnlinkedDev(dev, x, p, w, key)
    BY DEF key
  <2>3. WritesOne(d, g, p, w.node)
    BY <1>1, <1>2, <1>5, <1>7, <2>1, <2>2, UnlinkedSame
  <2> QED
    BY <2>3 DEF WritesOne
<1>9. \A k \in DOMAIN d.cache : k \in DOMAIN dev.cache /\ d.cache[k] = dev.cache[k]
  BY <1>5, <1>6, <1>8 DEF FewerTypes
<1>10. name \notin {".", ".."}
  BY EdgeParts, EdgesIff DEF name
<1>11. /\ dev.inodes[x].kind = "none" => dev.inodes[x].links < 1
       /\ dev.inodes[x].kind # "none" => dev.inodes[x].links = 1
       /\ dev.inodes[x].links \in Int
  <2>1. dev.inodes[x] \in InodeSet
    BY <1>1 DEF Devices
  <2> QED
    BY <2>1, InodeFacts DEF Counted
<1>12. ASSUME NEW m \in Devices, m.image = w.dev.image, m.free = w.dev.free, m.removed = dev.removed, m.inodes[p] = w.node,
              \A i \in Inums \ {p} : SameBlocks(m.inodes[i], dev.inodes[i])
       PROVE  Edges(m) = less /\ Live(m) = Live(dev)
  <2>1. NameLost(m, dev, p, name) /\ WrittenIn(m, dev, p)
    BY <1>1, <1>10, <1>12, EntryRemoved DEF name, old
  <2>2. Live(m) = Live(dev)
    BY <1>2, <1>5, <1>12 DEF Live, SameBlocks, old
  <2>3. Edges(m) = less
    BY <1>1, <1>12, <2>1, <2>2, EdgeLost
  <2> QED
    BY <2>2, <2>3
<1> HIDE DEF less
<1>13. CASE dev.inodes[x].links - 1 # 0
  <2>1. dev.inodes[x].kind = "none"
    BY <1>11, <1>13
  <2>2. g = OneLess(w.dev, x)
    BY <1>5, <1>13 DEF Fewer, OneLess, g
  <2>3. /\ g.image = w.dev.image /\ g.free = w.dev.free /\ g.removed = dev.removed
        /\ SameBlocks(g.inodes[x], dev.inodes[x]) /\ g.inodes[x].links = dev.inodes[x].links - 1
        /\ \A i \in Inums : i # x => g.inodes[i] = dev.inodes[i]
    BY <1>5, <2>2, LinkLess
  <2>4. \A i \in Inums \ {p} : SameBlocks(d.inodes[i], dev.inodes[i])
    BY <1>8, <2>3 DEF SameBlocks
  <2>5. Edges(d) = less
    BY <1>8, <1>12, <2>3, <2>4
  <2>6. d.removed = dev.removed /\ x \notin d.removed
    BY <1>8, <2>3
  <2>7. ASSUME NEW i \in Inums
        PROVE  /\ d.inodes[i].kind = dev.inodes[i].kind
               /\ d.inodes[i].links = dev.inodes[i].links \/ (d.inodes[i].kind = "none" /\ d.inodes[i].links < 1)
    <3>1. CASE i = p
      BY <1>2, <1>4, <1>5, <1>8, <3>1 DEF old
    <3>2. CASE i = x
      <4>1. d.inodes[x] = g.inodes[x]
        BY <1>2, <1>8
      <4>2. d.inodes[x].kind = "none" /\ d.inodes[x].links = dev.inodes[x].links - 1
        BY <2>1, <2>3, <4>1 DEF SameBlocks
      <4>3. dev.inodes[x].links - 1 < 1
        BY <1>11, <2>1
      <4> QED
        BY <2>1, <3>2, <4>2, <4>3
    <3>3. CASE i # p /\ i # x
      BY <1>8, <2>3, <3>3
    <3> QED
      BY <3>1, <3>2, <3>3
  <2>8. \A i \in Inums : d.inodes[i].kind = dev.inodes[i].kind
    BY <2>7
  <2>9. \A i \in Inums : d.inodes[i].links = dev.inodes[i].links
                           \/ (d.inodes[i].kind = "none" /\ d.inodes[i].links < 1)
    BY <2>7
  <2> QED
    BY <1>8, <1>9, <2>1, <2>5, <2>6, <2>8, <2>9 DEF Shrinks, less, name
<1>14. CASE dev.inodes[x].links - 1 = 0
  <2> DEFINE u == Uncached(w.dev, key)
             R == BlocksOf(dev.inodes[x])
             mid == [w.dev EXCEPT !.inodes[p] = w.node]
  <2>1. g = FreeInode(u, x)
    BY <1>5, <1>14 DEF Fewer, g
  <2>2. /\ u \in Devices
        /\ u.image = w.dev.image /\ u.free = w.dev.free /\ u.inodes = dev.inodes /\ u.removed = dev.removed
        /\ key \notin DOMAIN u.cache
    BY <1>5, UncachedGives
  <2> HIDE DEF u
  <2>3. /\ g.inodes = u.inodes /\ g.removed = u.removed \cup {x} /\ g.cache = u.cache
        /\ \A b \in Blocks : g.image[b] = IF b \in R THEN EmptyImage ELSE u.image[b]
        /\ \A i \in Inums \ (u.removed \cup {x}) : \A b \in R : ~ Holds(u.inodes[i], b)
    <3>1. FreeWays(g, u, x, BlocksOf(u.inodes[x]))
      BY <2>1, <2>2, FreeInodeGives
    <3>2. BlocksOf(u.inodes[x]) = R
      BY <2>2
    <3>3. ~ g.misfreed
      BY <1>8
    <3> HIDE DEF R
    <3> QED
      BY <3>1, <3>2, <3>3 DEF FreeWays
  <2> HIDE DEF R
  <2>4. /\ mid \in Devices /\ mid.image = w.dev.image /\ mid.free = w.dev.free /\ mid.removed = dev.removed
        /\ mid.inodes[p] = w.node /\ \A i \in Inums : i # p => mid.inodes[i] = dev.inodes[i]
    BY <1>2, <1>5 DEF Devices
  <2> HIDE DEF mid
  <2>5. Edges(mid) = less /\ Live(mid) = Live(dev)
    <3>1. \A i \in Inums \ {p} : SameBlocks(mid.inodes[i], dev.inodes[i])
      BY <2>4 DEF SameBlocks
    <3> QED
      BY <1>12, <2>4, <3>1
  <2>6. \A i \in Inums : d.inodes[i] = mid.inodes[i]
    <3>1. \A i \in Inums : i # p => d.inodes[i] = dev.inodes[i]
      <4>1. g.inodes = dev.inodes
        BY <2>2, <2>3
      <4> QED
        BY <1>8, <4>1
    <3>2. d.inodes[p] = mid.inodes[p]
      BY <1>8, <2>4
    <3> QED
      BY <2>4, <3>1, <3>2
  <2>7. d.removed = dev.removed \cup {x}
    BY <1>8, <2>2, <2>3
  <2>8. ASSUME NEW k \in Live(dev) \ {x}
        PROVE  Images(d, d.inodes[k]) = Images(mid, mid.inodes[k])
    <3>1. k \in Inums \ (u.removed \cup {x})
      BY <2>2 DEF Live
    <3>2. \A b \in R : ~ Holds(mid.inodes[k], b)
      <4>1. \A b \in R : ~ Holds(dev.inodes[k], b)
        BY <2>2, <2>3, <3>1
      <4>2. \A b : Holds(w.node, b) => Holds(dev.inodes[p], b)
        BY <1>3 DEF RemoveTypes, old
      <4> QED
        BY <2>4, <3>1, <4>1, <4>2
    <3>3. \A b \in Blocks : Holds(mid.inodes[k], b) => d.image[b] = mid.image[b]
      <4> SUFFICES ASSUME NEW b \in Blocks, Holds(mid.inodes[k], b)
                   PROVE  d.image[b] = mid.image[b]
        OBVIOUS
      <4>1. b \notin R
        BY <3>2
      <4>2. d.image[b] = u.image[b]
        BY <1>8, <2>3, <4>1
      <4> QED
        BY <2>2, <2>4, <4>2
    <3> DEFINE node == mid.inodes[k]
    <3>4. node \in InodeSet /\ d.inodes[k] = node
      BY <2>4, <2>6, <3>1 DEF Devices
    <3>5. \A b \in Blocks : Holds(node, b) => d.image[b] = mid.image[b]
      BY <3>3
    <3> HIDE DEF node
    <3>6. SameBlocks(node, node)
      BY DEF SameBlocks
    <3>7. Images(d, node) = Images(mid, node)
      BY <1>8, <2>4, <3>4, <3>5, <3>6, SameImages
    <3> QED
      BY <3>4, <3>7 DEF node
  <2>9. Live(d) = Live(dev) \ {x}
    <3>1. \A i \in Inums : d.inodes[i].kind = dev.inodes[i].kind
      BY <1>2, <1>5, <2>4, <2>6 DEF old
    <3> QED
      BY <2>7, <3>1 DEF Live
  <2>10. ASSUME NEW k, NEW nm, NEW i
         PROVE  <<k, nm, i>> \in Edges(d) <=> <<k, nm, i>> \in Edges(mid)
    <3>1. CASE k = x
      <4>1. <<k, nm, i>> \notin Edges(d)
        BY <2>9, <3>1, EdgesIff
      <4> DEFINE e == <<k, nm, i>>
      <4>2. e[1] = x
        BY <3>1
      <4>3. e \notin Edges(mid)
        <5> HIDE DEF e
        <5> QED
          BY <2>5, <4>2 DEF less
      <4> QED
        BY <4>1, <4>3
    <3>2. CASE k # x
      <4>1. k \in Live(d) <=> k \in Live(mid)
        BY <2>5, <2>9, <3>2
      <4>2. k \in Live(d) => Images(d, d.inodes[k]) = Images(mid, mid.inodes[k]) /\ d.inodes[k].num_blocks = mid.inodes[k].num_blocks
        BY <2>6, <2>8, <2>9 DEF Live
      <4> QED
        BY <4>1, <4>2, EdgesIff
    <3> QED
      BY <3>1, <3>2
  <2>11. Edges(d) = less
    <3>1. Edges(d) = Edges(mid)
      BY <2>10, SameEdges
    <3> QED
      BY <2>5, <3>1
  <2>12. dev.inodes[x].kind # "none"
    BY <1>11, <1>14
  <2>13. \A i \in Inums : d.inodes[i].kind = dev.inodes[i].kind /\ d.inodes[i].links = dev.inodes[i].links
    BY <1>2, <1>4, <1>5, <2>4, <2>6 DEF old
  <2>14. key \notin DOMAIN d.cache
    BY <1>8, <2>2, <2>3
  <2> QED
    BY <1>8, <1>9, <2>7, <2>11, <2>12, <2>13, <2>14 DEF Shrinks, less, name, key
<1> QED
  BY <1>13, <1>14

\* When the parent was not removed, UnlinkedDev is strayed only if it was.
LEMMA UnlinkedStrayed ==
    ASSUME NEW dev \in Devices, NEW x \in Inums, NEW p \in Inums, NEW key, NEW w, RemoveTypes(w, dev, dev.inodes[p]),
           NEW d, d = UnlinkedDev(dev, x, p, w, key), ~ d.strayed
    PROVE  p \notin dev.removed /\ ~ dev.strayed
<1> DEFINE g == Fewer(w.dev, x, key)
           s == g.strayed \/ p \in dev.removed
           node == w.node
           e == [g EXCEPT !.inodes[p] = node, !.strayed = s]
<1>1. w.dev \in Devices /\ w.dev.strayed = dev.strayed
  BY DEF RemoveTypes, SameOtherwise
<1>2. FewerTypes(g, w.dev, x)
  BY <1>1, FewerTyped
<1> HIDE DEF g
<1>3. g \in Devices /\ g.strayed = dev.strayed
  BY <1>1, <1>2 DEF FewerTypes
<1>4. d = e
  BY DEF UnlinkedDev, g
<1> HIDE DEF s, node
<1>5. e.strayed = s
  BY <1>3 DEF Devices
<1> HIDE DEF e
<1>6. ~ s
  BY <1>4, <1>5
<1> QED
  BY <1>3, <1>6 DEF s

\* An empty directory has no edges, and what is no directory has none either.
LEMMA EmptyNoEdges ==
    ASSUME NEW dev \in Devices, Sane(dev), NEW x,
           ~ (dev.inodes[x].kind = "dir" /\ ~ IsEmptyDir(Images(dev, dev.inodes[x])))
    PROVE  \A e \in Edges(dev) : e[1] # x
<1> SUFFICES ASSUME NEW e \in Edges(dev), e[1] = x
             PROVE  FALSE
  OBVIOUS
<1> DEFINE imgs == Images(dev, dev.inodes[x])
           n == dev.inodes[x].num_blocks
<1>1. x \in Live(dev) /\ e[2] \notin {".", ".."} /\ Holding(imgs, n, e[2], e[3])
  BY EdgeParts DEF Edges
<1>2. dev.inodes[x].kind = "dir"
  BY <1>1 DEF Live
<1>3. IsEmptyDir(imgs) /\ Directory(imgs, n)
  BY <1>1, <1>2 DEF Sane
<1> HIDE DEF imgs, n
<1>4. \A q \in Listing(imgs) : q.name \in {".", ".."}
  BY <1>3, EmptyDirIff
<1>5. PICK j \in 1 .. n : \E q \in Reached(imgs[j]) : imgs[j][q].name = e[2]
  BY <1>1 DEF Holding
<1>6. DOMAIN imgs = 1 .. n
  BY <1>3 DEF Directory
<1>7. \E q \in Listing(imgs) : q.name = e[2]
  BY <1>5, <1>6 DEF Listing
<1> QED
  BY <1>1, <1>4, <1>7

\* The path stands for nothing any more on d, and nothing else in the tree of dev has changed.
ShrankFrom(d, dev, path) ==
    \E c \in Devices : \E e, x : Treed(c) /\ SameTree(c, dev) /\ Shrinks(d, c, e, path, x)

(* charm_unlink and charm_rmdir, of a name that is found for something that*)
(* has no names in it.                                                     *)
LEMMA UnlinkTreed ==
    ASSUME NEW dev, Fit(dev), Treed(dev), NEW path \in Paths, NEW r, r = Resolve(dev, path, FALSE), r.inum \in Inums,
           ~ (r.dev.inodes[r.inum].kind = "dir" /\ ~ IsEmptyDir(Images(r.dev, r.dev.inodes[r.inum]))),
           NEW u, u = Unlinked(Parent(r.dev, path), r.inum, path), ~ u.dev.strayed, ~ u.dev.misfreed
    PROVE  /\ Treed(u.dev) /\ u.dev.latest = dev.latest
           /\ IF u.ok THEN ShrankFrom(u.dev, dev, path) ELSE SameTree(u.dev, dev)
<1> DEFINE parent == Parent(r.dev, path)
           c == parent.dev
           p == parent.inum
           x == r.inum
           name == Last(path)
           front == Front(path)
           at == FindFile(Images(c, c.inodes[p]), name)
           w == RemoveEntry(c, c.inodes[p], at)
           key == Key(path, Len(path), FALSE)
<1>1. /\ path \in Seq(NameSet) /\ Len(path) > 0 /\ name \in NameSet \ {".", ".."}
      /\ front \in Seq(NameSet) /\ path = Append(front, name)
  BY PathsGive, FrontAndLast
<1>2. dev \in Devices /\ Sane(dev) /\ path \in Walks
  BY DEF Fit, Walks
<1>3. LooksUp(r, dev)
  BY <1>1, <1>2, ResolveLooksUp
<1>4. Fit(r.dev) /\ r.dev \in Devices /\ Sane(r.dev) /\ x < r.dev.latest
  BY <1>3, LookedUpFit DEF Fit
<1>5. LooksUp(parent, r.dev)
  BY <1>1, <1>4, ResolveLooksUp DEF Parent
<1>6. Fit(c) /\ c \in Devices /\ Sane(c) /\ p \in Inums \cup {NoInode}
  BY <1>4, <1>5, LookedUpFit DEF Fit
<1>7. c.image = r.dev.image /\ c.inodes = r.dev.inodes
  BY <1>4, <1>5, LooksUpSame
<1>8. front \in Walks
  <2>1. Len(path) > 1 => front \in Paths
    BY NameAssumption
  <2>2. CASE Len(path) > 1
    BY <2>1, <2>2 DEF Walks
  <2>3. CASE ~ Len(path) > 1
    <3>1. Len(front) = 0
      BY <1>1, <2>3, FrontAndLast
    <3>2. front = <<>>
      BY <1>1, <3>1
    <3> QED
      BY <3>2 DEF Walks
  <2> QED
    BY <2>2, <2>3
<1>9. parent = Resolve(r.dev, front, TRUE)
  BY DEF Parent
<1> HIDE DEF parent, name, front, x
<1>10. ASSUME ~ c.strayed
       PROVE  /\ Treed(c) /\ Tells(c, p, front, TRUE) /\ Tells(c, x, path, FALSE)
              /\ \A e \in Edges(c) : e[1] # x
              /\ SameTree(c, dev)
  <2>1. ~ r.dev.strayed
    BY <1>5, <1>10 DEF LooksUp
  <2>2. Treed(r.dev) /\ Tells(r.dev, x, path, FALSE) /\ SameTree(r.dev, dev)
    BY <1>2, <2>1, ResolveTreed DEF x
  <2>3. Treed(c) /\ SameTree(c, r.dev) /\ Tells(c, p, front, TRUE)
    BY <1>4, <1>8, <1>9, <1>10, <2>2, ResolveTreed
  <2>4. Tells(c, x, path, FALSE)
    BY <1>4, <1>6, <2>2, <2>3, SameTold DEF x
  <2>5. \A e \in Edges(r.dev) : e[1] # x
    BY <1>4, EmptyNoEdges DEF x
  <2> QED
    BY <2>2, <2>3, <2>4, <2>5 DEF SameTree
<1>11. c.latest = dev.latest
  <2>1. r.dev.latest = dev.latest
    BY <1>3, LookedUpFit
  <2> QED
    BY <1>4, <1>5, <2>1, LookedUpFit
<1>12. CASE p = NoInode \/ at.pos = -1
  <2>1. u = Failed(c)
    BY <1>12 DEF Unlinked, name, parent, x
  <2>2. Failed(c).dev = c /\ Failed(c).ok = FALSE
    BY DEF Failed
  <2>3. u.dev = c /\ u.ok = FALSE
    BY <2>1, <2>2
  <2> QED
    BY <1>10, <1>11, <2>3
<1>13. CASE p # NoInode /\ at.pos # -1
  <2>1. p \in Inums
    BY <1>6, <1>13
  <2>2. key = <<path, FALSE>>
    <3>1. SubSeq(path, 1, Len(path)) = path
      BY <1>1, PrefixFacts
    <3> QED
      <4>1. (FALSE \/ Len(path) < Len(path)) = FALSE
        BY <1>1
      <4> QED
        BY <3>1, <4>1 DEF Key
  <2>3. IsFound(Images(c, c.inodes[p]), name, at) /\ u.dev = UnlinkedDev(c, x, p, w, key) /\ u.ok = TRUE
    BY <1>6, <1>13, <2>1, UnlinkedGives DEF name, parent, x
  <2> HIDE DEF key
  <2>4. p \notin c.removed /\ ~ c.strayed
    <3>1. RemoveTypes(w, c, c.inodes[p])
      BY <1>6, <2>1, <2>3, RemovalTyped DEF Devices
    <3> DEFINE d == u.dev
    <3>2. x \in Inums /\ d = UnlinkedDev(c, x, p, w, key) /\ ~ d.strayed
      BY <2>3 DEF x
    <3> HIDE DEF w, d, c, p
    <3> QED
      BY <1>6, <2>1, <3>1, <3>2, UnlinkedStrayed
  <2>5. /\ Treed(c) /\ Tells(c, p, front, TRUE) /\ Tells(c, x, path, FALSE)
        /\ \A e \in Edges(c) : e[1] # x
        /\ SameTree(c, dev)
    BY <1>10, <2>4
  <2> DEFINE imgs == Images(c, c.inodes[p])
             y == imgs[at.block][at.pos].inum
  <2>6. p \in Live(c) /\ y \in Inums /\ <<p, name, y>> \in Edges(c)
    BY <1>1, <1>6, <1>13, <2>1, <2>4, FoundEdge
  <2> HIDE DEF y
  <2>7. Denotes(Edges(c), front, p)
    <3>1. c.inodes[p].kind # "none"
      BY <2>6 DEF Live
    <3> QED
      BY <1>13, <2>4, <2>5, <3>1 DEF Tells
  <2>8. Denotes(Edges(c), path, y)
    <3>1. Edges(c) \in SUBSET EdgeSet
      BY DEF Edges
    <3> QED
      BY <1>1, <2>6, <2>7, <3>1, OneFurther
  <2>9. y = x /\ x \notin c.removed
    <3>1. x # NoInode
      BY NoInodeNot DEF x
    <3> QED
      BY <2>5, <2>8, <3>1 DEF Tells
  <2>10. u.dev \in Devices /\ Shrinks(u.dev, c, p, path, x)
    <3>1. x \in Inums \ c.removed /\ Counted(c)
      BY <2>5, <2>9 DEF x, Treed
    <3> DEFINE d == u.dev
    <3>2. d = UnlinkedDev(c, x, p, w, <<path, FALSE>>) /\ ~ d.misfreed
      BY <2>2, <2>3
    <3>3. <<p, Last(path), x>> \in Edges(c) /\ Denotes(Edges(c), Front(path), p)
      BY <2>6, <2>7, <2>9 DEF name, front
    <3>4. IsFound(Images(c, c.inodes[p]), Last(path), at) /\ w = RemoveEntry(c, c.inodes[p], at)
      BY <2>3 DEF name
    <3> HIDE DEF w, d, at
    <3> QED
      <4>1. d \in Devices /\ Shrinks(d, c, p, path, x)
        BY <1>1, <1>6, <2>5, <2>6, <3>1, <3>2, <3>3, <3>4, UnlinkedShrinks
      <4> QED
        BY <4>1 DEF d
  <2>11. Treed(u.dev)
    BY <1>6, <2>5, <2>10, TreeShrinks
  <2>12. ShrankFrom(u.dev, dev, path)
    BY <1>6, <2>5, <2>10 DEF ShrankFrom
  <2>13. u.dev.latest = c.latest
    <3>1. RemoveTypes(w, c, c.inodes[p])
      BY <1>6, <2>1, <2>3, RemovalTyped DEF Devices
    <3> HIDE DEF w, c, p
    <3>2. w.dev \in Devices /\ w.dev.latest = c.latest /\ x \in Inums
      BY <3>1 DEF RemoveTypes, SameOtherwise, x
    <3> DEFINE g == Fewer(w.dev, x, key)
    <3>3. g \in Devices /\ g.latest = c.latest
      <4>1. FewerTypes(g, w.dev, x)
        BY <3>2, FewerTyped
      <4> HIDE DEF g
      <4> QED
        BY <3>2, <4>1 DEF FewerTypes
    <3>4. u.dev = [g EXCEPT !.inodes[p] = w.node, !.strayed = @ \/ p \in c.removed]
      BY <2>3 DEF UnlinkedDev
    <3> HIDE DEF g
    <3> QED
      BY <3>3, <3>4 DEF Devices
  <2> QED
    BY <1>11, <2>3, <2>11, <2>12, <2>13
<1> QED
  BY <1>12, <1>13

-----------------------------------------------------------------------------
(* Walks through the records                                               *)

\* What a walk may be at.
Places == Inums \cup {NoInode}

\* The walk goes to an inode, or it is nowhere.
LEMMA BelowType ==
    ASSUME NEW dev \in Devices, NEW i \in Places, NEW name
    PROVE  Below(dev, i, name) \in Places
<1> DEFINE imgs == Images(dev, dev.inodes[i])
           there == IF i = NoInode THEN {} ELSE {r \in Listing(imgs) : r.name = name}
<1>1. Below(dev, i, name) = IF there = {} THEN NoInode ELSE (CHOOSE r \in there : TRUE).inum
  BY DEF Below
<1>2. CASE there = {}
  BY <1>1, <1>2 DEF Places
<1>3. CASE there # {}
  <2>1. PICK r : r \in there /\ Below(dev, i, name) = r.inum
    BY <1>1, <1>3
  <2>2. i \in Inums /\ r \in Listing(imgs)
    BY <2>1 DEF Places
  <2>3. imgs \in [1 .. dev.inodes[i].num_blocks -> BlockImages]
    BY <2>2, ImagesFacts DEF Devices
  <2>4. PICK k \in DOMAIN imgs : r \in {imgs[k][q] : q \in Reached(imgs[k])}
    BY <2>2 DEF Listing
  <2>5. PICK q \in Reached(imgs[k]) : r = imgs[k][q]
    BY <2>4
  <2>6. imgs[k] \in BlockImages
    BY <2>3, <2>4
  <2>7. imgs[k][q].inum \in Inums
    BY <2>5, <2>6, ReachedFacts
  <2> QED
    BY <2>1, <2>5, <2>7 DEF Places
<1> QED
  BY <1>2, <1>3

(* One name further the walk is where the edge of that name leads.         *)
LEMMA BelowEdge ==
    ASSUME NEW dev \in Devices, Sane(dev), NEW i \in Inums \ dev.removed, NEW name \in NameSet \ {".", ".."},
           NEW j
    PROVE  <<i, name, j>> \in Edges(dev) <=> j = Below(dev, i, name) /\ j # NoInode
<1> DEFINE node == dev.inodes[i]
           n == node.num_blocks
           imgs == Images(dev, node)
           there == {r \in Listing(imgs) : r.name = name}
           b == Below(dev, i, name)
<1>1. i # NoInode /\ node \in InodeSet
  BY NoInodeNot DEF Devices
<1>2. b = IF there = {} THEN NoInode ELSE (CHOOSE r \in there : TRUE).inum
  BY <1>1 DEF Below
<1>3. imgs \in [1 .. n -> BlockImages]
  BY <1>1, ImagesFacts
<1> HIDE DEF imgs, b
<1>4. ASSUME NEW r \in there
      PROVE  r.inum \in Inums /\ Holding(imgs, n, name, r.inum) /\ n # 0
  <2>1. PICK k \in 1 .. n : r \in {imgs[k][q] : q \in Reached(imgs[k])}
    BY <1>3 DEF Listing
  <2>2. PICK q \in Reached(imgs[k]) : r = imgs[k][q]
    BY <2>1
  <2>3. r.inum \in Inums
    BY <1>3, <2>1, <2>2, ReachedFacts
  <2> QED
    BY <2>2, <2>3 DEF Holding
<1>5. ASSUME NEW l, Holding(imgs, n, name, l)
      PROVE  \E r \in there : r.inum = l
  <2>1. PICK k \in 1 .. n : \E q \in Reached(imgs[k]) : imgs[k][q].name = name /\ imgs[k][q].inum = l
    BY <1>5 DEF Holding
  <2> QED
    BY <1>3, <2>1 DEF Listing
<1> HIDE DEF there
<1>6. ASSUME <<i, name, j>> \in Edges(dev)
      PROVE  j = b /\ j # NoInode
  <2>1. i \in Live(dev) /\ j \in Inums /\ Holding(imgs, n, name, j)
    BY <1>6, EdgesIff DEF imgs
  <2>2. there # {}
    BY <1>5, <2>1
  <2>3. PICK r \in there : b = r.inum
    BY <1>2, <2>2
  <2>4. b \in Inums /\ Holding(imgs, n, name, b)
    BY <1>4, <2>3
  <2>5. <<i, name, b>> \in Edges(dev)
    BY <2>1, <2>4, EdgesIff DEF imgs
  <2> DEFINE e == <<i, name, j>>
             g == <<i, name, b>>
  <2>6. e \in Edges(dev) /\ g \in Edges(dev) /\ e[1] = g[1] /\ e[2] = g[2] /\ e[3] = j /\ g[3] = b
    BY <1>6, <2>5
  <2> HIDE DEF e, g
  <2>7. e = g
    BY <2>6, EdgesNamed
  <2> QED
    BY <2>1, <2>6, <2>7, NoInodeNot
<1>7. ASSUME j = b, j # NoInode
      PROVE  <<i, name, j>> \in Edges(dev)
  <2>1. there # {}
    BY <1>2, <1>7
  <2>2. PICK r \in there : b = r.inum
    BY <1>2, <2>1
  <2>3. b \in Inums /\ Holding(imgs, n, name, b) /\ n # 0
    BY <1>4, <2>2
  <2>4. node.kind = "dir"
    BY <1>1, <2>3, InodeFacts
  <2>5. i \in Live(dev)
    BY <2>4 DEF Live
  <2> QED
    BY <1>7, <2>3, <2>5, EdgesIff DEF imgs
<1> QED
  BY <1>6, <1>7 DEF b

(* The recursion of Walk, unrolled.                                        *)
LEMMA WalkSteps ==
    ASSUME NEW dev \in Devices, NEW path \in Seq(NameSet)
    PROVE  \E at : /\ Walk(dev, path) = at[Len(path)]
                   /\ \A n \in 0 .. Len(path) : at[n] \in Places
                   /\ at[0] = ROOT_INODE
                   /\ \A n \in 1 .. Len(path) : at[n] = Below(dev, at[n - 1], path[n])
<1> DEFINE N == Len(path)
           G == [y \in Places \X (1 .. N) |-> Below(dev, y[1], path[y[2]])]
           Is(f) == f = [n \in 0 .. N |-> IF n = 0 THEN ROOT_INODE ELSE Below(dev, f[n - 1], path[n])]
           at == CHOOSE f : Is(f)
<1>1. N \in Nat
  OBVIOUS
<1>2. G \in [Places \X (1 .. N) -> Places]
  <2>1. ASSUME NEW y \in Places \X (1 .. N)
        PROVE  Below(dev, y[1], path[y[2]]) \in Places
    <3>1. y[1] \in Places
      OBVIOUS
    <3> QED
      BY <3>1, BelowType
  <2> QED
    BY <2>1
<1>3. ROOT_INODE \in Places
  BY InodeCount DEF Places
<1>4. PICK f : f \in [0 .. N -> Places] /\ f[0] = ROOT_INODE /\ \A i \in 1 .. N : f[i] = G[<<f[i - 1], i>>]
  <2> HIDE DEF N, G
  <2>1. \E f : StepsOf(f, Places, N, G, ROOT_INODE)
    BY <1>1, <1>2, <1>3, Stepwise
  <2> QED
    BY <2>1 DEF StepsOf
<1>5. \A i \in 1 .. N : f[i] = Below(dev, f[i - 1], path[i])
  <2> SUFFICES ASSUME NEW i \in 1 .. N
               PROVE  f[i] = Below(dev, f[i - 1], path[i])
    OBVIOUS
  <2>1. i - 1 \in 0 .. N
    BY <1>1
  <2>2. <<f[i - 1], i>> \in Places \X (1 .. N)
    BY <1>4, <2>1
  <2> HIDE DEF N
  <2> QED
    BY <1>4, <2>2
<1>6. Is(f)
  <2>1. f = [n \in 0 .. N |-> f[n]]
    <3> HIDE DEF N
    <3> QED
      BY <1>4
  <2>2. ASSUME NEW n \in 0 .. N
        PROVE  f[n] = IF n = 0 THEN ROOT_INODE ELSE Below(dev, f[n - 1], path[n])
    <3>1. n = 0 \/ n \in 1 .. N
      BY <1>1
    <3> HIDE DEF N, G
    <3> QED
      BY <1>4, <1>5, <3>1
  <2> HIDE DEF N
  <2> QED
    BY <2>1, <2>2
<1>7. Is(at)
  <2> HIDE DEF Is
  <2> QED
    BY <1>6
<1>8. Walk(dev, path) = at[N]
  BY DEF Walk
<1> HIDE DEF at
<1>9. at[0] = ROOT_INODE /\ \A n \in 1 .. N : at[n] = Below(dev, at[n - 1], path[n])
  <2>1. at = [n \in 0 .. N |-> IF n = 0 THEN ROOT_INODE ELSE Below(dev, at[n - 1], path[n])]
    BY <1>7
  <2> HIDE DEF N, Is
  <2> QED
    BY <1>1, <2>1
<1> DEFINE S == {n \in 0 .. N : at[n] \in Places}
<1>10. 0 \in S
  BY <1>1, <1>3, <1>9
<1>11. ASSUME NEW n \in 1 .. N, n - 1 \in S
       PROVE  n \in S
  <2>1. n \in 0 .. N /\ at[n - 1] \in Places
    BY <1>1, <1>11
  <2>2. Below(dev, at[n - 1], path[n]) \in Places
    BY <2>1, BelowType
  <2> QED
    BY <1>9, <2>1, <2>2
<1>12. \A n \in 0 .. N : n \in S
  <2> HIDE DEF S, N
  <2> QED
    BY <1>1, <1>10, <1>11, RangeInduction
<1> QED
  BY <1>8, <1>9, <1>12

(* In a tree, a walk goes where the edges lead.                            *)
LEMMA WalkGives ==
    ASSUME NEW dev \in Devices, Sane(dev), Counted(dev), NamesOnce(dev), NEW path \in Walks
    PROVE  /\ Walk(dev, path) \in Places
           /\ \A j : Denotes(Edges(dev), path, j) <=> j = Walk(dev, path) /\ j # NoInode
<1>1. path \in Seq(NameSet) /\ Len(path) \in Nat /\ \A n \in 1 .. Len(path) : path[n] \in NameSet \ {".", ".."}
  <2>1. CASE path = <<>>
    <3>1. <<>> \in Seq(NameSet) /\ Len(<<>>) = 0
      OBVIOUS
    <3> QED
      BY <2>1, <3>1
  <2>2. CASE path \in Paths
    BY <2>2, PathOfNames
  <2> QED
    BY <2>1, <2>2 DEF Walks
<1>2. PICK at : /\ Walk(dev, path) = at[Len(path)]
                /\ \A n \in 0 .. Len(path) : at[n] \in Places
                /\ at[0] = ROOT_INODE
                /\ \A n \in 1 .. Len(path) : at[n] = Below(dev, at[n - 1], path[n])
  BY <1>1, WalkSteps
<1>3. Edges(dev) \in SUBSET EdgeSet
  BY DEF Edges
<1> DEFINE N == Len(path)
           E == Edges(dev)
           cut(n) == SubSeq(path, 1, n)
           Right(n) == /\ at[n] # NoInode => at[n] \notin dev.removed
                       /\ \A j : Denotes(E, cut(n), j) <=> j = at[n] /\ j # NoInode
           S == {n \in 0 .. N : Right(n)}
<1>4. 0 \in S
  <2>1. cut(0) = <<>> /\ 0 \in 0 .. N
    BY <1>1, PrefixFacts
  <2>2. ROOT_INODE # NoInode /\ ROOT_INODE \notin dev.removed
    BY InodeCount, NoInodeNot DEF Counted
  <2>3. \A j : Denotes(E, <<>>, j) <=> j = ROOT_INODE
    BY RootDenoted
  <2> HIDE DEF cut, E, N
  <2>4. Right(0)
    BY <1>2, <2>1, <2>2, <2>3
  <2> QED
    BY <2>1, <2>4
<1>5. ASSUME NEW n \in 1 .. N, n - 1 \in S
      PROVE  n \in S
  <2>1. n \in 0 .. N /\ n - 1 \in 0 .. N /\ n > 0
    BY <1>1
  <2>2. /\ cut(n) \in Seq(NameSet) /\ Len(cut(n)) > 0 /\ Front(cut(n)) = cut(n - 1) /\ Last(cut(n)) = path[n]
        /\ cut(n - 1) \in Seq(NameSet) /\ path[n] \in NameSet \ {".", ".."}
    BY <1>1, <2>1, PrefixFacts
  <2>3. cut(n) = Append(cut(n - 1), path[n])
    BY <2>2, FrontAndLast
  <2>4. Right(n - 1)
    BY <1>5
  <2> DEFINE i == at[n - 1]
             name == path[n]
             short == cut(n - 1)
             long == cut(n)
  <2>5. i \in Places /\ at[n] \in Places /\ at[n] = Below(dev, i, name)
    BY <1>2, <2>1
  <2>6. /\ i # NoInode => i \notin dev.removed
        /\ \A j : Denotes(E, short, j) <=> j = i /\ j # NoInode
    BY <2>4
  <2>7. /\ long \in Seq(NameSet) /\ Len(long) > 0 /\ Front(long) = short /\ Last(long) = name
        /\ short \in Seq(NameSet) /\ long = Append(short, name) /\ name \in NameSet \ {".", ".."}
    BY <2>2, <2>3
  <2>8. E \in SUBSET EdgeSet
    BY <1>3
  <2> HIDE DEF Right, cut, S, N, i, name, short, long
  <2>9. CASE i = NoInode
    <3>1. at[n] = NoInode
      BY <2>5, <2>9 DEF Below
    <3>2. ASSUME NEW j, Denotes(E, long, j)
          PROVE  FALSE
      <4>1. \E k \in Inums : Denotes(E, short, k)
        BY <2>7, <2>8, <3>2, OneBefore
      <4> QED
        BY <2>6, <2>9, <4>1
    <3>3. Right(n)
      BY <3>1, <3>2 DEF Right, long
    <3> QED
      BY <2>1, <3>3 DEF S
  <2>10. CASE i # NoInode
    <3>1. i \in Inums \ dev.removed
      BY <2>5, <2>6, <2>10 DEF Places
    <3>2. \A j : <<i, name, j>> \in E <=> j = at[n] /\ j # NoInode
      BY <2>5, <2>7, <3>1, BelowEdge
    <3>3. ASSUME NEW j, Denotes(E, long, j)
          PROVE  j = at[n] /\ j # NoInode
      <4>1. PICK k \in Inums : Denotes(E, short, k) /\ <<k, name, j>> \in E
        BY <2>7, <2>8, <3>3, OneBefore
      <4>2. k = i
        BY <2>6, <4>1
      <4> QED
        BY <3>2, <4>1, <4>2
    <3>4. ASSUME NEW j, j = at[n], j # NoInode
          PROVE  Denotes(E, long, j)
      <4>1. Denotes(E, short, i)
        BY <2>6, <2>10
      <4>2. <<i, name, j>> \in E
        BY <3>2, <3>4
      <4> QED
        BY <2>7, <2>8, <4>1, <4>2, OneFurther
    <3>5. ASSUME at[n] # NoInode
          PROVE  at[n] \notin dev.removed
      <4> DEFINE e == <<i, name, at[n]>>
      <4>1. e \in E /\ e[3] = at[n]
        BY <3>2, <3>5
      <4> HIDE DEF e
      <4> QED
        BY <4>1 DEF NamesOnce
    <3>6. Right(n)
      BY <3>3, <3>4, <3>5 DEF Right, long
    <3> QED
      BY <2>1, <3>6 DEF S
  <2> QED
    BY <2>9, <2>10
<1>6. \A n \in 0 .. N : n \in S
  <2> HIDE DEF S, N
  <2> QED
    BY <1>1, <1>4, <1>5, RangeInduction DEF N
<1>7. Right(N)
  BY <1>1, <1>6
<1>8. cut(N) = path /\ N \in 0 .. N
  BY <1>1, PrefixFacts
<1> HIDE DEF cut, E
<1> QED
  BY <1>2, <1>7, <1>8 DEF E

-----------------------------------------------------------------------------
(* The tree is part of the inductive invariant                             *)

\* make_fs leaves an empty tree.
LEMMA FormattedTree ==
    ASSUME NEW b \in Blocks, NEW f, f = [ok |-> TRUE, dev |-> Formatted(b), inum |-> ROOT_INODE]
    PROVE  /\ Made(f) /\ Sane(f.dev) /\ f.dev.pick # <<>> /\ f.dev.removed = {} /\ DOMAIN f.dev.cache = {}
           /\ \A i \in Inums : f.dev.inodes[i].kind = "none" /\ f.dev.inodes[i].links < 1
           /\ Edges(f.dev) = {} /\ ~ f.dev.misfreed /\ ~ f.dev.strayed /\ f.ok = TRUE /\ f.inum = ROOT_INODE
<1> DEFINE dev == Formatted(b)
           none == [k \in {} |-> ROOT_INODE]
           inodesNow == [i \in Inums |-> BlankInode]
<1>1. Made(f)
  BY FormattedMade
<1>2. f.dev = dev /\ f.ok = TRUE /\ f.inum = ROOT_INODE
  OBVIOUS
<1>3. /\ dev.pick = <<b>> /\ dev.removed = {} /\ dev.cache = none /\ dev.inodes = inodesNow
      /\ dev.misfreed = FALSE /\ dev.strayed = FALSE
  BY DEF Formatted
<1>4. DOMAIN none = {} /\ <<b>> # <<>>
  OBVIOUS
<1>5. BlankInode.kind = "none" /\ BlankInode.links < 1
  BY DEF BlankInode
<1> HIDE DEF dev, none
<1>6. \A i \in Inums : dev.inodes[i].kind = "none" /\ dev.inodes[i].links < 1
  BY <1>3, <1>5
<1>7. Live(dev) = {}
  BY <1>6 DEF Live
<1>8. Edges(dev) = {}
  BY <1>7 DEF Edges
<1>9. Sane(dev)
  <2>1. Whole(f.dev)
    BY <1>1 DEF Made
  <2> QED
    BY <1>2, <1>3, <2>1 DEF Whole
<1> QED
  BY <1>1, <1>2, <1>3, <1>4, <1>6, <1>8, <1>9

\* init_file_layer leaves a root without names in it.
LEMMA RootMade ==
    ASSUME NEW b \in Blocks, NEW made, made = NewDir([ok |-> TRUE, dev |-> Formatted(b), inum |-> ROOT_INODE]).dev
    PROVE  Treed(made) /\ Edges(made) = {} /\ made.latest = ROOT_INODE + 1 /\ ~ made.misfreed /\ ~ made.strayed
<1> DEFINE f == [ok |-> TRUE, dev |-> Formatted(b), inum |-> ROOT_INODE]
           r == NewDir(f)
           d == r.dev
<1>1. /\ Made(f) /\ Sane(f.dev) /\ f.dev.pick # <<>> /\ f.dev.removed = {} /\ DOMAIN f.dev.cache = {}
      /\ \A i \in Inums : f.dev.inodes[i].kind = "none" /\ f.dev.inodes[i].links < 1
      /\ Edges(f.dev) = {} /\ f.ok = TRUE /\ f.inum = ROOT_INODE /\ ~ f.dev.misfreed /\ ~ f.dev.strayed
  BY FormattedTree
<1>2. f.dev.latest = ROOT_INODE + 1
  BY DEF Formatted
<1>3. made = d
  OBVIOUS
<1> HIDE DEF f
<1>4. /\ r.ok => Writes(r.dev, f.dev, f.inum, "dir")
      /\ ~ r.ok => f.dev.pick = <<>>
      /\ d.strayed = f.dev.strayed /\ d.misfreed = f.dev.misfreed
  BY <1>1, DirectoryTree
<1>5. Writes(d, f.dev, ROOT_INODE, "dir")
  BY <1>1, <1>4
<1> HIDE DEF d
<1>6. /\ d \in Devices /\ Edges(d) = {} /\ d.removed = {} /\ DOMAIN d.cache = {}
      /\ d.inodes[ROOT_INODE].kind = "dir" /\ d.inodes[ROOT_INODE].links = 1
      /\ \A i \in Inums : i # ROOT_INODE => d.inodes[i].kind = "none" /\ d.inodes[i].links < 1
  BY <1>1, <1>5 DEF Writes
<1>7. Counted(d)
  BY <1>6 DEF Counted
<1>8. NamesOnce(d)
  BY <1>6 DEF NamesOnce, Forest
<1>9. AllTell(d, d.cache)
  BY <1>6 DEF AllTell
<1>10. d.latest = ROOT_INODE + 1
  BY <1>5, <1>2 DEF Writes
<1> QED
  BY <1>1, <1>3, <1>4, <1>6, <1>7, <1>8, <1>9, <1>10 DEF Treed

\* t says of every path what it stands for on dev.
Shown(dev, t) ==
    /\ t \in [Paths -> [num : Inums \cup {0}, kind : {"none", "file", "dir"}]]
    /\ \A p \in Paths : /\ \A j : Denotes(Edges(dev), p, j) => t[p] = [num |-> j, kind |-> dev.inodes[j].kind]
                        /\ (\A j : ~ Denotes(Edges(dev), p, j)) => t[p] = Absent

\* The inductive invariant, with the tree.
TreeInv ==
    /\ NamesInv
    /\ Sound => Treed(Device(<<>>)) /\ Shown(Device(<<>>), tree)

\* What a path stands for is a number or nothing.
LEMMA PlaceType ==
    ASSUME NEW dev \in Devices, NEW j \in Inums
    PROVE  [num |-> j, kind |-> dev.inodes[j].kind] \in [num : Inums \cup {0}, kind : {"none", "file", "dir"}]
<1>1. dev.inodes[j].kind \in {"none", "file", "dir"}
  <2>1. dev.inodes[j] \in InodeSet
    BY DEF Devices
  <2> QED
    BY <2>1, InodeFacts
<1> QED
  BY <1>1

\* Nothing is a number and a kind, too.
LEMMA AbsentType == Absent \in [num : Inums \cup {0}, kind : {"none", "file", "dir"}]
  BY DEF Absent

\* The history shows the tree.
LEMMA TreeShown ==
    ASSUME NEW dev \in Devices, Sane(dev), Treed(dev)
    PROVE  Shown(dev, TreeOf(dev))
<1> DEFINE t == TreeOf(dev)
           V == [num : Inums \cup {0}, kind : {"none", "file", "dir"}]
<1>1. \A p \in Paths : /\ Walk(dev, p) \in Places
                       /\ \A j : Denotes(Edges(dev), p, j) <=> j = Walk(dev, p) /\ j # NoInode
  BY WalkGives DEF Treed, Walks
<1>2. t = [p \in Paths |-> IF Walk(dev, p) = NoInode THEN Absent
                           ELSE [num |-> Walk(dev, p), kind |-> dev.inodes[Walk(dev, p)].kind]]
  BY DEF TreeOf
<1> HIDE DEF t, V
<1>3. \A p \in Paths : t[p] = IF Walk(dev, p) = NoInode THEN Absent
                              ELSE [num |-> Walk(dev, p), kind |-> dev.inodes[Walk(dev, p)].kind]
  BY <1>2
<1>4. ASSUME NEW p \in Paths
      PROVE  t[p] \in V
  <2>1. CASE Walk(dev, p) = NoInode
    BY <1>3, <2>1, AbsentType DEF V
  <2>2. CASE Walk(dev, p) # NoInode
    <3>1. Walk(dev, p) \in Inums
      BY <1>1, <2>2 DEF Places
    <3>2. [num |-> Walk(dev, p), kind |-> dev.inodes[Walk(dev, p)].kind] \in V
      BY <3>1, PlaceType DEF V
    <3> QED
      BY <1>3, <2>2, <3>2
  <2> QED
    BY <2>1, <2>2
<1>5. t \in [Paths -> V]
  <2>1. t = [p \in Paths |-> t[p]]
    BY <1>2
  <2> QED
    BY <1>4, <2>1
<1>6. ASSUME NEW p \in Paths
      PROVE  /\ \A j : Denotes(Edges(dev), p, j) => t[p] = [num |-> j, kind |-> dev.inodes[j].kind]
             /\ (\A j : ~ Denotes(Edges(dev), p, j)) => t[p] = Absent
  BY <1>1, <1>3
<1> QED
  BY <1>5, <1>6 DEF Shown, t, V

\* It shows the same tree as well.
LEMMA SameShown ==
    ASSUME NEW dev \in Devices, NEW dev2 \in Devices, SameTree(dev2, dev), NEW t, Shown(dev, t)
    PROVE  Shown(dev2, t)
<1>1. Edges(dev2) = Edges(dev) /\ \A i \in Inums : dev2.inodes[i].kind = dev.inodes[i].kind
  BY DEF SameTree
<1>2. ASSUME NEW p \in Paths, NEW j, Denotes(Edges(dev), p, j)
      PROVE  j \in Inums
  <2>1. PICK g : Goes(Edges(dev), p, g) /\ g[Len(p)] = j
    BY <1>2 DEF Denotes
  <2>2. Len(p) \in 0 .. Len(p)
    BY PathOfNames
  <2> QED
    BY <2>1, <2>2 DEF Goes
<1> QED
  BY <1>1, <1>2 DEF Shown

\* The blocks that will be handed out do not concern the tree.
LEMMA PickTree ==
    ASSUME NEW dev \in Devices, NEW pick \in Seq(Blocks)
    PROVE  LET d == [dev EXCEPT !.pick = pick]
           IN  /\ Treed(dev) => Treed(d)
               /\ SameTree(d, dev)
<1> DEFINE d == [dev EXCEPT !.pick = pick]
<1>1. /\ d \in Devices /\ d.image = dev.image /\ d.inodes = dev.inodes /\ d.removed = dev.removed /\ d.cache = dev.cache
  BY DEF Devices
<1> HIDE DEF d
<1>2. Live(d) = Live(dev)
  BY <1>1 DEF Live
<1>3. Edges(d) = Edges(dev)
  BY <1>1, <1>2, EdgesElsewhere DEF SameBlocks
<1>4. SameTree(d, dev)
  BY <1>1, <1>3 DEF SameTree
<1>5. ASSUME Treed(dev)
      PROVE  Treed(d)
  <2>1. AllTell(dev, d.cache)
    BY <1>1, <1>5 DEF Treed
  <2> QED
    BY <1>1, <1>4, <1>5, <2>1, SameTreed
<1> QED
  BY <1>4, <1>5 DEF d

\* A device shows one tree.
LEMMA ShownOnce ==
    ASSUME NEW dev, NEW t, NEW t2, Shown(dev, t), Shown(dev, t2)
    PROVE  t2 = t
<1> DEFINE V == [num : Inums \cup {0}, kind : {"none", "file", "dir"}]
<1>1. t \in [Paths -> V] /\ t2 \in [Paths -> V]
  BY DEF Shown
<1> HIDE DEF V
<1>2. \A p \in Paths : t2[p] = t[p]
  BY DEF Shown
<1> QED
  BY <1>1, <1>2

\* While the tree is the same, so is what is shown.
LEMMA SameEffect ==
    ASSUME NEW dev \in Devices, NEW d \in Devices, SameTree(d, dev), NEW t, Shown(dev, t), NEW t2, Shown(d, t2)
    PROVE  t2 = t
  BY SameShown, ShownOnce

\* The parent of path is the root or a directory of t.
InDirectory(t, path) == Front(path) = <<>> \/ (Front(path) \in Paths /\ t[Front(path)].kind = "dir")

\* The path did not stand for anything in t, and stands for a new object, numbered from low to high - 1, in t2.
Grown(t2, t, path, kind, low, high) ==
    /\ t[path] = Absent /\ InDirectory(t, path)
    /\ \E n \in Inums : low <= n /\ n < high /\ t2 = [t EXCEPT ![path] = [num |-> n, kind |-> kind]]

\* What a creation changes in the tree that is shown.
LEMMA GrownEffect ==
    ASSUME NEW dev \in Devices, NEW d \in Devices, NEW path \in Paths, NEW kind, GrewFrom(d, dev, path, kind),
           Numbers(d), NEW t, Shown(dev, t), NEW t2, Shown(d, t2)
    PROVE  Grown(t2, t, path, kind, dev.latest, d.latest)
<1>1. PICK c \in Devices : \E e, x : /\ Treed(c) /\ Numbers(c) /\ SameTree(c, dev) /\ c.latest = dev.latest
                                     /\ Grows(d, c, e, path, x) /\ d.inodes[x].kind = kind
  BY DEF GrewFrom
<1>2. PICK e, x : /\ Treed(c) /\ Numbers(c) /\ SameTree(c, dev) /\ c.latest = dev.latest
                  /\ Grows(d, c, e, path, x) /\ d.inodes[x].kind = kind
  BY <1>1
<1> DEFINE E == Edges(c)
           E2 == Edges(d)
           name == Last(path)
           front == Front(path)
           new == <<e, name, x>>
           V == [num : Inums \cup {0}, kind : {"none", "file", "dir"}]
<1>3. /\ e \in Live(c) /\ Denotes(E, front, e) /\ \A j : ~ Denotes(E, path, j)
      /\ x \in Inums /\ x = dev.latest /\ E2 = E \cup {new}
      /\ \A i \in Inums : i # x => d.inodes[i].kind = c.inodes[i].kind
  BY <1>2 DEF Grows
<1>4. /\ x # ROOT_INODE /\ x \notin Live(c)
      /\ \A g \in E : g[1] # x /\ g[3] # x
  BY <1>2, <1>3, NextNumber
<1>5. path \in Seq(NameSet) /\ Len(path) > 0 /\ front \in Seq(NameSet) /\ path = Append(front, name)
  BY PathsGive, FrontAndLast
<1>6. E \in SUBSET EdgeSet /\ E2 \in SUBSET EdgeSet /\ Forest(E) /\ new \in E2
  BY <1>2, <1>3 DEF Edges, Treed, NamesOnce
<1>7. new[1] = e /\ new[2] = name /\ new[3] = x
  OBVIOUS
<1>8. Shown(c, t)
  BY <1>2, SameShown
<1>9. t \in [Paths -> V] /\ t2 \in [Paths -> V]
  BY <1>8 DEF Shown
<1>10. /\ \A q \in Paths : /\ \A j : Denotes(E, q, j) => t[q] = [num |-> j, kind |-> c.inodes[j].kind]
                           /\ (\A j : ~ Denotes(E, q, j)) => t[q] = Absent
       /\ \A q \in Paths : /\ \A j : Denotes(E2, q, j) => t2[q] = [num |-> j, kind |-> d.inodes[j].kind]
                           /\ (\A j : ~ Denotes(E2, q, j)) => t2[q] = Absent
  BY <1>8 DEF Shown
<1>11. new \in EdgeSet
  BY <1>6
<1> HIDE DEF E, E2, name, front, new, V
<1>12. ASSUME NEW q \in Paths, NEW j, Denotes(E, q, j)
       PROVE  j \in Inums /\ j # x /\ Denotes(E2, q, j)
  <2>1. q \in Seq(NameSet) /\ Len(q) > 0
    BY PathsGive
  <2>2. PICK i \in Inums : Denotes(E, Front(q), i) /\ <<i, Last(q), j>> \in E
    BY <1>6, <1>12, <2>1, OneBefore
  <2> DEFINE g == <<i, Last(q), j>>
  <2>3. g \in E /\ g[3] = j
    BY <2>2
  <2>4. j \in Inums
    BY <1>6, <2>2 DEF EdgeSet
  <2> HIDE DEF g
  <2>5. j # x
    BY <1>4, <2>3
  <2>6. E \subseteq E2
    BY <1>3
  <2> QED
    BY <1>12, <2>4, <2>5, <2>6, MoreDenoted
<1>13. ASSUME NEW q \in Paths, NEW j, Denotes(E2, q, j)
       PROVE  Denotes(E, q, j) \/ (j = x /\ q = path)
  <2>1. q \in Seq(NameSet) /\ Front(q) \in Seq(NameSet) /\ Len(q) > 0 /\ q = Append(Front(q), Last(q))
    BY PathsGive, FrontAndLast
  <2>2. e # x
    BY <1>3, <1>4
  <2>3. Denotes(E \cup {<<e, name, x>>}, q, j) /\ <<e, name, x>> \in EdgeSet
    BY <1>3, <1>11, <1>13 DEF new
  <2>4. \/ j # x /\ Denotes(E, q, j)
        \/ j = x /\ Len(q) > 0 /\ Denotes(E, Front(q), e) /\ Last(q) = name
    <3>1. q \in Seq(NameSet) /\ E \in SUBSET EdgeSet /\ x # ROOT_INODE /\ e # x /\ \A g \in E : g[1] # x /\ g[3] # x
      BY <1>4, <1>6, <2>1, <2>2
    <3> QED
      BY <2>3, <3>1, LeafAdded
  <2>5. ASSUME Denotes(E, Front(q), e), Last(q) = name
        PROVE  q = path
    <3>1. Front(q) = front
      BY <1>3, <1>5, <1>6, <2>1, <2>5, OnePath
    <3> QED
      BY <1>5, <2>1, <2>5, <3>1
  <2> QED
    BY <2>4, <2>5
<1>14. Denotes(E2, path, x)
  <2>1. E \subseteq E2
    BY <1>3
  <2>2. Denotes(E2, front, e) /\ <<e, name, x>> \in E2
    BY <1>3, <1>6, <2>1, MoreDenoted DEF new
  <2>3. Denotes(E2, Append(front, name), x)
    BY <1>5, <1>6, <2>2, OneFurther
  <2> QED
    BY <1>5, <2>3
<1>15. t2[path] = [num |-> x, kind |-> kind]
  BY <1>2, <1>10, <1>14
<1>16. ASSUME NEW q \in Paths, q # path
       PROVE  t2[q] = t[q]
  <2>1. CASE \E j : Denotes(E, q, j)
    <3>1. PICK j : Denotes(E, q, j)
      BY <2>1
    <3>2. j \in Inums /\ j # x /\ Denotes(E2, q, j)
      BY <1>12, <3>1
    <3>3. d.inodes[j].kind = c.inodes[j].kind
      BY <1>3, <3>2
    <3>4. t[q] = [num |-> j, kind |-> c.inodes[j].kind]
      BY <1>10, <3>1
    <3>5. t2[q] = [num |-> j, kind |-> d.inodes[j].kind]
      BY <1>10, <3>2
    <3> QED
      BY <3>3, <3>4, <3>5
  <2>2. CASE \A j : ~ Denotes(E, q, j)
    <3>1. \A j : ~ Denotes(E2, q, j)
      BY <1>13, <1>16, <2>2
    <3> QED
      BY <1>10, <2>2, <3>1
  <2> QED
    BY <2>1, <2>2
<1>17. t2 = [t EXCEPT ![path] = [num |-> x, kind |-> kind]]
  <2> DEFINE v == [num |-> x, kind |-> kind]
  <2>1. t2[path] = v
    BY <1>15
  <2> HIDE DEF v
  <2>2. t2 = [t EXCEPT ![path] = v]
    BY <1>9, <1>16, <2>1
  <2> QED
    BY <2>2 DEF v
<1>18. t[path] = Absent
  BY <1>3, <1>10
<1>19. InDirectory(t, path)
  <2>1. CASE Len(path) = 1
    <3>1. Len(front) = 0
      BY <1>5, <2>1, FrontAndLast DEF front
    <3>2. front = <<>>
      BY <1>5, <3>1
    <3> QED
      BY <3>2 DEF InDirectory, front
  <2>2. CASE Len(path) > 1
    <3>1. front \in Paths
      BY <2>2, NameAssumption DEF front
    <3>2. t[front] = [num |-> e, kind |-> c.inodes[e].kind]
      BY <1>3, <1>10, <3>1
    <3>3. c.inodes[e].kind = "dir"
      BY <1>3 DEF Live
    <3> QED
      BY <3>1, <3>2, <3>3 DEF InDirectory, front
  <2> QED
    BY <1>5, <2>1, <2>2
<1>20. dev.latest <= x /\ x < d.latest
  <2>1. new \in Edges(d)
    BY <1>6 DEF E2
  <2>2. new[3] < d.latest
    BY <2>1, EdgesUnder
  <2>3. dev.latest \in Nat
    BY DEF Devices
  <2> QED
    BY <1>3, <1>7, <2>2, <2>3
<1> QED
  BY <1>3, <1>17, <1>18, <1>19, <1>20 DEF Grown

\* The path stood for something in t, which had nothing in it, and stands for nothing in t2.
Shrunk(t2, t, path) ==
    /\ t[path] # Absent
    /\ \A q \in Paths : Front(q) = path => t[q] = Absent
    /\ t2 = [t EXCEPT ![path] = Absent]

\* What a removal changes in the tree that is shown.
LEMMA ShrunkEffect ==
    ASSUME NEW dev \in Devices, NEW d \in Devices, NEW path \in Paths, ShrankFrom(d, dev, path),
           NEW t, Shown(dev, t), NEW t2, Shown(d, t2)
    PROVE  Shrunk(t2, t, path)
<1>1. PICK c \in Devices : \E e, x : Treed(c) /\ SameTree(c, dev) /\ Shrinks(d, c, e, path, x)
  BY DEF ShrankFrom
<1>2. PICK e, x : Treed(c) /\ SameTree(c, dev) /\ Shrinks(d, c, e, path, x)
  BY <1>1
<1> DEFINE E == Edges(c)
           E2 == Edges(d)
           name == Last(path)
           front == Front(path)
           old == <<e, name, x>>
           V == [num : Inums \cup {0}, kind : {"none", "file", "dir"}]
<1>3. /\ x \in Inums /\ old \in E /\ Denotes(E, front, e) /\ \A g \in E : g[1] # x
      /\ E2 = {g \in E : ~ (g[1] = e /\ g[2] = name)}
      /\ \A i \in Inums : d.inodes[i].kind = c.inodes[i].kind
  BY <1>2 DEF Shrinks
<1>4. old[1] = e /\ old[2] = name /\ old[3] = x
  OBVIOUS
<1>5. path \in Seq(NameSet) /\ Len(path) > 0 /\ front \in Seq(NameSet) /\ path = Append(front, name)
  BY PathsGive, FrontAndLast
<1>6. E \in SUBSET EdgeSet /\ E2 \in SUBSET EdgeSet /\ E2 \subseteq E /\ Forest(E)
  BY <1>2, <1>3 DEF Edges, Treed, NamesOnce
<1>7. Shown(c, t)
  BY <1>2, SameShown
<1>8. t \in [Paths -> V] /\ t2 \in [Paths -> V]
  BY <1>7 DEF Shown
<1>9. /\ \A q \in Paths : /\ \A j : Denotes(E, q, j) => t[q] = [num |-> j, kind |-> c.inodes[j].kind]
                          /\ (\A j : ~ Denotes(E, q, j)) => t[q] = Absent
      /\ \A q \in Paths : /\ \A j : Denotes(E2, q, j) => t2[q] = [num |-> j, kind |-> d.inodes[j].kind]
                          /\ (\A j : ~ Denotes(E2, q, j)) => t2[q] = Absent
  BY <1>7 DEF Shown
<1>10. Denotes(E, path, x)
  <2>1. <<e, name, x>> \in E
    BY <1>3
  <2> HIDE DEF front, E, name
  <2>2. Denotes(E, Append(front, name), x)
    BY <1>3, <1>5, <1>6, <2>1, OneFurther
  <2> QED
    BY <1>5, <2>2
<1> HIDE DEF E, E2, old, name, front, V
<1>11. \A g \in E : g \in E2 <=> g[3] # x
  BY <1>3, <1>4, <1>6 DEF Forest
<1>12. ASSUME NEW q \in Paths, NEW j, Denotes(E, q, j), j # x
       PROVE  Denotes(E2, q, j)
  <2>1. \A g \in E : g[1] # x /\ (g[3] # x => g \in E2)
    BY <1>3, <1>11
  <2>2. q \in Seq(NameSet)
    BY PathsGive
  <2> QED
    BY <1>12, <2>1, <2>2, LeafRemoved
<1>13. ASSUME NEW q \in Paths, NEW j, Denotes(E2, q, j)
       PROVE  Denotes(E, q, j) /\ j # x
  <2>1. q \in Seq(NameSet) /\ Len(q) > 0
    BY PathsGive
  <2>2. PICK i \in Inums : Denotes(E2, Front(q), i) /\ <<i, Last(q), j>> \in E2
    BY <1>6, <1>13, <2>1, OneBefore
  <2> DEFINE g == <<i, Last(q), j>>
  <2>3. g \in E2 /\ g[3] = j
    BY <2>2
  <2> HIDE DEF g
  <2>4. j # x
    BY <1>6, <1>11, <2>3
  <2> QED
    BY <1>6, <1>13, <2>4, MoreDenoted
<1>14. ASSUME NEW q \in Paths, NEW j, Denotes(E, q, j)
       PROVE  j \in Inums /\ (j = x => q = path)
  <2>1. q \in Seq(NameSet) /\ Len(q) > 0
    BY PathsGive
  <2>2. PICK i \in Inums : Denotes(E, Front(q), i) /\ <<i, Last(q), j>> \in E
    BY <1>6, <1>14, <2>1, OneBefore
  <2>3. j \in Inums
    BY <1>6, <2>2 DEF EdgeSet
  <2>4. j = x => q = path
    BY <1>5, <1>6, <1>10, <1>14, <2>1, OnePath
  <2> QED
    BY <2>3, <2>4
<1>15. t[path] # Absent
  <2>1. t[path] = [num |-> x, kind |-> c.inodes[x].kind]
    BY <1>9, <1>10
  <2>2. t[path].num = x
    BY <2>1
  <2>3. x # 0
    BY <1>3 DEF Inums, ROOT_INODE
  <2> QED
    BY <2>2, <2>3 DEF Absent
<1>16. ASSUME NEW q \in Paths, Front(q) = path
       PROVE  t[q] = Absent
  <2>1. q \in Seq(NameSet) /\ Len(q) > 0
    BY PathsGive
  <2>2. ASSUME NEW j, Denotes(E, q, j)
        PROVE  FALSE
    <3>1. PICK i \in Inums : Denotes(E, Front(q), i) /\ <<i, Last(q), j>> \in E
      BY <1>6, <2>1, <2>2, OneBefore
    <3> DEFINE g == <<i, Last(q), j>>
    <3>2. g \in E /\ g[1] = i
      BY <3>1
    <3> HIDE DEF g
    <3>3. i = x
      BY <1>5, <1>6, <1>10, <1>16, <3>1, OnePlace
    <3> QED
      BY <1>3, <3>2, <3>3
  <2> QED
    BY <1>9, <2>2
<1>17. ASSUME NEW q \in Paths, q # path
       PROVE  t2[q] = t[q]
  <2>1. CASE \E j : Denotes(E, q, j)
    <3>1. PICK j : Denotes(E, q, j)
      BY <2>1
    <3>2. j \in Inums /\ j # x /\ Denotes(E2, q, j)
      BY <1>12, <1>14, <1>17, <3>1
    <3>3. d.inodes[j].kind = c.inodes[j].kind
      BY <1>3, <3>2
    <3>4. t[q] = [num |-> j, kind |-> c.inodes[j].kind]
      BY <1>9, <3>1
    <3>5. t2[q] = [num |-> j, kind |-> d.inodes[j].kind]
      BY <1>9, <3>2
    <3> QED
      BY <3>3, <3>4, <3>5
  <2>2. CASE \A j : ~ Denotes(E, q, j)
    <3>1. \A j : ~ Denotes(E2, q, j)
      BY <1>13, <2>2
    <3> QED
      BY <1>9, <2>2, <3>1
  <2> QED
    BY <2>1, <2>2
<1>18. t2[path] = Absent
  <2>1. ASSUME NEW j, Denotes(E2, path, j)
        PROVE  FALSE
    <3>1. Denotes(E, path, j) /\ j # x
      BY <1>13, <2>1
    <3> QED
      BY <1>5, <1>6, <1>10, <3>1, OnePlace
  <2> QED
    BY <1>9, <2>1
<1>19. t2 = [t EXCEPT ![path] = Absent]
  BY <1>8, <1>17, <1>18
<1> QED
  BY <1>15, <1>16, <1>19 DEF Shrunk

\* A key that leaves the cache leaves the tree.
LEMMA UncachedTreed ==
    ASSUME NEW dev \in Devices, Treed(dev), NEW key, NEW d, d = Uncached(dev, key)
    PROVE  Treed(d) /\ SameTree(d, dev)
<1>1. /\ d \in Devices
      /\ d.image = dev.image /\ d.free = dev.free /\ d.inodes = dev.inodes
      /\ d.latest = dev.latest /\ d.removed = dev.removed
      /\ \A k \in DOMAIN d.cache : k \in DOMAIN dev.cache /\ d.cache[k] = dev.cache[k]
  BY UncachedGives
<1>2. Live(d) = Live(dev)
  BY <1>1 DEF Live
<1>3. Edges(d) = Edges(dev)
  BY <1>1, <1>2, EdgesElsewhere DEF SameBlocks
<1>4. SameTree(d, dev)
  BY <1>1, <1>3 DEF SameTree
<1>5. AllTell(dev, d.cache)
  BY <1>1 DEF Treed, AllTell
<1> QED
  BY <1>1, <1>4, <1>5, SameTreed

\* A call that leaves a tree keeps TreeInv, and shows that tree.
LEMMA FinishTree ==
    ASSUME NEW d, Whole(d), ~ d.misfreed /\ ~ d.strayed => Treed(d), NEW ok \in BOOLEAN, Finish(d, ok)
    PROVE  /\ TreeInv' /\ reply' = ok /\ latest_inum' = d.latest
           /\ Sound' => ~ d.misfreed /\ ~ d.strayed /\ d \in Devices /\ Numbers(d) /\ Sane(d) /\ Shown(d, tree')
<1> DEFINE e == [d EXCEPT !.pick = <<>>]
<1>1. d \in Devices /\ e \in Devices
  <2>1. d \in Devices /\ <<>> \in Seq(Blocks)
    BY DEF Whole
  <2> QED
    BY <2>1, PickAny
<1>2. Device(<<>>)' = e
  BY <1>1 DEF Device, Finish, Devices
<1>3. <<>> \in Seq(Blocks)
  OBVIOUS
<1>4. (Treed(d) => Treed(e)) /\ SameTree(e, d)
  BY <1>1, <1>3, PickTree
<1>5. NamesInv'
  BY FinishKeeps
<1>6. Sound' => ~ d.misfreed /\ ~ d.strayed
  BY DEF Sound, Finish
<1>7. tree' = TreeOf(d) /\ reply' = ok /\ latest_inum' = d.latest
  BY DEF Finish
<1> HIDE DEF e
<1>8. ASSUME ~ d.misfreed, ~ d.strayed
      PROVE  Treed(e) /\ Shown(d, TreeOf(d)) /\ Shown(e, TreeOf(d)) /\ Numbers(d) /\ Sane(d)
  <2>1. Sane(d) /\ Numbers(d) /\ Treed(d)
    BY <1>8 DEF Whole
  <2>2. Shown(d, TreeOf(d))
    BY <1>1, <2>1, TreeShown
  <2> QED
    BY <1>1, <1>4, <2>1, <2>2, SameShown
<1>9. TreeInv'
  BY <1>2, <1>5, <1>6, <1>7, <1>8 DEF TreeInv
<1>10. Sound' => ~ d.misfreed /\ ~ d.strayed /\ d \in Devices /\ Numbers(d) /\ Sane(d) /\ Shown(d, tree')
  BY <1>1, <1>6, <1>7, <1>8
<1> QED
  BY <1>7, <1>9, <1>10

\* A device that every lemma about the calls can start from, with t as its tree.
Ready(dev, t) ==
    /\ dev \in Devices /\ Whole(dev) /\ Sane(dev) /\ Numbers(dev) /\ Fit(dev) /\ Treed(dev) /\ Shown(dev, t)

\* While nothing is wrong the device is ready, whatever blocks will be handed out.
LEMMA AlwaysReady ==
    ASSUME TreeInv, Sound
    PROVE  /\ Ready(Device(<<>>), tree) /\ Device(<<>>).latest = latest_inum
           /\ \A pick \in Picks : Ready(Device(pick), tree) /\ Device(pick).latest = latest_inum
<1> DEFINE dev == Device(<<>>)
<1>1. dev \in Devices /\ Whole(dev) /\ Treed(dev) /\ Shown(dev, tree)
  BY DEF TreeInv, NamesInv, Whole
<1>2. Numbers(dev) /\ Sane(dev)
  BY <1>1 DEF Whole, Device, Sound
<1>3. Fit(dev)
  <2>1. dev.pick = <<>> /\ DOMAIN <<>> = {}
    BY DEF Device
  <2>2. Picked(dev)
    BY <2>1 DEF Picked
  <2> QED
    BY <1>1, <1>2, <2>2 DEF Fit
<1>4. dev.latest = latest_inum
  BY DEF Device
<1>5. ASSUME NEW pick \in Picks
      PROVE  Ready(Device(pick), tree) /\ Device(pick).latest = latest_inum
  <2> DEFINE d == Device(pick)
  <2>1. free = dev.free /\ d = [dev EXCEPT !.pick = pick] /\ d.latest = latest_inum
    BY DEF Device
  <2> HIDE DEF dev
  <2>2. pick \in Seq(Blocks) /\ Picked([dev EXCEPT !.pick = pick])
    BY <1>1, <2>1, PicksGive
  <2>3. d \in Devices /\ Whole(d) /\ Numbers(d) /\ Sane(d)
    BY <1>1, <1>2, <2>1, <2>2, PickAny
  <2>4. Treed(d) /\ SameTree(d, dev)
    BY <1>1, <2>1, <2>2, PickTree
  <2>5. Picked(d)
    BY <2>1, <2>2
  <2> HIDE DEF d
  <2>6. Shown(d, tree)
    BY <1>1, <2>3, <2>4, SameShown
  <2> QED
    BY <2>1, <2>3, <2>4, <2>5, <2>6 DEF Ready, Fit, d
<1> QED
  BY <1>1, <1>2, <1>3, <1>4, <1>5 DEF Ready

\* access, getattr and the like leave the names as they are.
LEMMA LookUpStep ==
    ASSUME TreeInv, Sound, NEW path \in Paths, LookUp(path)
    PROVE  TreeInv' /\ (Sound' => tree' = tree /\ latest_inum' = latest_inum)
<1> DEFINE dev == Device(<<>>)
           r == Resolve(dev, path, FALSE)
           d == r.dev
<1>1. Ready(dev, tree) /\ dev.latest = latest_inum
  BY AlwaysReady
<1>2. Finish(d, r.inum # NoInode)
  BY DEF LookUp
<1> HIDE DEF dev
<1>3. dev \in Devices /\ Sane(dev) /\ Fit(dev) /\ Treed(dev) /\ Shown(dev, tree)
  BY <1>1 DEF Ready
<1>4. LooksUp(r, dev)
  BY <1>3, PathsGive, ResolveLooksUp
<1>5. ~ d.strayed => Treed(d) /\ SameTree(d, dev)
  BY <1>3, ResolveTreed DEF Walks
<1> HIDE DEF r
<1>6. Whole(d) /\ d.latest = dev.latest
  BY <1>3, <1>4, LookedUpFit, FitWhole
<1>7. /\ TreeInv' /\ latest_inum' = d.latest
      /\ Sound' => ~ d.strayed /\ d \in Devices /\ Shown(d, tree')
  BY <1>2, <1>5, <1>6, FinishTree
<1> HIDE DEF d
<1>8. Sound' => tree' = tree
  BY <1>3, <1>5, <1>7, SameEffect
<1> QED
  BY <1>1, <1>6, <1>7, <1>8

\* So does a key that leaves the cache.
LEMMA ElsewhereStep ==
    ASSUME TreeInv, Sound, NEW key, LookUpElsewhere(key)
    PROVE  TreeInv' /\ (Sound' => tree' = tree /\ latest_inum' = latest_inum)
<1> DEFINE dev == Device(<<>>)
           d == Uncached(dev, key)
<1>1. Ready(dev, tree) /\ dev.latest = latest_inum
  BY AlwaysReady
<1>2. Finish(d, TRUE)
  BY DEF LookUpElsewhere
<1> HIDE DEF dev
<1>3. dev \in Devices /\ Sane(dev) /\ Numbers(dev) /\ Treed(dev) /\ Shown(dev, tree)
  BY <1>1 DEF Ready
<1>4. /\ d \in Devices
      /\ d.image = dev.image /\ d.free = dev.free /\ d.inodes = dev.inodes
      /\ d.latest = dev.latest /\ d.removed = dev.removed
      /\ \A k \in DOMAIN d.cache : k \in DOMAIN dev.cache /\ d.cache[k] = dev.cache[k]
  BY <1>3, UncachedGives
<1>5. Treed(d) /\ SameTree(d, dev)
  BY <1>3, UncachedTreed
<1> HIDE DEF d
<1>6. Whole(d)
  <2>1. Numbers(d)
    BY <1>3, <1>4, NumbersIff DEF AllUnder
  <2>2. Live(d) = Live(dev)
    BY <1>4 DEF Live
  <2>3. Sane(d)
    BY <1>3, <1>4, <2>2, SaneElsewhere DEF SameBlocks
  <2> QED
    BY <1>4, <2>1, <2>3 DEF Whole
<1>7. /\ TreeInv' /\ latest_inum' = d.latest
      /\ Sound' => Shown(d, tree')
  BY <1>2, <1>5, <1>6, FinishTree
<1>8. Sound' => tree' = tree
  BY <1>3, <1>4, <1>5, <1>7, SameEffect
<1> QED
  BY <1>1, <1>4, <1>7, <1>8

\* mknod and create make the file they were called for, or leave the names as they are.
LEMMA CreateStep ==
    ASSUME TreeInv, Sound, NEW path \in Paths, CreateFile(path)
    PROVE  /\ TreeInv'
           /\ Sound' => /\ latest_inum <= latest_inum'
                        /\ IF reply' THEN Grown(tree', tree, path, "file", latest_inum, latest_inum')
                           ELSE tree' = tree
<1>1. PICK pick \in Picks :
         LET f == NewFile(Device(pick), path)
         IN  Return(IF f.ok THEN [f EXCEPT !.dev.inodes[f.inum] = NewInode("file")] ELSE f)
  BY DEF CreateFile
<1> DEFINE dev == Device(pick)
           f == NewFile(dev, path)
           r == IF f.ok THEN [f EXCEPT !.dev.inodes[f.inum] = NewInode("file")] ELSE f
           d == r.dev
<1>2. Ready(dev, tree) /\ dev.latest = latest_inum
  BY AlwaysReady
<1>3. Finish(d, r.ok)
  BY <1>1 DEF Return
<1> HIDE DEF dev
<1>4. dev \in Devices /\ Fit(dev) /\ Treed(dev) /\ Shown(dev, tree)
  BY <1>2 DEF Ready
<1>5. Made(f)
  BY <1>4, PathsGive, NewFileMade
<1>6. ~ d.strayed => /\ Treed(d) /\ dev.latest <= d.latest
                     /\ IF r.ok THEN GrewFrom(d, dev, path, "file") ELSE SameTree(d, dev)
  BY <1>4, FileTreed
<1> HIDE DEF f
<1>7. Whole(d) /\ r.ok \in BOOLEAN
  <2>1. Whole(f.dev) /\ f.ok \in BOOLEAN
    BY <1>5 DEF Made, FileResults
  <2> QED
    BY <1>5, <2>1, FileWritten
<1> HIDE DEF r
<1>8. /\ TreeInv' /\ reply' = r.ok /\ latest_inum' = d.latest
      /\ Sound' => ~ d.strayed /\ d \in Devices /\ Numbers(d) /\ Shown(d, tree')
  BY <1>3, <1>6, <1>7, FinishTree
<1> HIDE DEF d
<1>9. Sound' /\ r.ok => Grown(tree', tree, path, "file", dev.latest, d.latest)
  BY <1>4, <1>6, <1>8, GrownEffect
<1>10. Sound' /\ ~ r.ok => tree' = tree
  BY <1>4, <1>6, <1>8, SameEffect
<1> QED
  BY <1>2, <1>6, <1>8, <1>9, <1>10

\* mkdir makes its directory; or fails, and leaves the names as they are or its name without a directory.
LEMMA MakeDirStep ==
    ASSUME TreeInv, Sound, NEW path \in Paths, MakeDir(path)
    PROVE  /\ TreeInv'
           /\ Sound' => /\ latest_inum <= latest_inum'
                        /\ IF reply' THEN Grown(tree', tree, path, "dir", latest_inum, latest_inum')
                           ELSE tree' = tree \/ Grown(tree', tree, path, "none", latest_inum, latest_inum')
<1>1. PICK pick \in Picks : Return(NewDir(NewFile(Device(pick), path)))
  BY DEF MakeDir
<1> DEFINE dev == Device(pick)
           f == NewFile(dev, path)
           r == NewDir(f)
           d == r.dev
<1>2. Ready(dev, tree) /\ dev.latest = latest_inum
  BY AlwaysReady
<1>3. Finish(d, r.ok)
  BY <1>1 DEF Return
<1> HIDE DEF dev
<1>4. dev \in Devices /\ Fit(dev) /\ Treed(dev) /\ Shown(dev, tree)
  BY <1>2 DEF Ready
<1>5. Whole(d) /\ r.ok \in BOOLEAN
  BY <1>4, PathsGive, NewFileMade, DirectoryWritten
<1>6. ~ d.strayed /\ ~ d.misfreed =>
         /\ Treed(d) /\ dev.latest <= d.latest
         /\ IF r.ok THEN GrewFrom(d, dev, path, "dir")
            ELSE SameTree(d, dev) \/ GrewFrom(d, dev, path, "none")
  BY <1>4, DirectoryTreed
<1> HIDE DEF r
<1>7. /\ TreeInv' /\ reply' = r.ok /\ latest_inum' = d.latest
      /\ Sound' => ~ d.misfreed /\ ~ d.strayed /\ d \in Devices /\ Numbers(d) /\ Shown(d, tree')
  BY <1>3, <1>5, <1>6, FinishTree
<1> HIDE DEF d
<1>8. ASSUME Sound', NEW kind, GrewFrom(d, dev, path, kind)
      PROVE  Grown(tree', tree, path, kind, dev.latest, d.latest)
  BY <1>4, <1>7, <1>8, GrownEffect
<1>9. Sound' /\ SameTree(d, dev) => tree' = tree
  BY <1>4, <1>7, SameEffect
<1> QED
  BY <1>2, <1>6, <1>7, <1>8, <1>9

\* A directory that is not empty has a name that leads on.
LEMMA FullHasEdge ==
    ASSUME NEW dev \in Devices, Sane(dev), NEW x \in Live(dev), ~ IsEmptyDir(Images(dev, dev.inodes[x]))
    PROVE  \E name, j : <<x, name, j>> \in Edges(dev)
<1> DEFINE imgs == Images(dev, dev.inodes[x])
           n == dev.inodes[x].num_blocks
<1>1. Directory(imgs, n)
  BY DEF Sane
<1> HIDE DEF imgs, n
<1>2. ~ \A r \in Listing(imgs) : r.name \in {".", ".."}
  BY <1>1, EmptyDirIff DEF imgs
<1>3. PICK r \in Listing(imgs) : r.name \notin {".", ".."}
  BY <1>2
<1>4. imgs \in [1 .. n -> BlockImages]
  BY <1>1 DEF Directory
<1>5. PICK k \in 1 .. n : r \in {imgs[k][p] : p \in Reached(imgs[k])}
  BY <1>4 DEF Listing
<1>6. PICK p \in Reached(imgs[k]) : r = imgs[k][p]
  BY <1>5
<1>7. r.inum \in Inums /\ r.name \in NameSet
  BY <1>4, <1>6, ReachedFacts
<1>8. Holding(imgs, n, r.name, r.inum)
  BY <1>6 DEF Holding
<1>9. <<x, r.name, r.inum>> \in Edges(dev)
  BY <1>3, <1>7, <1>8, EdgesIff DEF imgs, n
<1> QED
  BY <1>9

\* What a path stands for has something in it, if its records do.
LEMMA FullHasPath ==
    ASSUME NEW dev \in Devices, Treed(dev), NEW path \in Paths, NEW x, Denotes(Edges(dev), path, x),
           NEW name, NEW j, <<x, name, j>> \in Edges(dev), NEW t, Shown(dev, t)
    PROVE  \E q \in Paths : Front(q) = path /\ t[q].num # 0
<1> DEFINE E == Edges(dev)
           g == <<x, name, j>>
<1>1. E \in SUBSET EdgeSet /\ Forest(E) /\ path \in Seq(NameSet)
  BY PathsGive DEF Edges, Treed, NamesOnce
<1>2. g \in E /\ g[1] = x /\ g[3] = j
  OBVIOUS
<1> HIDE DEF g, E
<1>3. PICK q \in Paths : Denotes(E, q, j)
  BY <1>2 DEF Treed, NamesOnce, E
<1>4. q \in Seq(NameSet) /\ Len(q) > 0 /\ Front(q) \in Seq(NameSet)
  BY PathsGive, FrontAndLast
<1>5. PICK i \in Inums : Denotes(E, Front(q), i) /\ <<i, Last(q), j>> \in E
  BY <1>1, <1>3, <1>4, OneBefore
<1>6. i = x
  <2> DEFINE h == <<i, Last(q), j>>
  <2>1. h \in E /\ h[1] = i /\ h[3] = j
    BY <1>5
  <2> HIDE DEF h
  <2>2. h = g
    BY <1>1, <1>2, <2>1 DEF Forest
  <2> QED
    BY <1>2, <2>1, <2>2
<1>7. Front(q) = path
  BY <1>1, <1>4, <1>5, <1>6, OnePath DEF E
<1>8. t[q] = [num |-> j, kind |-> dev.inodes[j].kind]
  BY <1>3 DEF Shown, E
<1>9. j # 0
  <2>1. <<x, name, j>> \in EdgeSet
    BY <1>1 DEF E
  <2> QED
    BY <2>1 DEF EdgeSet, Inums, ROOT_INODE
<1> QED
  BY <1>7, <1>8, <1>9

(* unlink and rmdir take away the name they were called for, when nothing  *)
(* is in it; or they leave the names as they are, and report success only  *)
(* when there was no such name or something is in it.                      *)
LEMMA UnlinkStep ==
    ASSUME TreeInv, Sound, NEW path \in Paths, Unlink(path)
    PROVE  /\ TreeInv'
           /\ Sound' => /\ latest_inum' = latest_inum
                        /\ \/ reply' /\ Shrunk(tree', tree, path)
                           \/ tree' = tree /\ (reply' => \/ tree[path] = Absent
                                                         \/ \E q \in Paths : Front(q) = path /\ tree[q].num # 0)
<1> DEFINE dev == Device(<<>>)
           r == Resolve(dev, path, FALSE)
           c == r.dev
           x == r.inum
           full == c.inodes[x].kind = "dir" /\ ~ IsEmptyDir(Images(c, c.inodes[x]))
           u == Unlinked(Parent(c, path), x, path)
           d == u.dev
<1>1. Ready(dev, tree) /\ dev.latest = latest_inum
  BY AlwaysReady
<1>2. UnlinkFound(r, path)
  BY DEF Unlink
<1> HIDE DEF dev
<1>3. dev \in Devices /\ Sane(dev) /\ Fit(dev) /\ Treed(dev) /\ Shown(dev, tree)
  BY <1>1 DEF Ready
<1>4. LooksUp(r, dev)
  BY <1>3, PathsGive, ResolveLooksUp
<1>5. ~ c.strayed => Treed(c) /\ SameTree(c, dev) /\ Tells(c, x, path, FALSE)
  BY <1>3, ResolveTreed DEF Walks
<1>6. ASSUME x \in Inums, ~ full, ~ d.strayed, ~ d.misfreed
      PROVE  /\ Treed(d) /\ d.latest = dev.latest
             /\ IF u.ok THEN ShrankFrom(d, dev, path) ELSE SameTree(d, dev)
  BY <1>3, <1>6, UnlinkTreed
<1> HIDE DEF r
<1>7. Fit(c) /\ x \in Inums \cup {NoInode} /\ x < c.latest /\ c.latest = dev.latest
  BY <1>3, <1>4, LookedUpFit
<1>8. CASE x = NoInode \/ full
  <2>1. Finish(c, TRUE)
    BY <1>2, <1>8 DEF UnlinkFound
  <2>2. Whole(c)
    BY <1>7, FitWhole
  <2>3. /\ TreeInv' /\ reply' = TRUE /\ latest_inum' = c.latest
        /\ Sound' => ~ c.strayed /\ c \in Devices /\ Sane(c) /\ Shown(c, tree')
    BY <1>5, <2>1, <2>2, FinishTree
  <2> HIDE DEF c, x
  <2>4. ASSUME Sound'
        PROVE  tree' = tree
    BY <1>3, <1>5, <2>3, <2>4, SameEffect
  <2>5. ASSUME Sound', x = NoInode
        PROVE  tree[path] = Absent
    <3>1. ASSUME NEW j, Denotes(Edges(c), path, j)
          PROVE  FALSE
      <4>1. j = NoInode
        BY <1>5, <2>3, <2>5, <3>1 DEF Tells
      <4>2. j \in Inums
        <5>1. Len(path) \in 0 .. Len(path)
          BY PathOfNames
        <5> QED
          BY <3>1, <5>1 DEF Denotes, Goes
      <4> QED
        BY <4>1, <4>2, NoInodeNot
    <3>2. Shown(c, tree)
      BY <2>3, <2>4, <2>5
    <3> QED
      BY <3>1, <3>2 DEF Shown
  <2>6. ASSUME Sound', x # NoInode
        PROVE  \E q \in Paths : Front(q) = path /\ tree[q].num # 0
    <3>1. x \in Inums /\ full /\ Treed(c) /\ c \in Devices /\ Sane(c)
      BY <1>5, <1>7, <1>8, <2>3, <2>6
    <3>2. x \notin c.removed /\ Denotes(Edges(c), path, x)
      BY <1>5, <2>3, <2>6, <3>1 DEF Tells
    <3>3. x \in Live(c)
      BY <3>1, <3>2 DEF Live
    <3>4. PICK name, j : <<x, name, j>> \in Edges(c)
      BY <3>1, <3>3, FullHasEdge
    <3>5. Shown(c, tree)
      BY <2>3, <2>4, <2>6
    <3> QED
      BY <3>1, <3>2, <3>4, <3>5, FullHasPath
  <2> QED
    BY <1>1, <1>7, <2>3, <2>4, <2>5, <2>6
<1>9. CASE ~ (x = NoInode \/ full)
  <2>1. Finish(d, u.ok)
    BY <1>2, <1>9 DEF UnlinkFound, Return
  <2>2. x \in Inums /\ ~ full
    BY <1>7, <1>9
  <2>3. Whole(d) /\ u.ok \in BOOLEAN
    BY <1>7, <2>2, UnlinkFoundWhole
  <2> HIDE DEF u, full, x
  <2>4. ~ d.misfreed /\ ~ d.strayed => Treed(d)
    BY <1>6, <2>2
  <2>5. /\ TreeInv' /\ reply' = u.ok /\ latest_inum' = d.latest
        /\ Sound' => ~ d.misfreed /\ ~ d.strayed /\ d \in Devices /\ Shown(d, tree')
    BY <2>1, <2>3, <2>4, FinishTree
  <2> HIDE DEF d
  <2>6. ASSUME Sound'
        PROVE  /\ d.latest = dev.latest
               /\ IF u.ok THEN ShrankFrom(d, dev, path) ELSE SameTree(d, dev)
    BY <1>6, <2>2, <2>5, <2>6
  <2>7. Sound' /\ u.ok => Shrunk(tree', tree, path)
    BY <1>3, <2>5, <2>6, ShrunkEffect
  <2>8. Sound' /\ ~ u.ok => tree' = tree
    BY <1>3, <2>5, <2>6, SameEffect
  <2> QED
    BY <1>1, <2>3, <2>5, <2>6, <2>7, <2>8
<1> QED
  BY <1>8, <1>9

\* init_file_layer leaves a tree without names, and the history says so.
LEMMA InitTree == Init => TreeInv
<1> SUFFICES ASSUME Init
             PROVE  TreeInv
  OBVIOUS
<1>1. PICK b \in Blocks :
         LET made == NewDir([ok |-> TRUE, dev |-> Formatted(b), inum |-> ROOT_INODE]).dev
         IN  /\ image = made.image /\ free = made.free /\ inodes = made.inodes
             /\ latest_inum = made.latest /\ cache = made.cache
             /\ removed = made.removed /\ misfreed = made.misfreed /\ strayed = made.strayed
  BY DEF Init
<1> DEFINE made == NewDir([ok |-> TRUE, dev |-> Formatted(b), inum |-> ROOT_INODE]).dev
           e == [made EXCEPT !.pick = <<>>]
<1>2. Treed(made) /\ Edges(made) = {}
  BY RootMade
<1>3. Whole(made)
  <2> DEFINE f == [ok |-> TRUE, dev |-> Formatted(b), inum |-> ROOT_INODE]
  <2>1. Made(f)
    BY FormattedMade
  <2> HIDE DEF f
  <2>2. Whole(NewDir(f).dev)
    BY <2>1, DirectoryWritten
  <2> QED
    BY <2>2 DEF f
<1>4. /\ image = made.image /\ free = made.free /\ inodes = made.inodes
      /\ latest_inum = made.latest /\ cache = made.cache
      /\ removed = made.removed /\ misfreed = made.misfreed /\ strayed = made.strayed
  BY <1>1
<1> HIDE DEF made
<1>5. made \in Devices /\ <<>> \in Seq(Blocks)
  BY <1>3 DEF Whole
<1>6. Device(<<>>) = e
  BY <1>4, <1>5 DEF Device, Devices
<1>7. (Treed(made) => Treed(e)) /\ SameTree(e, made)
  BY <1>5, PickTree
<1>8. NamesInv
  BY InitNames
<1>9. tree = [p \in Paths |-> Absent]
  BY DEF Init
<1> HIDE DEF e
<1>10. Treed(e) /\ Edges(e) = {}
  BY <1>2, <1>7 DEF SameTree
<1>11. Shown(e, tree)
  <2> DEFINE V == [num : Inums \cup {0}, kind : {"none", "file", "dir"}]
  <2>1. Absent \in V
    BY AbsentType
  <2> HIDE DEF V
  <2>2. tree \in [Paths -> V] /\ \A p \in Paths : tree[p] = Absent
    BY <1>9, <2>1
  <2>3. ASSUME NEW p \in Paths, NEW j, Denotes({}, p, j)
        PROVE  FALSE
    <3>1. p \in Seq(NameSet) /\ Len(p) > 0
      BY PathOfNames
    <3>2. {} \in SUBSET EdgeSet
      OBVIOUS
    <3>3. \E i \in Inums : Denotes({}, Front(p), i) /\ <<i, Last(p), j>> \in {}
      BY <2>3, <3>1, <3>2, OneBefore
    <3> QED
      BY <3>3
  <2> QED
    BY <1>10, <2>2, <2>3 DEF Shown, V
<1> QED
  BY <1>6, <1>8, <1>10, <1>11 DEF TreeInv

\* Every call keeps the tree.
LEMMA NextTree == TreeInv /\ [Next]_vars => TreeInv'
<1> SUFFICES ASSUME TreeInv, [Next]_vars
             PROVE  TreeInv'
  OBVIOUS
<1>1. CASE UNCHANGED vars
  <2>1. NamesInv'
    BY <1>1, NextNames DEF TreeInv
  <2>2. Device(<<>>)' = Device(<<>>) /\ Sound' = Sound /\ tree' = tree
    BY <1>1 DEF vars, Device, Sound
  <2>3. Sound' => Treed(Device(<<>>)') /\ Shown(Device(<<>>)', tree')
    BY <2>2 DEF TreeInv
  <2> QED
    BY <2>1, <2>3 DEF TreeInv
<1>2. CASE Next
  <2>1. Sound
    BY <1>2 DEF Next, Sound
  <2> QED
    BY <1>2, <2>1, LookUpStep, CreateStep, MakeDirStep, UnlinkStep, ElsewhereStep DEF Next
<1> QED
  BY <1>1, <1>2

(* The records of the directories form a tree in which every number has    *)
(* one name, the cached numbers are what their paths stand for or gone,    *)
(* and the history tree is what the records say (file_layer.c).            *)
THEOREM TreeInvariant == Spec => []TreeInv
  BY InitTree, NextTree, PTL DEF Spec

-----------------------------------------------------------------------------
(* The theorems about names                                                *)

\* The names in a directory are the edges that leave it, and no two of its records have one name.
LEMMA NamedIsEdge ==
    ASSUME NamesInv, Sound, NEW d \in Directories
    PROVE  LET E == Edges(Device(<<>>))
           IN  /\ \A r \in Named(d) : <<d, r.name, r.inum>> \in E
               /\ \A name, i : <<d, name, i>> \in E => \E r \in Named(d) : r.name = name /\ r.inum = i
               /\ \A r, q \in Named(d) : r.name = q.name => r = q
<1> DEFINE dev == Device(<<>>)
           imgs == ImagesOf(d)
           n == inodes[d].num_blocks
<1>1. /\ Sane(dev) /\ dev \in Devices /\ d \in Live(dev) /\ dev.inodes = inodes
      /\ d \in Inums /\ inodes[d] \in InodeSet /\ Directory(imgs, n)
  BY SoundGives
<1>2. imgs = Images(dev, dev.inodes[d]) /\ n = dev.inodes[d].num_blocks
  BY <1>1 DEF ImagesOf
<1>3. Named(d) = {r \in Listing(imgs) : r.name \notin {".", ".."}}
  BY DEF Named
<1> HIDE DEF dev, imgs, n
<1>4. /\ imgs \in [1 .. n -> BlockImages]
      /\ \A i, k \in 1 .. n : \A p \in Reached(imgs[i]), q \in Reached(imgs[k]) :
            imgs[i][p].name = imgs[k][q].name => i = k /\ p = q
  BY <1>1 DEF Directory
<1>5. ASSUME NEW r \in Named(d)
      PROVE  \E k \in 1 .. n : \E p \in Reached(imgs[k]) : r = imgs[k][p]
  BY <1>3, <1>4, <1>5 DEF Listing
<1>6. ASSUME NEW r \in Named(d)
      PROVE  <<d, r.name, r.inum>> \in Edges(dev)
  <2>1. PICK k \in 1 .. n : \E p \in Reached(imgs[k]) : r = imgs[k][p]
    BY <1>5
  <2>2. PICK p \in Reached(imgs[k]) : r = imgs[k][p]
    BY <2>1
  <2>3. r.inum \in Inums /\ r.name \in NameSet
    BY <1>4, <2>1, <2>2, ReachedFacts
  <2>4. r.name \notin {".", ".."}
    BY <1>3
  <2>5. Holding(imgs, n, r.name, r.inum)
    BY <2>2 DEF Holding
  <2> QED
    BY <1>1, <1>2, <2>3, <2>4, <2>5, EdgesIff
<1>7. ASSUME NEW name, NEW i, <<d, name, i>> \in Edges(dev)
      PROVE  \E r \in Named(d) : r.name = name /\ r.inum = i
  <2>1. name \notin {".", ".."} /\ Holding(imgs, n, name, i)
    BY <1>2, <1>7, EdgesIff
  <2>2. PICK k \in 1 .. n : \E p \in Reached(imgs[k]) : imgs[k][p].name = name /\ imgs[k][p].inum = i
    BY <2>1 DEF Holding
  <2>3. PICK p \in Reached(imgs[k]) : imgs[k][p].name = name /\ imgs[k][p].inum = i
    BY <2>2
  <2>4. imgs[k][p] \in Listing(imgs)
    BY <1>4, <2>3 DEF Listing
  <2> QED
    BY <1>3, <2>1, <2>3, <2>4
<1>8. ASSUME NEW r \in Named(d), NEW q \in Named(d), r.name = q.name
      PROVE  r = q
  <2>1. PICK k \in 1 .. n : \E p \in Reached(imgs[k]) : r = imgs[k][p]
    BY <1>5
  <2>2. PICK p \in Reached(imgs[k]) : r = imgs[k][p]
    BY <2>1
  <2>3. PICK j \in 1 .. n : \E p2 \in Reached(imgs[j]) : q = imgs[j][p2]
    BY <1>5
  <2>4. PICK p2 \in Reached(imgs[j]) : q = imgs[j][p2]
    BY <2>3
  <2>5. k = j /\ p = p2
    BY <1>4, <1>8, <2>2, <2>4
  <2> QED
    BY <2>2, <2>4, <2>5
<1> QED
  BY <1>6, <1>7, <1>8 DEF dev

(* Every file and directory but the root has exactly one name, in one      *)
(* directory that is there, and no name leads to an inode that free_inode  *)
(* took back (create_new_file, custom_mkdir, custom_unlink).               *)
THEOREM EveryInodeNamedOnce == Spec => []OneName
<1>1. TreeInv => OneName
  <2> SUFFICES ASSUME TreeInv, Sound
               PROVE  /\ \A i \in Inums \ (removed \cup {ROOT_INODE}) : inodes[i].kind # "none" =>
                            \E d \in Directories : \E r \in Named(d) :
                               r.inum = i /\ \A e \in Directories : \A q \in Named(e) : q.inum = i => d = e /\ q = r
                      /\ \A d \in Directories : \A r \in Named(d) : r.inum \notin removed
    BY DEF OneName
  <2> DEFINE dev == Device(<<>>)
             E == Edges(dev)
  <2>1. NamesInv /\ NamesOnce(dev) /\ dev.removed = removed /\ dev.inodes = inodes
    BY DEF TreeInv, Treed, Device
  <2>2. Directories = Live(dev)
    BY <2>1, SoundGives
  <2>3. ASSUME NEW d \in Directories
        PROVE  /\ \A r \in Named(d) : <<d, r.name, r.inum>> \in E
               /\ \A name, i : <<d, name, i>> \in E => \E r \in Named(d) : r.name = name /\ r.inum = i
               /\ \A r, q \in Named(d) : r.name = q.name => r = q
    BY <2>1, NamedIsEdge
  <2> HIDE DEF dev
  <2>4. ASSUME NEW d, NEW name, NEW i, NEW e, NEW name2, <<d, name, i>> \in E, <<e, name2, i>> \in E
        PROVE  d = e /\ name = name2
    <3> DEFINE g == <<d, name, i>>
               h == <<e, name2, i>>
    <3>1. g \in E /\ h \in E /\ g[3] = h[3]
      BY <2>4
    <3>2. g[1] = d /\ g[2] = name /\ h[1] = e /\ h[2] = name2
      OBVIOUS
    <3> HIDE DEF g, h
    <3>3. g = h
      BY <2>1, <3>1 DEF NamesOnce, Forest
    <3> QED
      BY <3>2, <3>3
  <2>5. ASSUME NEW i \in Inums \ (removed \cup {ROOT_INODE}), inodes[i].kind # "none"
        PROVE  \E d \in Directories : \E r \in Named(d) :
                  r.inum = i /\ \A e \in Directories : \A q \in Named(e) : q.inum = i => d = e /\ q = r
    <3>1. PICK g \in E : g[3] = i
      BY <2>1, <2>5 DEF NamesOnce
    <3>2. g = <<g[1], g[2], i>> /\ g[1] \in Directories
      BY <2>2, <3>1, EdgeParts
    <3>3. <<g[1], g[2], i>> \in E
      BY <3>1, <3>2
    <3>4. PICK r \in Named(g[1]) : r.name = g[2] /\ r.inum = i
      BY <2>3, <3>2, <3>3
    <3>5. ASSUME NEW e \in Directories, NEW q \in Named(e), q.inum = i
          PROVE  g[1] = e /\ q = r
      <4>1. <<e, q.name, i>> \in E
        BY <2>3, <3>5
      <4>2. g[1] = e /\ g[2] = q.name
        BY <2>4, <3>3, <4>1
      <4> QED
        BY <2>3, <3>2, <3>4, <4>2
    <3> QED
      BY <3>2, <3>4, <3>5
  <2>6. ASSUME NEW d \in Directories, NEW r \in Named(d)
        PROVE  r.inum \notin removed
    <3> DEFINE g == <<d, r.name, r.inum>>
    <3>1. g \in E /\ g[3] = r.inum
      BY <2>3
    <3> HIDE DEF g
    <3> QED
      BY <2>1, <3>1 DEF NamesOnce
  <2> QED
    BY <2>5, <2>6
<1> QED
  BY <1>1, TreeInvariant, PTL

(* What the path cache answers for a path is what the path stands for, or  *)
(* an inode that is gone; never another object that is there               *)
(* (get_inode_num_from_path, remove_from_cache in custom_unlink).          *)
THEOREM CacheRightOrGone == Spec => []CachedIsRightOrGone
<1>1. TreeInv => CachedIsRightOrGone
  <2> SUFFICES ASSUME TreeInv, Sound, NEW key \in DOMAIN cache,
                      cache[key] \notin removed, inodes[cache[key]].kind # "none"
               PROVE  cache[key] = tree[key[1]].num
    BY DEF CachedIsRightOrGone
  <2> DEFINE dev == Device(<<>>)
             i == cache[key]
  <2>1. /\ dev \in Devices /\ Treed(dev) /\ Shown(dev, tree)
        /\ dev.cache = cache /\ dev.removed = removed /\ dev.inodes = inodes
    BY DEF TreeInv, NamesInv, Whole, Device
  <2> HIDE DEF dev
  <2>2. i \in Inums
    BY <2>1, CachesIff DEF Devices
  <2>3. key[1] \in Paths /\ Tells(dev, i, key[1], key[2])
    BY <2>1 DEF Treed, AllTell
  <2>4. Denotes(Edges(dev), key[1], i)
    BY <2>1, <2>2, <2>3, NoInodeNot DEF Tells
  <2>5. tree[key[1]] = [num |-> i, kind |-> dev.inodes[i].kind]
    BY <2>1, <2>3, <2>4 DEF Shown
  <2> QED
    BY <2>5
<1> QED
  BY <1>1, TreeInvariant, PTL

\* The value of a path that changed, and of the others.
LEMMA GrownAt ==
    ASSUME NEW dev, NEW t, Shown(dev, t), NEW path \in Paths, NEW kind, NEW low, NEW high, NEW t2,
           Grown(t2, t, path, kind, low, high)
    PROVE  /\ t[path] = Absent /\ t2[path].kind = kind /\ t2[path].num # 0
           /\ \A p \in Paths : p # path => t2[p] = t[p]
<1> DEFINE V == [num : Inums \cup {0}, kind : {"none", "file", "dir"}]
<1>1. t \in [Paths -> V]
  BY DEF Shown
<1> HIDE DEF V
<1>2. PICK n \in Inums : t2 = [t EXCEPT ![path] = [num |-> n, kind |-> kind]]
  BY DEF Grown
<1> DEFINE v == [num |-> n, kind |-> kind]
<1>3. v.kind = kind /\ v.num # 0 /\ t2 = [t EXCEPT ![path] = v]
  BY <1>2 DEF Inums, ROOT_INODE
<1> HIDE DEF v
<1>4. t2[path] = v /\ \A p \in Paths : p # path => t2[p] = t[p]
  BY <1>1, <1>3
<1> QED
  BY <1>3, <1>4 DEF Grown

(* What each callback tells FUSE is true: a name it made is there with its *)
(* kind, a name it removed is gone or was a directory with names in it,    *)
(* and an error leaves every name as it was, but for the one that a failing*)
(* mkdir adds (charm_mknod, charm_mkdir, charm_unlink).                    *)
THEOREM RepliesAlwaysTrue == Spec => ReplyTrue
<1>1. TreeInv /\ [Next]_vars =>
         [Sound' =>
            /\ ~ reply' => \A p \in Paths :
                  \/ tree'[p] = tree[p]
                  \/ MakeDir(p) /\ tree[p] = Absent /\ tree'[p].num # 0 /\ tree'[p].kind = "none"
            /\ reply' => \A p \in Paths :
                  /\ CreateFile(p) => tree'[p].kind = "file"
                  /\ MakeDir(p) => tree'[p].kind = "dir"
                  /\ Unlink(p) => \/ tree'[p].num = 0
                                  \/ tree'[p] = tree[p] /\ \E q \in Paths : Front(q) = p /\ tree[q].num # 0]_vars
  <2> SUFFICES ASSUME TreeInv, Next, Sound'
               PROVE  /\ ~ reply' => \A p \in Paths :
                            \/ tree'[p] = tree[p]
                            \/ MakeDir(p) /\ tree[p] = Absent /\ tree'[p].num # 0 /\ tree'[p].kind = "none"
                      /\ reply' => \A p \in Paths :
                            /\ CreateFile(p) => tree'[p].kind = "file"
                            /\ MakeDir(p) => tree'[p].kind = "dir"
                            /\ Unlink(p) => \/ tree'[p].num = 0
                                            \/ tree'[p] = tree[p] /\ \E q \in Paths : Front(q) = p /\ tree[q].num # 0
    OBVIOUS
  <2>1. Sound
    BY DEF Next, Sound
  <2>2. Shown(Device(<<>>), tree)
    BY <2>1, AlwaysReady DEF Ready
  <2>3. ASSUME ~ reply', NEW p \in Paths
        PROVE  \/ tree'[p] = tree[p]
               \/ MakeDir(p) /\ tree[p] = Absent /\ tree'[p].num # 0 /\ tree'[p].kind = "none"
    <3>1. \/ tree' = tree
          \/ \E path \in Paths : MakeDir(path) /\ Grown(tree', tree, path, "none", latest_inum, latest_inum')
      BY <2>1, <2>3, LookUpStep, CreateStep, MakeDirStep, UnlinkStep, ElsewhereStep DEF Next
    <3>2. ASSUME NEW path \in Paths, MakeDir(path), Grown(tree', tree, path, "none", latest_inum, latest_inum')
          PROVE  \/ tree'[p] = tree[p]
                 \/ MakeDir(p) /\ tree[p] = Absent /\ tree'[p].num # 0 /\ tree'[p].kind = "none"
      BY <2>2, <3>2, GrownAt
    <3> QED
      BY <3>1, <3>2
  <2>4. ASSUME reply', NEW p \in Paths, CreateFile(p)
        PROVE  tree'[p].kind = "file"
    <3>1. Grown(tree', tree, p, "file", latest_inum, latest_inum')
      BY <2>1, <2>4, CreateStep
    <3> QED
      BY <2>2, <3>1, GrownAt
  <2>5. ASSUME reply', NEW p \in Paths, MakeDir(p)
        PROVE  tree'[p].kind = "dir"
    <3>1. Grown(tree', tree, p, "dir", latest_inum, latest_inum')
      BY <2>1, <2>5, MakeDirStep
    <3> QED
      BY <2>2, <3>1, GrownAt
  <2>6. ASSUME reply', NEW p \in Paths, Unlink(p)
        PROVE  \/ tree'[p].num = 0
               \/ tree'[p] = tree[p] /\ \E q \in Paths : Front(q) = p /\ tree[q].num # 0
    <3>1. \/ Shrunk(tree', tree, p)
          \/ tree' = tree /\ tree[p] = Absent
          \/ tree' = tree /\ \E q \in Paths : Front(q) = p /\ tree[q].num # 0
      BY <2>1, <2>6, UnlinkStep
    <3>2. ASSUME Shrunk(tree', tree, p)
          PROVE  tree'[p] = Absent
      <4> DEFINE V == [num : Inums \cup {0}, kind : {"none", "file", "dir"}]
      <4>1. tree \in [Paths -> V] /\ tree' = [tree EXCEPT ![p] = Absent]
        BY <2>2, <3>2 DEF Shown, Shrunk
      <4> HIDE DEF V
      <4> QED
        BY <4>1
    <3>3. Absent.num = 0
      BY DEF Absent
    <3> QED
      BY <3>1, <3>2, <3>3
  <2> QED
    BY <2>3, <2>4, <2>5, <2>6
<1> QED
  BY <1>1, TreeInvariant, PTL DEF Spec, ReplyTrue

\* The numbers that were given, when more are.
LEMMA MoreTaken ==
    ASSUME NEW a \in Nat, NEW b \in Nat, a <= b
    PROVE  /\ ROOT_INODE .. a - 1 \subseteq ROOT_INODE .. b - 1
           /\ \A n \in Inums : a <= n /\ n < b => n \in ROOT_INODE .. b - 1 /\ n \notin ROOT_INODE .. a - 1
  BY DEF ROOT_INODE, Inums

(* The records, the inode table and the path cache together implement the  *)
(* tree of names of NameTree, until a removed directory is used through a  *)
(* stale path.                                                             *)
THEOREM NameTreeImplemented == Spec => ImplementsTree
<1>1. Init => Names!Init
  <2> SUFFICES ASSUME Init
               PROVE  Names!Init
    OBVIOUS
  <2>1. PICK b \in Blocks :
           LET made == NewDir([ok |-> TRUE, dev |-> Formatted(b), inum |-> ROOT_INODE]).dev
           IN  latest_inum = made.latest /\ misfreed = made.misfreed /\ strayed = made.strayed
    BY DEF Init
  <2> DEFINE made == NewDir([ok |-> TRUE, dev |-> Formatted(b), inum |-> ROOT_INODE]).dev
  <2>2. made.latest = ROOT_INODE + 1 /\ ~ made.misfreed /\ ~ made.strayed
    BY RootMade
  <2>3. latest_inum = made.latest /\ misfreed = made.misfreed /\ strayed = made.strayed
    BY <2>1
  <2> HIDE DEF made
  <2>4. latest_inum = ROOT_INODE + 1 /\ Sound
    BY <2>2, <2>3 DEF Sound
  <2>5. ROOT_INODE .. latest_inum - 1 = {ROOT_INODE}
    BY <2>4 DEF ROOT_INODE
  <2>6. Sound = TRUE
    BY <2>4
  <2>7. tree = [p \in Paths |-> Names!Absent]
    BY DEF Init, Absent, Names!Absent
  <2> QED
    BY <2>5, <2>6, <2>7 DEF Names!Init
<1>2. TreeInv /\ [Next]_vars => [Names!Next]_(Names!vars)
  <2> SUFFICES ASSUME TreeInv, [Next]_vars
               PROVE  [Names!Next]_(Names!vars)
    OBVIOUS
  <2>1. CASE UNCHANGED vars
    <3>1. tree' = tree /\ latest_inum' = latest_inum /\ Sound' = Sound
      BY <2>1 DEF vars, Sound
    <3> QED
      BY <3>1 DEF Names!vars
  <2>2. CASE Next /\ ~ Sound'
    BY <2>2 DEF Names!Next, Names!Broken
  <2>3. CASE Next /\ Sound'
    <3> DEFINE taken == ROOT_INODE .. latest_inum - 1
    <3>1. Sound
      BY <2>3 DEF Next, Sound
    <3>2. Sound' = Sound
      BY <2>3, <3>1
    <3>3. Shown(Device(<<>>), tree) /\ latest_inum \in Nat
      BY <3>1, AlwaysReady DEF Ready, Devices
    <3>4. \/ tree' = tree
          \/ \E path \in Paths : \/ \E kind \in {"none", "file", "dir"} : Grown(tree', tree, path, kind, latest_inum, latest_inum')
                                 \/ Shrunk(tree', tree, path)
      BY <2>3, <3>1, LookUpStep, CreateStep, MakeDirStep, UnlinkStep, ElsewhereStep DEF Next
    <3>5. latest_inum <= latest_inum' /\ latest_inum' \in Nat
      <4>1. latest_inum <= latest_inum'
        BY <2>3, <3>1, <3>3, LookUpStep, CreateStep, MakeDirStep, UnlinkStep, ElsewhereStep DEF Next
      <4>2. TreeInv'
        BY NextTree
      <4>3. Device(<<>>)' \in Devices /\ Device(<<>>)'.latest = latest_inum'
        BY <4>2 DEF TreeInv, NamesInv, Whole, Device
      <4> QED
        BY <4>1, <4>3 DEF Devices
    <3>6. taken \subseteq taken'
      <4>1. taken' = ROOT_INODE .. latest_inum' - 1
        OBVIOUS
      <4> QED
        BY <3>3, <3>5, <4>1, MoreTaken
    <3>7. ASSUME NEW path \in Paths, NEW kind \in {"none", "file", "dir"},
                 Grown(tree', tree, path, kind, latest_inum, latest_inum')
          PROVE  Names!Create(path)
      <4>1. tree[path] = Names!Absent
        BY <3>7 DEF Grown, Absent, Names!Absent
      <4>2. Names!IsDir(Front(path))
        BY <3>7 DEF Grown, InDirectory, Names!IsDir
      <4>3. PICK n \in Inums : latest_inum <= n /\ n < latest_inum' /\ tree' = [tree EXCEPT ![path] = [num |-> n, kind |-> kind]]
        BY <3>7 DEF Grown
      <4>4. n \in taken' /\ n \notin taken
        <5>1. taken' = ROOT_INODE .. latest_inum' - 1
          OBVIOUS
        <5> QED
          BY <3>3, <3>5, <4>3, <5>1, MoreTaken
      <4>5. Names!Front(path) = Front(path)
        BY DEF Front, Names!Front
      <4> QED
        BY <4>1, <4>2, <4>3, <4>4, <4>5 DEF Names!Create
    <3>8. ASSUME NEW path \in Paths, Shrunk(tree', tree, path)
          PROVE  Names!Delete(path)
      <4>1. \A q : Names!Front(q) = Front(q)
        BY DEF Front, Names!Front
      <4> QED
        BY <3>8, <4>1 DEF Shrunk, Absent, Names!Absent, Names!Delete
    <3>9. Names!Refuse \/ \E path \in Paths : Names!Create(path) \/ Names!Delete(path)
      BY <3>4, <3>7, <3>8 DEF Names!Refuse
    <3> QED
      BY <3>2, <3>6, <3>9 DEF Names!Next
  <2> QED
    BY <2>1, <2>2, <2>3
<1> QED
  BY <1>1, <1>2, TreeInvariant, PTL DEF Spec, ImplementsTree, Names!Spec

=============================================================================
