--------------------------- MODULE DataLemmas -----------------------------
(***************************************************************************)
(* Facts about numbers and sequences that the proofs of several modules    *)
(* need.  Induction is stated with a set instead of a predicate, so that   *)
(* the provers can be given an instance of it.                             *)
(***************************************************************************)
EXTENDS Integers, FiniteSetsExt, FiniteSetTheorems, SequenceTheorems, TLAPS

(* A set that holds 0, and with every number the next one, holds them all: *)
(* below a gap at m the successor would map the elements one to one into   *)
(* those that are not 0, of which there is one fewer.                      *)
LEMMA SetInduction ==
    ASSUME NEW S, 0 \in S, \A n \in Nat : n \in S => n + 1 \in S
    PROVE  Nat \subseteq S
<1> SUFFICES ASSUME NEW m \in Nat, m \notin S
             PROVE  FALSE
  OBVIOUS
<1> DEFINE A == {n \in 0 .. m : n \in S}
           B == A \ {0}
           next == [n \in A |-> n + 1]
<1>1. IsFiniteSet(A) /\ Cardinality(A) \in Nat
  <2>1. IsFiniteSet(0 .. m) /\ A \in SUBSET (0 .. m)
    BY FS_Interval
  <2> HIDE DEF A
  <2> QED
    BY <2>1, FS_Subset, FS_CardinalityType
<1>2. 0 \in A
  OBVIOUS
<1>3. IsFiniteSet(B) /\ Cardinality(B) = Cardinality(A) - 1
  <2> HIDE DEF A
  <2> QED
    BY <1>1, <1>2, FS_RemoveElement
<1>4. next \in [A -> B]
  <2>1. ASSUME NEW n \in A
        PROVE  n + 1 \in B
    OBVIOUS
  <2> QED
    BY <2>1
<1>5. PICK x \in A, y \in A : x # y /\ next[x] = next[y]
  <2> HIDE DEF A, B, next
  <2> QED
    BY <1>1, <1>3, <1>4, FS_PigeonHole
<1> QED
  BY <1>5

(* A function on 1 .. n is a sequence of length n.                         *)
LEMMA FcnIsSeq ==
    ASSUME NEW S, NEW n \in Nat, NEW f \in [1 .. n -> S]
    PROVE  f \in Seq(S) /\ Len(f) = n
<1>1. f \in Seq(S)
  BY SeqDef
<1>2. Len(f) \in Nat /\ DOMAIN f = 1 .. Len(f)
  BY <1>1, LenProperties
<1>3. 1 .. n = 1 .. Len(f)
  BY <1>2
<1>4. Len(f) = n
  BY <1>2, <1>3
<1> QED
  BY <1>1, <1>4

\* f lists x, F[x], F[F[x]] and so on, up to the n-th.
IterationOf(f, X, F, x, n) ==
    f \in [0 .. n -> X] /\ f[0] = x /\ \A i \in 1 .. n : f[i] = F[f[i - 1]]

(* A function may be applied to its own result any number of times.  This  *)
(* is where the functions that a module defines by recursion come from.    *)
LEMMA Iterated ==
    ASSUME NEW X, NEW F \in [X -> X], NEW x \in X, NEW n \in Nat
    PROVE  \E f : IterationOf(f, X, F, x, n)
<1> DEFINE Reaches(m, f) == f \in [0 .. m -> X] /\ f[0] = x /\ \A i \in 1 .. m : f[i] = F[f[i - 1]]
           S == {m \in Nat : \E f : Reaches(m, f)}
<1>1. 0 \in S
  <2>1. Reaches(0, [i \in 0 .. 0 |-> x])
    OBVIOUS
  <2> QED
    BY <2>1
<1>2. ASSUME NEW m \in Nat, m \in S
      PROVE  m + 1 \in S
  <2>1. PICK f : Reaches(m, f)
    BY <1>2
  <2> DEFINE g == [i \in 0 .. m + 1 |-> IF i = m + 1 THEN F[f[m]] ELSE f[i]]
  <2>2. Reaches(m + 1, g)
    <3>1. m \in 0 .. m /\ f[m] \in X /\ F[f[m]] \in X
      BY <2>1
    <3>2. g \in [0 .. m + 1 -> X]
      BY <2>1, <3>1
    <3>3. g[0] = x
      BY <2>1
    <3>4. ASSUME NEW i \in 1 .. m + 1
          PROVE  g[i] = F[g[i - 1]]
      <4>1. g[i - 1] = f[i - 1] /\ i - 1 \in 0 .. m
        OBVIOUS
      <4>2. CASE i = m + 1
        BY <4>1, <4>2
      <4>3. CASE i # m + 1
        <5>1. i \in 1 .. m /\ g[i] = f[i]
          BY <4>3
        <5> QED
          BY <2>1, <4>1, <5>1
      <4> QED
        BY <4>2, <4>3
    <3> HIDE DEF g
    <3> QED
      BY <3>2, <3>3, <3>4
  <2> HIDE DEF g, Reaches
  <2> QED
    BY <2>2
<1>3. n \in S
  <2> HIDE DEF S
  <2> QED
    BY <1>1, <1>2, SetInduction
<1> QED
  BY <1>3 DEF IterationOf

\* f lists x and what n steps of G make of it.
StepsOf(f, X, n, G, x) ==
    f \in [0 .. n -> X] /\ f[0] = x /\ \A i \in 1 .. n : f[i] = G[<<f[i - 1], i>>]

(* A value may be carried through n steps, each of which knows its number. *)
LEMMA Stepwise ==
    ASSUME NEW X, NEW n \in Nat, NEW G \in [X \X (1 .. n) -> X], NEW x \in X
    PROVE  \E f : StepsOf(f, X, n, G, x)
<1> DEFINE Y == X \X (0 .. n)
           F == [y \in Y |-> IF y[2] < n THEN <<G[<<y[1], y[2] + 1>>], y[2] + 1>> ELSE y]
<1>1. F \in [Y -> Y] /\ <<x, 0>> \in Y
  <2>1. ASSUME NEW y \in Y
        PROVE  (IF y[2] < n THEN <<G[<<y[1], y[2] + 1>>], y[2] + 1>> ELSE y) \in Y
    <3>1. CASE y[2] < n
      <4>1. y[1] \in X /\ y[2] + 1 \in 1 .. n /\ y[2] + 1 \in 0 .. n
        BY <3>1
      <4>2. <<y[1], y[2] + 1>> \in X \X (1 .. n)
        BY <4>1
      <4>3. G[<<y[1], y[2] + 1>>] \in X
        BY <4>2
      <4> QED
        BY <3>1, <4>1, <4>3
    <3> QED
      BY <3>1
  <2> QED
    BY <2>1
<1>2. PICK g : IterationOf(g, Y, F, <<x, 0>>, n)
  <2> HIDE DEF Y, F
  <2> QED
    BY <1>1, Iterated
<1>3. g \in [0 .. n -> Y] /\ g[0] = <<x, 0>> /\ \A i \in 1 .. n : g[i] = F[g[i - 1]]
  BY <1>2 DEF IterationOf
<1> DEFINE S == {i \in Nat : i <= n => g[i][2] = i}
<1>4. \A i \in 1 .. n : i - 1 \in 0 .. n /\ i - 1 \in Nat /\ i - 1 < n /\ (i - 1) + 1 = i
  OBVIOUS
<1>5. ASSUME NEW i \in 1 .. n, g[i - 1][2] = i - 1
      PROVE  g[i] = <<G[<<g[i - 1][1], i>>], i>>
  <2>1. g[i - 1] \in Y /\ g[i] = F[g[i - 1]]
    BY <1>3, <1>4
  <2> QED
    BY <1>4, <1>5, <2>1
<1>6. Nat \subseteq S
  <2>1. 0 \in S
    BY <1>3
  <2>2. ASSUME NEW i \in Nat, i \in S
        PROVE  i + 1 \in S
    <3> SUFFICES ASSUME i + 1 <= n
                 PROVE  g[i + 1][2] = i + 1
      OBVIOUS
    <3>1. i + 1 \in 1 .. n /\ (i + 1) - 1 = i /\ g[i][2] = i
      BY <2>2
    <3>2. g[i + 1] = <<G[<<g[i][1], i + 1>>], i + 1>>
      BY <1>5, <3>1
    <3> QED
      BY <3>2
  <2> HIDE DEF S
  <2> QED
    BY <2>1, <2>2, SetInduction
<1> DEFINE f == [i \in 0 .. n |-> g[i][1]]
<1> HIDE DEF F
<1>7. f \in [0 .. n -> X] /\ f[0] = x
  BY <1>3
<1>8. ASSUME NEW i \in 1 .. n
      PROVE  f[i] = G[<<f[i - 1], i>>]
  <2>1. i - 1 \in S
    BY <1>4, <1>6
  <2>2. g[i] = <<G[<<g[i - 1][1], i>>], i>>
    BY <1>4, <1>5, <2>1
  <2>3. f[i] = g[i][1] /\ f[i - 1] = g[i - 1][1]
    BY <1>4
  <2>4. g[i][1] = G[<<g[i - 1][1], i>>]
    BY <2>2
  <2> HIDE DEF f
  <2> QED
    BY <2>3, <2>4
<1> HIDE DEF f
<1>9. StepsOf(f, X, n, G, x)
  BY <1>7, <1>8 DEF StepsOf
<1> QED
  BY <1>9

(* A set of numbers that is not empty has a least one.                     *)
LEMMA LeastExists ==
    ASSUME NEW S \in SUBSET Nat, S # {}
    PROVE  Min(S) \in S /\ \A y \in S : Min(S) <= y
<1> DEFINE T == {n \in Nat : \A y \in S : y >= n}
<1>1. \E x \in S : \A y \in S : x <= y
  <2> SUFFICES ASSUME ~ \E x \in S : \A y \in S : x <= y
               PROVE  FALSE
    OBVIOUS
  <2>1. 0 \in T
    OBVIOUS
  <2>2. ASSUME NEW n \in Nat, n \in T
        PROVE  n + 1 \in T
    <3>1. n \notin S
      BY <2>2
    <3>2. ASSUME NEW y \in S
          PROVE  y >= n + 1
      <4>1. y \in Nat /\ y >= n /\ y # n
        BY <2>2, <3>1
      <4> QED
        BY <4>1
    <3> QED
      BY <3>2
  <2>3. Nat \subseteq T
    <3> HIDE DEF T
    <3> QED
      BY <2>1, <2>2, SetInduction
  <2>4. PICK x \in S : TRUE
    OBVIOUS
  <2>5. x + 1 \in Nat /\ x + 1 \in T
    BY <2>3
  <2> QED
    BY <2>5
<1> QED
  BY <1>1 DEF Min

(* Induction along the numbers from 0 to n.                                *)
LEMMA RangeInduction ==
    ASSUME NEW n \in Nat, NEW E, 0 \in E, \A i \in 1 .. n : i - 1 \in E => i \in E
    PROVE  \A i \in 0 .. n : i \in E
<1> DEFINE S == {i \in Nat : i <= n => i \in E}
<1>1. Nat \subseteq S
  <2>1. 0 \in S
    OBVIOUS
  <2>2. ASSUME NEW i \in Nat, i \in S
        PROVE  i + 1 \in S
    <3> SUFFICES ASSUME i + 1 <= n
                 PROVE  i + 1 \in E
      OBVIOUS
    <3>1. i + 1 \in 1 .. n /\ (i + 1) - 1 = i /\ i \in E
      BY <2>2
    <3> QED
      BY <3>1
  <2> HIDE DEF S
  <2> QED
    BY <2>1, <2>2, SetInduction
<1> QED
  BY <1>1
=============================================================================
