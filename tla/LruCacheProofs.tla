--------------------------- MODULE LruCacheProofs ---------------------------
(***************************************************************************)
(* Theorems about LruCache, for every set of keys and values, every number *)
(* of buckets and every hash function.                                     *)
(***************************************************************************)
EXTENDS LruCache, DataLemmas

USE CacheAssumption

-----------------------------------------------------------------------------
(* Type correctness                                                        *)

NodeContents == [key : Keys, value : Values, prev : Pointers, next : Pointers]

CachesOfSize(s) ==
    [node : [Nodes -> NodeContents \cup {Nil}], live : SUBSET Nodes, head : Pointers, tail : Pointers,
     size : s, map : [Buckets -> Pointers], crashed : BOOLEAN]

\* A cache in which every node that is in use has the fields of a node.
Typed(c, s) == c \in CachesOfSize(s) /\ \A n \in c.live : c.node[n] \in NodeContents

TypeInv ==
    /\ Typed(cache, 0 .. Capacity)
    /\ answer \in Values \cup {-1}
    /\ latest \in [Keys -> Values \cup {-1}]
    /\ sound \in BOOLEAN

(* An assignment to a field of a node keeps the types.                     *)
LEMMA AssignType ==
    ASSUME NEW s, NEW c, Typed(c, s), NEW n \in Pointers, NEW p \in Pointers,
           NEW field \in {"prev", "next"}
    PROVE  Typed(Assign(c, n, field, p), s)
<1>1. CASE n \in c.live
  <2> DEFINE d == [c EXCEPT !.node[n][field] = p]
  <2>1. n \in Nodes /\ c.node[n] \in NodeContents
    BY <1>1 DEF Typed, CachesOfSize
  <2>2. [c.node[n] EXCEPT ![field] = p] \in NodeContents
    BY <2>1 DEF NodeContents
  <2>3. d.node = [c.node EXCEPT ![n] = [c.node[n] EXCEPT ![field] = p]] /\ d.live = c.live
    BY DEF Typed, CachesOfSize
  <2>4. d.node \in [Nodes -> NodeContents \cup {Nil}]
    BY <2>2, <2>3 DEF Typed, CachesOfSize
  <2>5. \A m \in d.live : d.node[m] \in NodeContents
    BY <2>1, <2>2, <2>3 DEF Typed, CachesOfSize
  <2>6. d \in CachesOfSize(s)
    BY <2>4 DEF Typed, CachesOfSize
  <2> QED
    BY <1>1, <2>5, <2>6 DEF Assign, Typed
<1>2. CASE n \notin c.live
  BY <1>2 DEF Assign, Typed, CachesOfSize
<1> QED
  BY <1>1, <1>2

(* Moving a node to the front keeps the types.                             *)
LEMMA MoveToFrontType ==
    ASSUME NEW s, NEW c, Typed(c, s), NEW n \in c.live
    PROVE  Typed(MoveToFront(c, n), s)
<1> DEFINE prev == c.node[n].prev
           next == c.node[n].next
           cut == Assign(c, prev, "next", next)
           closed == IF n = c.tail THEN [cut EXCEPT !.tail = prev] ELSE Assign(cut, next, "prev", prev)
           unlinked == Assign(closed, n, "prev", Nil)
           front == Assign(unlinked, n, "next", c.head)
           done == Assign(front, c.head, "prev", n)
<1>1. n \in Pointers /\ prev \in Pointers /\ next \in Pointers /\ c.head \in Pointers /\ Nil \in Pointers
  BY DEF Typed, CachesOfSize, NodeContents, Pointers
<1>2. Typed(cut, s)
  BY <1>1, AssignType
<1>3. Typed(closed, s)
  <2>1. Typed([cut EXCEPT !.tail = prev], s)
    <3> HIDE DEF cut, prev
    <3> QED
      BY <1>1, <1>2 DEF Typed, CachesOfSize
  <2>2. Typed(Assign(cut, next, "prev", prev), s)
    BY <1>1, <1>2, AssignType
  <2> QED
    BY <2>1, <2>2
<1>4. Typed(unlinked, s)
  BY <1>1, <1>3, AssignType
<1>5. Typed(front, s)
  BY <1>1, <1>4, AssignType
<1>6. Typed(done, s)
  BY <1>1, <1>5, AssignType
<1>7. Typed([done EXCEPT !.head = n], s)
  <2> HIDE DEF done
  <2> QED
    BY <1>1, <1>6 DEF Typed, CachesOfSize
<1> QED
  BY <1>7 DEF MoveToFront

(* So does deleting one.                                                   *)
LEMMA DeleteNodeType ==
    ASSUME NEW s, NEW c, Typed(c, s), NEW n \in Pointers
    PROVE  Typed(DeleteNode(c, n), s)
<1>1. CASE n \notin c.live
  BY <1>1 DEF DeleteNode, Typed, CachesOfSize
<1>2. CASE n \in c.live
  <2> DEFINE prev == c.node[n].prev
             next == c.node[n].next
             ends == CASE n = c.head -> [c EXCEPT !.head = next]
                       [] n # c.head /\ n = c.tail -> [c EXCEPT !.tail = prev]
                       [] n # c.head /\ n # c.tail -> c
             before == IF prev = Nil THEN ends ELSE Assign(ends, prev, "next", next)
             after == IF next = Nil THEN before ELSE Assign(before, next, "prev", prev)
  <2>1. prev \in Pointers /\ next \in Pointers /\ n \in Nodes
    BY <1>2 DEF Typed, CachesOfSize, NodeContents
  <2>2. Typed(ends, s)
    <3> HIDE DEF prev, next
    <3>1. Typed([c EXCEPT !.head = next], s) /\ Typed([c EXCEPT !.tail = prev], s)
      BY <2>1 DEF Typed, CachesOfSize
    <3> QED
      BY <3>1
  <2>3. Typed(before, s)
    BY <2>1, <2>2, AssignType
  <2>4. Typed(after, s)
    BY <2>1, <2>3, AssignType
  <2>5. Typed([after EXCEPT !.live = @ \ {n}, !.node[n] = Nil], s)
    <3> HIDE DEF after
    <3> QED
      BY <2>1, <2>4 DEF Typed, CachesOfSize
  <2> QED
    BY <1>2, <2>5 DEF DeleteNode
<1> QED
  BY <1>1, <1>2

(* A new node raises the size by one at most, and not above the capacity:  *)
(* one that would is made up for by the eviction of another.               *)
LEMMA InsertType ==
    ASSUME NEW c, Typed(c, 0 .. Capacity), NEW n \in Nodes \ c.live, NEW k \in Keys, NEW v \in Values
    PROVE  Typed(Insert(c, n, k, v), 0 .. Capacity)
<1> DEFINE contents == [key |-> k, value |-> v, prev |-> Nil, next |-> c.head]
           made == [c EXCEPT !.live = @ \cup {n}, !.node[n] = contents]
           linked == IF c.head = Nil THEN made ELSE Assign(made, c.head, "prev", n)
           added == [linked EXCEPT !.head = n, !.tail = IF @ = Nil THEN n ELSE @, !.size = @ + 1]
<1>1. n \in Pointers /\ c.head \in Pointers
  BY DEF Typed, CachesOfSize, Pointers
<1>2. Typed(made, 0 .. Capacity)
  <2>1. contents \in NodeContents
    BY <1>1 DEF NodeContents, Pointers
  <2> HIDE DEF contents
  <2>2. /\ made.node = [c.node EXCEPT ![n] = contents] /\ made.live = c.live \cup {n}
        /\ made \in CachesOfSize(0 .. Capacity)
    BY <2>1 DEF Typed, CachesOfSize
  <2>3. \A m \in made.live : made.node[m] \in NodeContents
    BY <2>1, <2>2 DEF Typed, CachesOfSize
  <2> QED
    BY <2>2, <2>3 DEF Typed
<1>3. Typed(linked, 0 .. Capacity)
  <2> HIDE DEF made
  <2> QED
    BY <1>1, <1>2, AssignType
<1>4. Typed(added, 0 .. Capacity + 1)
  <2> HIDE DEF linked
  <2>1. linked.size + 1 \in 0 .. Capacity + 1
    BY <1>3 DEF Typed, CachesOfSize
  <2>2. added \in CachesOfSize(0 .. Capacity + 1) /\ added.live = linked.live /\ added.node = linked.node
    BY <1>1, <1>3, <2>1 DEF Typed, CachesOfSize
  <2> QED
    BY <1>3, <2>2 DEF Typed
<1>5. Typed(Evict(added), 0 .. Capacity)
  <2> HIDE DEF added
  <2>1. CASE added.size > Capacity
    <3>1. added.size = Capacity + 1
      BY <1>4, <2>1 DEF Typed, CachesOfSize
    <3>2. added \in CachesOfSize({Capacity + 1}) /\ added.tail \in Pointers
      BY <1>4, <3>1 DEF Typed, CachesOfSize
    <3>3. Typed(DeleteNode(added, added.tail), {Capacity + 1})
      BY <1>4, <3>2, DeleteNodeType DEF Typed
    <3>4. Typed([DeleteNode(added, added.tail) EXCEPT !.size = @ - 1], 0 .. Capacity)
      BY <3>3 DEF Typed, CachesOfSize
    <3> QED
      BY <2>1, <3>4 DEF Evict
  <2>2. CASE ~ (added.size > Capacity)
    BY <1>4, <2>2 DEF Evict, Typed, CachesOfSize
  <2> QED
    BY <2>1, <2>2
<1>6. Typed([Evict(added) EXCEPT !.map[Bucket[k]] = n], 0 .. Capacity)
  <2> HIDE DEF added
  <2> QED
    BY <1>1, <1>5 DEF Typed, CachesOfSize
<1> QED
  BY <1>6 DEF Insert

(* create_cache leaves an empty cache.                                     *)
LEMMA InitType == Init => TypeInv
  BY DEF Init, TypeInv, Typed, CachesOfSize, Pointers, Buckets

(* Every operation keeps the types, of the unsound caches as well.         *)
LEMMA StepType == TypeInv /\ [Next]_vars => TypeInv'
<1> SUFFICES ASSUME TypeInv, [Next]_vars
             PROVE  TypeInv'
  OBVIOUS
<1>1. ASSUME NEW k \in Keys, NEW v \in Values, SetCache(k, v), sound' \in BOOLEAN
      PROVE  TypeInv'
  <2>1. v \in Values \cup {-1} /\ -1 \in Values \cup {-1}
    OBVIOUS
  <2>2. CASE /\ Found(k) \in cache.live
             /\ cache' = MoveToFront([cache EXCEPT !.node[Found(k)].value = v], Found(k))
             /\ latest' = [latest EXCEPT ![k] = v]
             /\ answer' = -1
    <3> DEFINE n == Found(k)
               c == [cache EXCEPT !.node[n].value = v]
    <3> HIDE DEF n
    <3>1. n \in cache.live /\ n \in Nodes
      BY <2>2 DEF TypeInv, Typed, CachesOfSize, n
    <3>2. [cache.node[n] EXCEPT !.value = v] \in NodeContents
      BY <3>1 DEF TypeInv, Typed, NodeContents
    <3>3. Typed(c, 0 .. Capacity) /\ n \in c.live
      BY <3>1, <3>2 DEF TypeInv, Typed, CachesOfSize
    <3>4. Typed(MoveToFront(c, n), 0 .. Capacity)
      <4> HIDE DEF c
      <4> QED
        BY <3>3, MoveToFrontType
    <3> QED
      BY <1>1, <2>1, <2>2, <3>4 DEF TypeInv, n
  <2>3. CASE /\ Found(k) = Nil
             /\ \E n \in Nodes \ cache.live : cache' = Insert(cache, n, k, v)
             /\ latest' = [latest EXCEPT ![k] = v]
             /\ answer' = -1
    BY <1>1, <2>1, <2>3, InsertType DEF TypeInv
  <2>4. CASE Found(k) \notin cache.live \cup {Nil} /\ Crash
    BY <1>1, <2>4 DEF Crash, TypeInv, Typed, CachesOfSize
  <2> QED
    BY <1>1, <2>2, <2>3, <2>4 DEF SetCache
<1>2. ASSUME NEW k \in Keys, GetCache(k), sound' \in BOOLEAN
      PROVE  TypeInv'
  <2>1. CASE /\ Found(k) \in cache.live
             /\ cache' = MoveToFront(cache, Found(k))
             /\ answer' = cache.node[Found(k)].value
             /\ UNCHANGED latest
    <3>1. cache.node[Found(k)].value \in Values
      BY <2>1 DEF TypeInv, Typed, NodeContents
    <3>2. Typed(cache', 0 .. Capacity)
      BY <2>1, MoveToFrontType DEF TypeInv
    <3> QED
      BY <1>2, <2>1, <3>1, <3>2 DEF TypeInv
  <2>2. CASE Found(k) = Nil /\ answer' = -1 /\ UNCHANGED <<cache, latest>>
    BY <1>2, <2>2 DEF TypeInv
  <2>3. CASE Found(k) \notin cache.live \cup {Nil} /\ Crash
    BY <1>2, <2>3 DEF Crash, TypeInv, Typed, CachesOfSize
  <2> QED
    BY <1>2, <2>1, <2>2, <2>3 DEF GetCache
<1>3. ASSUME NEW k \in Keys, PopCache(k), sound' \in BOOLEAN
      PROVE  TypeInv'
  <2>1. CASE /\ Found(k) \in cache.live
             /\ cache' = [DeleteNode(cache, Found(k)) EXCEPT !.map[Bucket[k]] = Nil]
             /\ latest' = [latest EXCEPT ![k] = -1]
             /\ answer' = -1
    <3> DEFINE c == DeleteNode(cache, Found(k))
    <3>1. Typed(c, 0 .. Capacity)
      <4>1. Typed(cache, 0 .. Capacity)
        BY DEF TypeInv
      <4>2. Found(k) \in Pointers
        BY <2>1, <4>1 DEF Typed, CachesOfSize, Pointers
      <4> QED
        BY <4>1, <4>2, DeleteNodeType
    <3>2. Typed([c EXCEPT !.map[Bucket[k]] = Nil], 0 .. Capacity)
      <4> HIDE DEF c
      <4> QED
        <5>1. Nil \in Pointers
          BY DEF Pointers
        <5>2. c.map \in [Buckets -> Pointers]
          BY <3>1 DEF Typed, CachesOfSize
        <5>3. [c.map EXCEPT ![Bucket[k]] = Nil] \in [Buckets -> Pointers]
          BY <5>1, <5>2
        <5> DEFINE emptied == [c.map EXCEPT ![Bucket[k]] = Nil]
        <5>4. [c EXCEPT !.map[Bucket[k]] = Nil] = [c EXCEPT !.map = emptied]
          BY <3>1 DEF Typed, CachesOfSize
        <5> HIDE DEF emptied
        <5>5. Typed([c EXCEPT !.map = emptied], 0 .. Capacity)
          BY <3>1, <5>3 DEF Typed, CachesOfSize, emptied
        <5> QED
          BY <5>4, <5>5
    <3> QED
      BY <1>3, <2>1, <3>2 DEF TypeInv
  <2>2. CASE Found(k) = Nil /\ latest' = [latest EXCEPT ![k] = -1] /\ answer' = -1 /\ UNCHANGED cache
    BY <1>3, <2>2 DEF TypeInv
  <2>3. CASE Found(k) \notin cache.live \cup {Nil} /\ Crash
    BY <1>3, <2>3 DEF Crash, TypeInv, Typed, CachesOfSize
  <2> QED
    BY <1>3, <2>1, <2>2, <2>3 DEF PopCache
<1>4. CASE UNCHANGED vars
  BY <1>4 DEF vars, TypeInv
<1>5. CASE Next
  <2>1. sound' \in BOOLEAN
    BY <1>5 DEF Next
  <2> QED
    BY <1>1, <1>2, <1>3, <1>5, <2>1 DEF Next
<1> QED
  BY <1>4, <1>5

-----------------------------------------------------------------------------
(* The number of nodes                                                     *)

\* What an assignment to a node of c may leave: the same nodes, and a crash remains one.
SameCount(c, d) == d.live = c.live /\ d.size = c.size /\ (c.crashed => d.crashed)

\* The size counts every node, until the memory of a freed one is used.
Counted(c) == c.crashed \/ Cardinality(c.live) <= c.size

CountInv == Counted(cache)

(* An assignment to a field of a node frees and makes none.                *)
LEMMA AssignCount ==
    ASSUME NEW s, NEW c, Typed(c, s), NEW n, NEW p, NEW field \in {"prev", "next"}
    PROVE  SameCount(c, Assign(c, n, field, p))
  BY DEF SameCount, Assign, Typed, CachesOfSize

(* Nor does moving a node to the front.                                    *)
LEMMA MoveToFrontCount ==
    ASSUME NEW s, NEW c, Typed(c, s), NEW n \in c.live
    PROVE  SameCount(c, MoveToFront(c, n))
<1> DEFINE prev == c.node[n].prev
           next == c.node[n].next
           cut == Assign(c, prev, "next", next)
           closed == IF n = c.tail THEN [cut EXCEPT !.tail = prev] ELSE Assign(cut, next, "prev", prev)
           unlinked == Assign(closed, n, "prev", Nil)
           front == Assign(unlinked, n, "next", c.head)
           done == Assign(front, c.head, "prev", n)
<1>1. n \in Pointers /\ prev \in Pointers /\ next \in Pointers /\ c.head \in Pointers /\ Nil \in Pointers
  BY DEF Typed, CachesOfSize, NodeContents, Pointers
<1>2. Typed(cut, s) /\ SameCount(c, cut)
  BY <1>1, AssignType, AssignCount
<1>3. Typed(closed, s) /\ SameCount(c, closed)
  <2>1. Typed([cut EXCEPT !.tail = prev], s) /\ SameCount(c, [cut EXCEPT !.tail = prev])
    <3> HIDE DEF cut, prev
    <3> QED
      BY <1>1, <1>2 DEF Typed, CachesOfSize, SameCount
  <2>2. Typed(Assign(cut, next, "prev", prev), s) /\ SameCount(cut, Assign(cut, next, "prev", prev))
    BY <1>1, <1>2, AssignType, AssignCount
  <2> HIDE DEF cut
  <2> QED
    BY <1>2, <2>1, <2>2 DEF SameCount
<1>4. Typed(unlinked, s) /\ SameCount(closed, unlinked)
  BY <1>1, <1>3, AssignType, AssignCount
<1>5. Typed(front, s) /\ SameCount(unlinked, front)
  BY <1>1, <1>4, AssignType, AssignCount
<1>6. Typed(done, s) /\ SameCount(front, done)
  BY <1>1, <1>5, AssignType, AssignCount
<1>7. SameCount(c, [done EXCEPT !.head = n])
  <2> HIDE DEF closed, unlinked, front, done
  <2> QED
    BY <1>3, <1>4, <1>5, <1>6 DEF SameCount, Typed, CachesOfSize
<1>8. SameCount(c, c)
  BY DEF SameCount
<1> QED
  BY <1>7, <1>8 DEF MoveToFront

(* Deleting a node in use leaves the others; deleting another one crashes. *)
LEMMA DeleteNodeCount ==
    ASSUME NEW s, NEW c, Typed(c, s), NEW n \in Pointers
    PROVE  LET d == DeleteNode(c, n)
           IN  /\ d.size = c.size /\ (c.crashed => d.crashed)
               /\ d.crashed \/ (n \in c.live /\ d.live = c.live \ {n})
<1>1. CASE n \notin c.live
  BY <1>1 DEF DeleteNode, Typed, CachesOfSize
<1>2. CASE n \in c.live
  <2> DEFINE prev == c.node[n].prev
             next == c.node[n].next
             ends == CASE n = c.head -> [c EXCEPT !.head = next]
                       [] n # c.head /\ n = c.tail -> [c EXCEPT !.tail = prev]
                       [] n # c.head /\ n # c.tail -> c
             before == IF prev = Nil THEN ends ELSE Assign(ends, prev, "next", next)
             after == IF next = Nil THEN before ELSE Assign(before, next, "prev", prev)
  <2>1. prev \in Pointers /\ next \in Pointers /\ n \in Nodes
    BY <1>2 DEF Typed, CachesOfSize, NodeContents
  <2>2. Typed(ends, s) /\ SameCount(c, ends)
    <3> HIDE DEF prev, next
    <3>1. Typed([c EXCEPT !.head = next], s) /\ Typed([c EXCEPT !.tail = prev], s)
      BY <2>1 DEF Typed, CachesOfSize
    <3>2. SameCount(c, [c EXCEPT !.head = next]) /\ SameCount(c, [c EXCEPT !.tail = prev]) /\ SameCount(c, c)
      BY DEF Typed, CachesOfSize, SameCount
    <3> QED
      BY <3>1, <3>2
  <2>3. Typed(before, s) /\ SameCount(c, before)
    <3> HIDE DEF prev, next, ends
    <3>1. Typed(Assign(ends, prev, "next", next), s) /\ SameCount(ends, Assign(ends, prev, "next", next))
      BY <2>1, <2>2, AssignType, AssignCount
    <3> QED
      BY <2>2, <3>1 DEF SameCount
  <2>4. Typed(after, s) /\ SameCount(c, after)
    <3> HIDE DEF prev, next, before
    <3>1. Typed(Assign(before, next, "prev", prev), s) /\ SameCount(before, Assign(before, next, "prev", prev))
      BY <2>1, <2>3, AssignType, AssignCount
    <3> QED
      BY <2>3, <3>1 DEF SameCount
  <2> DEFINE gone == [after EXCEPT !.live = @ \ {n}, !.node[n] = Nil]
  <2>5. gone.size = c.size /\ (c.crashed => gone.crashed) /\ gone.live = c.live \ {n}
    <3> HIDE DEF after
    <3> QED
      BY <2>4 DEF Typed, CachesOfSize, SameCount
  <2>6. DeleteNode(c, n) = gone
    BY <1>2 DEF DeleteNode
  <2> HIDE DEF gone
  <2> QED
    BY <1>2, <2>5, <2>6
<1> QED
  BY <1>1, <1>2

(* Nodes in use are nodes, so they can be counted.                         *)
LEMMA LiveCount ==
    ASSUME NEW s, NEW c, Typed(c, s)
    PROVE  /\ IsFiniteSet(c.live) /\ Cardinality(c.live) \in Nat
           /\ \A n \in c.live : Cardinality(c.live \ {n}) = Cardinality(c.live) - 1
           /\ \A n \in Nodes \ c.live : Cardinality(c.live \cup {n}) = Cardinality(c.live) + 1
<1>1. IsFiniteSet(c.live)
  BY FS_Subset DEF Typed, CachesOfSize
<1> QED
  BY <1>1, FS_AddElement, FS_RemoveElement, FS_CardinalityType

(* A new node is counted, and with an evicted one goes its count.          *)
LEMMA InsertCount ==
    ASSUME NEW c, Typed(c, 0 .. Capacity), Counted(c), NEW n \in Nodes \ c.live, NEW k \in Keys, NEW v \in Values
    PROVE  Counted(Insert(c, n, k, v))
<1> DEFINE contents == [key |-> k, value |-> v, prev |-> Nil, next |-> c.head]
           made == [c EXCEPT !.live = @ \cup {n}, !.node[n] = contents]
           linked == IF c.head = Nil THEN made ELSE Assign(made, c.head, "prev", n)
           added == [linked EXCEPT !.head = n, !.tail = IF @ = Nil THEN n ELSE @, !.size = @ + 1]
           size == c.size + 1
<1>1. n \in Pointers /\ c.head \in Pointers /\ size \in 1 .. Capacity + 1
  BY DEF Typed, CachesOfSize, Pointers
<1>2. /\ Typed(made, 0 .. Capacity)
      /\ made.live = c.live \cup {n} /\ made.size = c.size /\ made.crashed = c.crashed
  <2>1. contents \in NodeContents
    BY <1>1 DEF NodeContents, Pointers
  <2> HIDE DEF contents
  <2>2. /\ made.node = [c.node EXCEPT ![n] = contents] /\ made.live = c.live \cup {n}
        /\ made \in CachesOfSize(0 .. Capacity) /\ made.size = c.size /\ made.crashed = c.crashed
    BY <2>1 DEF Typed, CachesOfSize
  <2>3. \A m \in made.live : made.node[m] \in NodeContents
    BY <2>1, <2>2 DEF Typed, CachesOfSize
  <2> QED
    BY <2>2, <2>3 DEF Typed
<1>3. Typed(linked, 0 .. Capacity) /\ SameCount(made, linked)
  <2> HIDE DEF made
  <2>1. SameCount(made, made)
    BY DEF SameCount
  <2> QED
    BY <1>1, <1>2, <2>1, AssignType, AssignCount
<1>4. /\ Typed(added, {size}) /\ added.live = c.live \cup {n}
      /\ added.size = size /\ (c.crashed => added.crashed) /\ added.tail \in Pointers
  <2> HIDE DEF made, linked
  <2>1. /\ added.live = linked.live /\ added.node = linked.node /\ added.size = linked.size + 1
        /\ added.crashed = linked.crashed /\ added.tail \in Pointers
    BY <1>1, <1>3 DEF Typed, CachesOfSize
  <2>2. added.size = size /\ added.live = c.live \cup {n}
    BY <1>2, <1>3, <2>1 DEF SameCount
  <2>3. added \in CachesOfSize({size})
    BY <1>1, <1>2, <1>3, <2>2 DEF Typed, CachesOfSize, SameCount
  <2> QED
    BY <1>2, <1>3, <2>1, <2>2, <2>3 DEF Typed, SameCount
<1> HIDE DEF added
<1>5. Cardinality(c.live \cup {n}) = Cardinality(c.live) + 1
  BY LiveCount
<1>6. Cardinality(c.live) \in Nat
  BY LiveCount
<1>7. Counted(added)
  BY <1>1, <1>4, <1>5, <1>6 DEF Counted, Typed, CachesOfSize
<1>8. Counted(Evict(added))
  <2>1. CASE added.size > Capacity
    <3> DEFINE d == DeleteNode(added, added.tail)
    <3>1. /\ d.size = added.size /\ (added.crashed => d.crashed)
          /\ d.crashed \/ (added.tail \in added.live /\ d.live = added.live \ {added.tail})
      BY <1>4, DeleteNodeCount
    <3>2. Typed(d, {size})
      BY <1>4, DeleteNodeType
    <3>3. added.tail \in added.live =>
             Cardinality(added.live \ {added.tail}) = Cardinality(added.live) - 1
      BY <1>4, LiveCount
    <3>4. Cardinality(added.live) \in Nat
      BY <1>4, LiveCount
    <3> HIDE DEF d
    <3> DEFINE e == [d EXCEPT !.size = @ - 1]
    <3>5. e.size = d.size - 1 /\ e.live = d.live /\ e.crashed = d.crashed
      BY <3>2 DEF Typed, CachesOfSize
    <3>6. Evict(added) = e
      BY <2>1 DEF Evict, d
    <3> HIDE DEF e
    <3>7. CASE d.crashed
      BY <3>5, <3>6, <3>7 DEF Counted
    <3>8. CASE ~ d.crashed
      <4>1. ~ added.crashed /\ Cardinality(added.live) <= size /\ Cardinality(d.live) = Cardinality(added.live) - 1
        BY <1>4, <1>7, <3>1, <3>3, <3>8 DEF Counted
      <4>2. e.size = size - 1
        BY <1>4, <3>1, <3>5
      <4>3. Cardinality(e.live) <= e.size
        BY <1>1, <3>4, <3>5, <4>1, <4>2
      <4> QED
        BY <3>6, <4>3 DEF Counted
    <3> QED
      BY <3>7, <3>8
  <2>2. CASE ~ (added.size > Capacity)
    BY <1>7, <2>2 DEF Evict
  <2> QED
    BY <2>1, <2>2
<1>9. Typed(Evict(added), {size, size - 1})
  <2>1. CASE added.size > Capacity
    <3>1. Typed(DeleteNode(added, added.tail), {size})
      BY <1>4, DeleteNodeType
    <3>2. Typed([DeleteNode(added, added.tail) EXCEPT !.size = @ - 1], {size, size - 1})
      BY <3>1 DEF Typed, CachesOfSize
    <3> QED
      BY <2>1, <3>2 DEF Evict
  <2>2. CASE ~ (added.size > Capacity)
    BY <1>4, <2>2 DEF Evict, Typed, CachesOfSize
  <2> QED
    BY <2>1, <2>2
<1>10. Counted([Evict(added) EXCEPT !.map[Bucket[k]] = n])
  <2> DEFINE d == Evict(added)
  <2> HIDE DEF d
  <2>1. Typed(d, {size, size - 1}) /\ Counted(d)
    BY <1>8, <1>9 DEF d
  <2>2. Counted([d EXCEPT !.map[Bucket[k]] = n])
    BY <2>1 DEF Counted, Typed, CachesOfSize
  <2> QED
    BY <2>2 DEF d
<1> QED
  BY <1>10 DEF Insert, added

(* Every operation keeps the count: insertions and evictions change both,  *)
(* a pop leaves the size and frees a node.                                 *)
LEMMA StepCount == TypeInv /\ CountInv /\ [Next]_vars => CountInv'
<1> SUFFICES ASSUME TypeInv, Counted(cache), [Next]_vars
             PROVE  Counted(cache')
  BY DEF CountInv
<1>1. Typed(cache, 0 .. Capacity)
  BY DEF TypeInv
<1>2. Crash => Counted(cache')
  BY <1>1 DEF Crash, Counted, Typed, CachesOfSize
<1>3. ASSUME NEW k \in Keys, NEW v \in Values, SetCache(k, v)
      PROVE  Counted(cache')
  <2>1. CASE /\ Found(k) \in cache.live
             /\ cache' = MoveToFront([cache EXCEPT !.node[Found(k)].value = v], Found(k))
    <3> DEFINE n == Found(k)
               c == [cache EXCEPT !.node[n].value = v]
    <3> HIDE DEF n
    <3>1. n \in cache.live /\ n \in Nodes
      BY <1>1, <2>1 DEF Typed, CachesOfSize, n
    <3>2. [cache.node[n] EXCEPT !.value = v] \in NodeContents
      BY <1>1, <3>1 DEF Typed, NodeContents
    <3>3. Typed(c, 0 .. Capacity) /\ n \in c.live /\ SameCount(cache, c)
      BY <1>1, <3>1, <3>2 DEF Typed, CachesOfSize, SameCount
    <3>4. SameCount(c, MoveToFront(c, n))
      <4> HIDE DEF c
      <4> QED
        BY <3>3, MoveToFrontCount
    <3>5. cache' = MoveToFront(c, n)
      BY <2>1 DEF n
    <3> HIDE DEF c
    <3> QED
      BY <3>3, <3>4, <3>5 DEF SameCount, Counted
  <2>2. CASE \E n \in Nodes \ cache.live : cache' = Insert(cache, n, k, v)
    BY <1>1, <2>2, InsertCount
  <2> QED
    BY <1>2, <1>3, <2>1, <2>2 DEF SetCache
<1>4. ASSUME NEW k \in Keys, GetCache(k)
      PROVE  Counted(cache')
  <2>1. CASE Found(k) \in cache.live /\ cache' = MoveToFront(cache, Found(k))
    BY <1>1, <2>1, MoveToFrontCount DEF SameCount, Counted
  <2> QED
    BY <1>2, <1>4, <2>1 DEF GetCache
<1>5. ASSUME NEW k \in Keys, PopCache(k)
      PROVE  Counted(cache')
  <2>1. CASE /\ Found(k) \in cache.live
             /\ cache' = [DeleteNode(cache, Found(k)) EXCEPT !.map[Bucket[k]] = Nil]
    <3> DEFINE n == Found(k)
               d == DeleteNode(cache, n)
               e == [d EXCEPT !.map[Bucket[k]] = Nil]
    <3> HIDE DEF n
    <3>1. n \in cache.live /\ n \in Pointers
      BY <1>1, <2>1 DEF Typed, CachesOfSize, Pointers, n
    <3>2. d.size = cache.size /\ (cache.crashed => d.crashed) /\ (d.crashed \/ d.live = cache.live \ {n})
      BY <1>1, <3>1, DeleteNodeCount
    <3>3. Typed(d, 0 .. Capacity)
      BY <1>1, <3>1, DeleteNodeType
    <3>4. Cardinality(cache.live \ {n}) = Cardinality(cache.live) - 1 /\ Cardinality(cache.live) \in Nat
      BY <1>1, <3>1, LiveCount
    <3>5. cache' = e
      BY <2>1 DEF n
    <3> HIDE DEF d
    <3>6. e.live = d.live /\ e.size = d.size /\ e.crashed = d.crashed
      BY <3>3 DEF Typed, CachesOfSize
    <3>7. cache.size \in Nat
      BY <1>1 DEF Typed, CachesOfSize
    <3> HIDE DEF e
    <3> QED
      BY <3>2, <3>4, <3>5, <3>6, <3>7 DEF Counted
  <2> QED
    BY <1>2, <1>5, <2>1 DEF PopCache
<1>6. CASE UNCHANGED vars
  BY <1>6 DEF vars
<1> QED
  BY <1>3, <1>4, <1>5, <1>6 DEF Next

(* Every node in use has a key and a value, and until a freed node is used *)
(* there are never more nodes than the capacity: pops, which leave the size*)
(* as it is, only make the count of the program too large.                 *)
THEOREM TypeCorrect == Spec => []TypeOK
<1>1. Init => CountInv
  BY FS_EmptySet DEF Init, Counted, CountInv
<1>2. Spec => [](TypeInv /\ CountInv)
  BY <1>1, InitType, StepType, StepCount, PTL DEF Spec
<1>3. TypeInv /\ CountInv => TypeOK
  BY DEF TypeInv, Typed, CachesOfSize, TypeOK, NodeContents, Counted, CountInv
<1> QED
  BY <1>2, <1>3, PTL

-----------------------------------------------------------------------------
(* The list                                                                *)

\* The i-th of the nodes q, and NULL before the first and behind the last.
At(q, i) == IF i \in 1 .. Len(q) THEN q[i] ELSE Nil

\* The nodes in use are q, in this order from head to tail.
LinkedBy(c, q) ==
    /\ q \in Seq(c.live)
    /\ \A i, j \in 1 .. Len(q) : q[i] = q[j] => i = j
    /\ \A n \in c.live : \E i \in 1 .. Len(q) : q[i] = n
    /\ c.head = At(q, 1) /\ c.tail = At(q, Len(q))
    /\ \A i \in 1 .. Len(q) : c.node[q[i]].prev = At(q, i - 1) /\ c.node[q[i]].next = At(q, i + 1)

\* d is c but for its tail and the links between its nodes, which are now next and prev.
Relinked(d, c, next, prev) ==
    /\ next \in [c.live -> Pointers] /\ prev \in [c.live -> Pointers]
    /\ d.live = c.live /\ d.head = c.head /\ d.size = c.size /\ d.map = c.map /\ d.crashed = c.crashed
    /\ \A m \in c.live : /\ d.node[m].key = c.node[m].key /\ d.node[m].value = c.node[m].value
                         /\ d.node[m].next = next[m] /\ d.node[m].prev = prev[m]

(* An assignment to next changes that pointer and nothing else.            *)
LEMMA AssignNext ==
    ASSUME NEW s, NEW c, NEW d, Typed(d, s), NEW next, NEW prev, Relinked(d, c, next, prev),
           NEW n \in c.live, NEW p \in Pointers
    PROVE  /\ Relinked(Assign(d, n, "next", p), c, [next EXCEPT ![n] = p], prev)
           /\ Typed(Assign(d, n, "next", p), s) /\ Assign(d, n, "next", p).tail = d.tail
<1> DEFINE e == [d EXCEPT !.node[n]["next"] = p]
<1>1. n \in Nodes /\ n \in d.live
  BY DEF Typed, CachesOfSize, Relinked
<1>2. /\ e.live = d.live /\ e.head = d.head /\ e.size = d.size /\ e.map = d.map
      /\ e.crashed = d.crashed /\ e.tail = d.tail
      /\ e.node = [d.node EXCEPT ![n] = [d.node[n] EXCEPT !["next"] = p]]
  BY DEF Typed, CachesOfSize
<1>3. d.node[n] \in NodeContents /\ \A m \in d.live : m \in Nodes
  BY <1>1 DEF Typed, CachesOfSize
<1>4. ASSUME NEW m \in c.live
      PROVE  /\ e.node[m].key = d.node[m].key /\ e.node[m].value = d.node[m].value
             /\ e.node[m].prev = d.node[m].prev
             /\ e.node[m].next = IF m = n THEN p ELSE d.node[m].next
  <2>1. m \in Nodes
    BY <1>3 DEF Relinked
  <2>2. CASE m = n
    <3>1. e.node[m] = [d.node[n] EXCEPT !["next"] = p]
      BY <1>1, <1>2, <2>2 DEF Typed, CachesOfSize
    <3> QED
      BY <1>3, <2>2, <3>1 DEF NodeContents
  <2>3. CASE m # n
    <3>1. e.node[m] = d.node[m]
      BY <1>2, <2>1, <2>3 DEF Typed, CachesOfSize
    <3> QED
      BY <2>3, <3>1
  <2> QED
    BY <2>2, <2>3
<1>5. Assign(d, n, "next", p) = e
  BY <1>1 DEF Assign
<1> HIDE DEF e
<1> DEFINE f == [next EXCEPT ![n] = p]
<1>6. f \in [c.live -> Pointers] /\ \A m \in c.live : f[m] = IF m = n THEN p ELSE next[m]
  BY DEF Relinked
<1> HIDE DEF f
<1>7. Relinked(e, c, f, prev) /\ e.tail = d.tail
  BY <1>2, <1>4, <1>6 DEF Relinked
<1>8. Typed(e, s)
  BY <1>1, <1>5, AssignType DEF Pointers
<1> QED
  BY <1>5, <1>7, <1>8 DEF f

(* An assignment to prev likewise.                                         *)
LEMMA AssignPrev ==
    ASSUME NEW s, NEW c, NEW d, Typed(d, s), NEW next, NEW prev, Relinked(d, c, next, prev),
           NEW n \in c.live, NEW p \in Pointers
    PROVE  /\ Relinked(Assign(d, n, "prev", p), c, next, [prev EXCEPT ![n] = p])
           /\ Typed(Assign(d, n, "prev", p), s) /\ Assign(d, n, "prev", p).tail = d.tail
<1> DEFINE e == [d EXCEPT !.node[n]["prev"] = p]
<1>1. n \in Nodes /\ n \in d.live
  BY DEF Typed, CachesOfSize, Relinked
<1>2. /\ e.live = d.live /\ e.head = d.head /\ e.size = d.size /\ e.map = d.map
      /\ e.crashed = d.crashed /\ e.tail = d.tail
      /\ e.node = [d.node EXCEPT ![n] = [d.node[n] EXCEPT !["prev"] = p]]
  BY DEF Typed, CachesOfSize
<1>3. d.node[n] \in NodeContents /\ \A m \in d.live : m \in Nodes
  BY <1>1 DEF Typed, CachesOfSize
<1>4. ASSUME NEW m \in c.live
      PROVE  /\ e.node[m].key = d.node[m].key /\ e.node[m].value = d.node[m].value
             /\ e.node[m].next = d.node[m].next
             /\ e.node[m].prev = IF m = n THEN p ELSE d.node[m].prev
  <2>1. m \in Nodes
    BY <1>3 DEF Relinked
  <2>2. CASE m = n
    <3>1. e.node[m] = [d.node[n] EXCEPT !["prev"] = p]
      BY <1>1, <1>2, <2>2 DEF Typed, CachesOfSize
    <3> QED
      BY <1>3, <2>2, <3>1 DEF NodeContents
  <2>3. CASE m # n
    <3>1. e.node[m] = d.node[m]
      BY <1>2, <2>1, <2>3 DEF Typed, CachesOfSize
    <3> QED
      BY <2>3, <3>1
  <2> QED
    BY <2>2, <2>3
<1>5. Assign(d, n, "prev", p) = e
  BY <1>1 DEF Assign
<1> HIDE DEF e
<1> DEFINE f == [prev EXCEPT ![n] = p]
<1>6. f \in [c.live -> Pointers] /\ \A m \in c.live : f[m] = IF m = n THEN p ELSE prev[m]
  BY DEF Relinked
<1> HIDE DEF f
<1>7. Relinked(e, c, next, f) /\ e.tail = d.tail
  BY <1>2, <1>4, <1>6 DEF Relinked
<1>8. Typed(e, s)
  BY <1>1, <1>5, AssignType DEF Pointers
<1> QED
  BY <1>5, <1>7, <1>8 DEF f

Moved(q, j) == [i \in 1 .. Len(q) |-> IF i = 1 THEN q[j] ELSE IF i <= j THEN q[i - 1] ELSE q[i]]

\* Keys, values and the rest of the cache are as they were.
SameContents(d, c) ==
    /\ d.live = c.live /\ d.size = c.size /\ d.map = c.map /\ d.crashed = c.crashed
    /\ \A m \in c.live : d.node[m].key = c.node[m].key /\ d.node[m].value = c.node[m].value

(* What a linked list says of the pointers of its nodes, type included.    *)
LEMMA LinkedFacts ==
    ASSUME NEW s, NEW c, Typed(c, s), NEW q, LinkedBy(c, q)
    PROVE  /\ Len(q) \in Nat /\ q \in [1 .. Len(q) -> c.live]
           /\ \A i \in 1 .. Len(q) : q[i] \in c.live /\ q[i] \in Nodes /\ q[i] # Nil
           /\ \A i \in Int : At(q, i) \in Pointers
<1>1. Len(q) \in Nat /\ q \in [1 .. Len(q) -> c.live]
  BY LenProperties DEF LinkedBy
<1>2. c.live \subseteq Nodes
  BY DEF Typed, CachesOfSize
<1> QED
  BY <1>1, <1>2 DEF At, Pointers

(* A node that was used is taken out of the list and put at its head.      *)
LEMMA MoveToFrontLinked ==
    ASSUME NEW s, NEW c, Typed(c, s), NEW q, LinkedBy(c, q), NEW j \in 1 .. Len(q)
    PROVE  /\ LinkedBy(MoveToFront(c, q[j]), Moved(q, j))
           /\ SameContents(MoveToFront(c, q[j]), c)
<1> DEFINE n == q[j]
           len == Len(q)
<1>1. /\ len \in Nat /\ q \in [1 .. len -> c.live]
      /\ \A i \in 1 .. len : q[i] \in c.live /\ q[i] \in Nodes /\ q[i] # Nil
      /\ \A i \in Int : At(q, i) \in Pointers
  BY LinkedFacts
<1>2. /\ \A i, k \in 1 .. len : q[i] = q[k] => i = k
      /\ \A m \in c.live : \E i \in 1 .. len : q[i] = m
      /\ c.head = At(q, 1) /\ c.tail = At(q, len)
      /\ \A i \in 1 .. len : c.node[q[i]].prev = At(q, i - 1) /\ c.node[q[i]].next = At(q, i + 1)
  BY DEF LinkedBy
<1> HIDE DEF len
<1>3. CASE j = 1
  <2>1. c.head = n
    BY <1>1, <1>2, <1>3 DEF At, len
  <2>2. Moved(q, j) = q
    BY <1>1, <1>3 DEF Moved, len
  <2> QED
    BY <2>1, <2>2 DEF MoveToFront, SameContents
<1>4. CASE j # 1
  <2> DEFINE p == q[j - 1]
             x == At(q, j + 1)
             h == q[1]
             cut == Assign(c, p, "next", x)
             closed == IF n = c.tail THEN [cut EXCEPT !.tail = p] ELSE Assign(cut, x, "prev", p)
             unlinked == Assign(closed, n, "prev", Nil)
             front == Assign(unlinked, n, "next", h)
             done == Assign(front, h, "prev", n)
             next0 == [m \in c.live |-> c.node[m].next]
             prev0 == [m \in c.live |-> c.node[m].prev]
             next1 == [next0 EXCEPT ![p] = x]
             prev1 == IF j = len THEN prev0 ELSE [prev0 EXCEPT ![x] = p]
             prev2 == [prev1 EXCEPT ![n] = Nil]
             next2 == [next1 EXCEPT ![n] = h]
             prev3 == [prev2 EXCEPT ![h] = n]
  <2>1. /\ j - 1 \in 1 .. len /\ 1 \in 1 .. len /\ j \in 1 .. len /\ len \in 1 .. len
    BY <1>1, <1>4 DEF len
  <2>2. /\ c.node[n].prev = p /\ c.node[n].next = x /\ c.head = h
        /\ n \in c.live /\ p \in c.live /\ h \in c.live
        /\ n # h /\ n # p /\ n # x /\ n \in Pointers /\ p \in Pointers /\ x \in Pointers /\ h \in Pointers
        /\ n = c.tail <=> j = len
        /\ j # len => x \in c.live
        /\ j = len => x = Nil
    <3>1. /\ p \in c.live /\ h \in c.live /\ n \in c.live /\ At(q, j - 1) = p /\ At(q, 1) = h
          /\ n # Nil /\ p \in Nodes /\ h \in Nodes /\ n \in Nodes
      BY <1>1, <2>1 DEF At, len
    <3>2. c.node[n].prev = p /\ c.node[n].next = x /\ c.head = h /\ x \in Pointers
      BY <1>1, <1>2, <2>1, <3>1
    <3>3. n # h /\ n # p
      BY <1>1, <1>2, <1>4, <2>1
    <3>4. CASE j = len
      <4>1. x = Nil /\ n = c.tail
        BY <1>1, <1>2, <2>1, <3>4 DEF At, len
      <4> QED
        BY <3>1, <3>2, <3>3, <3>4, <4>1 DEF Pointers
    <3>5. CASE j # len
      <4>1. j + 1 \in 1 .. len /\ j + 1 # j
        BY <1>1, <2>1, <3>5
      <4>2. x = q[j + 1] /\ c.tail = q[len]
        BY <1>1, <1>2, <2>1, <4>1 DEF At, len
      <4>3. x # n /\ x \in c.live /\ c.tail # n
        <5>1. x # n
          BY <1>2, <2>1, <4>1, <4>2
        <5>2. x \in c.live
          BY <1>1, <4>1, <4>2
        <5>3. c.tail # n
          BY <1>2, <2>1, <3>5, <4>2
        <5> QED
          BY <5>1, <5>2, <5>3
      <4> HIDE DEF n, p, h, x
      <4> QED
        BY <3>1, <3>2, <3>3, <3>5, <4>3 DEF Pointers
    <3> QED
      BY <3>4, <3>5
  <2> HIDE DEF n, p, x, h, next0, prev0
  <2>3. Relinked(c, c, next0, prev0)
    BY DEF Relinked, next0, prev0, Typed, NodeContents
  <2>4. Typed(cut, s) /\ Relinked(cut, c, next1, prev0) /\ cut.tail = c.tail
    BY <2>2, <2>3, AssignNext
  <2> HIDE DEF cut, next1
  <2>5. /\ Typed(closed, s) /\ Relinked(closed, c, next1, prev1)
        /\ closed.tail = IF j = len THEN p ELSE c.tail
    <3>1. CASE j = len
      <4>1. closed = [cut EXCEPT !.tail = p] /\ x = Nil
        BY <2>2, <3>1
      <4>2. prev1 = prev0
        BY <3>1
      <4> HIDE DEF closed, prev1
      <4>3. Typed(closed, s)
        BY <2>2, <2>4, <4>1 DEF Typed, CachesOfSize
      <4>4. Relinked(closed, c, next1, prev0)
        BY <2>4, <4>1 DEF Relinked, Typed, CachesOfSize
      <4>5. closed.tail = p
        BY <2>4, <4>1 DEF Typed, CachesOfSize
      <4> QED
        BY <3>1, <4>2, <4>3, <4>4, <4>5
    <3>2. CASE j # len
      <4>1. closed = Assign(cut, x, "prev", p) /\ x \in c.live
        BY <2>2, <3>2
      <4>2. prev1 = [prev0 EXCEPT ![x] = p]
        BY <3>2
      <4> HIDE DEF closed, prev1
      <4>3. /\ Relinked(Assign(cut, x, "prev", p), c, next1, [prev0 EXCEPT ![x] = p])
            /\ Typed(Assign(cut, x, "prev", p), s) /\ Assign(cut, x, "prev", p).tail = cut.tail
        <5>1. x \in c.live /\ p \in Pointers
          BY <2>2, <4>1
        <5>2. Typed(cut, s) /\ Relinked(cut, c, next1, prev0)
          BY <2>4
        <5> QED
          BY <5>1, <5>2, AssignPrev
      <4> QED
        BY <2>4, <3>2, <4>1, <4>2, <4>3
    <3> QED
      BY <3>1, <3>2
  <2> HIDE DEF closed, prev1
  <2>6. Typed(unlinked, s) /\ Relinked(unlinked, c, next1, prev2) /\ unlinked.tail = closed.tail
    <3>1. Nil \in Pointers /\ n \in c.live
      BY <2>2 DEF Pointers
    <3>2. Typed(closed, s) /\ Relinked(closed, c, next1, prev1)
      BY <2>5
    <3> QED
      BY <3>1, <3>2, AssignPrev
  <2> HIDE DEF unlinked, prev2
  <2>7. Typed(front, s) /\ Relinked(front, c, next2, prev2) /\ front.tail = closed.tail
    BY <2>2, <2>6, AssignNext
  <2> HIDE DEF front, next2
  <2>8. Typed(done, s) /\ Relinked(done, c, next2, prev3) /\ done.tail = closed.tail
    BY <2>2, <2>7, AssignPrev
  <2>9. MoveToFront(c, n) = [done EXCEPT !.head = n]
    BY <2>2 DEF MoveToFront, done, front, unlinked, closed, cut
  <2> HIDE DEF done, prev3
  <2> DEFINE d == [done EXCEPT !.head = n]
             r == Moved(q, j)
  <2>10. /\ d.live = c.live /\ d.size = c.size /\ d.map = c.map /\ d.crashed = c.crashed /\ d.head = n
         /\ d.tail = IF j = len THEN p ELSE c.tail
         /\ d.node = done.node
    BY <2>5, <2>8 DEF Relinked, Typed, CachesOfSize
  <2>11. \A m \in c.live : /\ d.node[m].key = c.node[m].key /\ d.node[m].value = c.node[m].value
                           /\ d.node[m].next = next2[m] /\ d.node[m].prev = prev3[m]
    BY <2>8, <2>10 DEF Relinked
  <2> HIDE DEF d
  <2>12. /\ r \in [1 .. len -> c.live] /\ r \in Seq(c.live) /\ Len(r) = len
         /\ r[1] = n
         /\ \A i \in 2 .. j : r[i] = q[i - 1]
         /\ \A i \in j + 1 .. len : r[i] = q[i]
    <3>1. r = [i \in 1 .. len |-> IF i = 1 THEN q[j] ELSE IF i <= j THEN q[i - 1] ELSE q[i]]
      BY DEF Moved, len
    <3> HIDE DEF r
    <3>2. r \in [1 .. len -> c.live]
      BY <1>1, <2>1, <3>1
    <3>3. r \in Seq(c.live) /\ Len(r) = len
      BY <1>1, <3>2, FcnIsSeq
    <3> QED
      BY <1>1, <2>1, <3>1, <3>2, <3>3 DEF n
  <2> HIDE DEF r
  <2>13. \A i, k \in 1 .. len : r[i] = r[k] => i = k
    <3> DEFINE from(i) == IF i = 1 THEN j ELSE IF i <= j THEN i - 1 ELSE i
    <3>1. \A i \in 1 .. len : from(i) \in 1 .. len /\ r[i] = q[from(i)]
      BY <1>1, <2>1, <2>12 DEF n
    <3>2. \A i, k \in 1 .. len : from(i) = from(k) => i = k
      BY <1>1, <2>1
    <3> HIDE DEF from
    <3>3. ASSUME NEW i \in 1 .. len, NEW k \in 1 .. len, r[i] = r[k]
          PROVE  i = k
      <4>1. q[from(i)] = q[from(k)]
        BY <3>1, <3>3
      <4>2. from(i) = from(k)
        BY <1>2, <3>1, <4>1
      <4> QED
        BY <3>2, <4>2
    <3> QED
      BY <3>3
  <2>14. \A m \in d.live : \E i \in 1 .. len : r[i] = m
    <3> SUFFICES ASSUME NEW m \in c.live
                 PROVE  \E i \in 1 .. len : r[i] = m
      BY <2>10
    <3>1. PICK i \in 1 .. len : q[i] = m
      BY <1>2
    <3>2. CASE i = j
      BY <2>1, <2>12, <3>1, <3>2 DEF n
    <3>3. CASE i < j
      <4>1. i + 1 \in 2 .. j /\ i + 1 \in 1 .. len /\ (i + 1) - 1 = i
        BY <1>1, <3>3, <2>1
      <4> QED
        BY <2>12, <3>1, <4>1
    <3>4. CASE i > j
      BY <1>1, <2>1, <2>12, <3>1, <3>4
    <3> QED
      BY <1>1, <2>1, <3>2, <3>3, <3>4
  <2>15. d.head = At(r, 1) /\ d.tail = At(r, len)
    <3>1. d.head = At(r, 1)
      BY <2>1, <2>10, <2>12 DEF At
    <3>2. CASE j = len
      BY <1>1, <1>4, <2>1, <2>10, <2>12, <3>2 DEF At, p
    <3>3. CASE j # len
      <4>1. len \in j + 1 .. len
        BY <1>1, <2>1, <3>3
      <4>2. r[len] = q[len] /\ c.tail = q[len]
        BY <1>2, <2>1, <2>12, <4>1 DEF At, len
      <4> QED
        BY <2>1, <2>10, <2>12, <3>1, <3>3, <4>2 DEF At
    <3> QED
      BY <3>1, <3>2, <3>3
  <2>16. \A m \in c.live : next2[m] = IF m = n THEN h ELSE IF m = p THEN x ELSE c.node[m].next
    BY <2>2 DEF next2, next1, next0
  <2>17. \A m \in c.live : prev3[m] = IF m = h THEN n ELSE IF m = n THEN Nil ELSE IF m = x THEN p
                                      ELSE c.node[m].prev
    <3>1. \A m \in c.live : prev1[m] = IF m = x THEN p ELSE c.node[m].prev
      BY <1>1, <2>2 DEF prev1, prev0, Typed, CachesOfSize
    <3>2. prev1 \in [c.live -> Pointers]
      BY <2>5 DEF Relinked
    <3> QED
      BY <3>1, <3>2 DEF prev3, prev2
  <2>18. ASSUME NEW i \in 1 .. len
         PROVE  d.node[r[i]].prev = At(r, i - 1) /\ d.node[r[i]].next = At(r, i + 1)
    <3>1. r[i] \in c.live
      BY <2>12
    <3>2. d.node[r[i]].next = At(r, i + 1)
      <4>1. d.node[r[i]].next = IF r[i] = n THEN h ELSE IF r[i] = p THEN x ELSE c.node[r[i]].next
        BY <2>11, <2>16, <3>1
      <4>2. CASE i = 1
        BY <1>1, <1>4, <2>1, <2>12, <4>1, <4>2 DEF At, h
      <4>3. CASE i = j
        <5>1. r[i] = p /\ p # n /\ x = At(q, i + 1)
          BY <1>1, <1>4, <2>1, <2>2, <2>12, <4>3 DEF p, x
        <5>2. At(r, i + 1) = At(q, i + 1)
          BY <1>1, <2>1, <2>12, <4>3 DEF At, len
        <5> QED
          BY <4>1, <5>1, <5>2
      <4>4. CASE i \in 2 .. j - 1
        <5>1. i - 1 \in 1 .. len /\ (i - 1) + 1 = i /\ i - 1 # j /\ i - 1 # j - 1
          BY <1>1, <2>1, <4>4
        <5>2. r[i] = q[i - 1] /\ r[i + 1] = q[i] /\ i + 1 \in 1 .. Len(r) /\ i \in 1 .. Len(q)
          BY <1>1, <2>1, <2>12, <4>4 DEF len
        <5>3. c.node[r[i]].next = q[i]
          BY <1>2, <5>1, <5>2 DEF At
        <5>4. r[i] # n /\ r[i] # p
          BY <1>2, <2>1, <5>1, <5>2 DEF n, p
        <5> QED
          BY <4>1, <5>2, <5>3, <5>4 DEF At
      <4>5. CASE i > j
        <5>1. r[i] = q[i] /\ At(r, i + 1) = At(q, i + 1)
          BY <1>1, <2>1, <2>12, <4>5 DEF At, len
        <5>2. r[i] # n /\ r[i] # p
          <6>1. i # j /\ i # j - 1 /\ i \in 1 .. len /\ j - 1 \in 1 .. len /\ j \in 1 .. len
            BY <1>1, <2>1, <4>5
          <6> QED
            BY <1>2, <5>1, <6>1 DEF n, p
        <5> QED
          BY <1>2, <4>1, <5>1, <5>2
      <4> QED
        BY <1>1, <2>1, <4>2, <4>3, <4>4, <4>5
    <3>3. d.node[r[i]].prev = At(r, i - 1)
      <4>1. d.node[r[i]].prev = IF r[i] = h THEN n ELSE IF r[i] = n THEN Nil ELSE IF r[i] = x THEN p
                                ELSE c.node[r[i]].prev
        BY <2>11, <2>17, <3>1
      <4>2. CASE i = 1
        BY <2>1, <2>2, <2>12, <4>1, <4>2 DEF At
      <4>3. CASE i = 2
        BY <1>1, <1>4, <2>1, <2>2, <2>12, <4>1, <4>3 DEF At, h
      <4>4. CASE i \in 3 .. j
        <5>1. r[i] = q[i - 1] /\ r[i - 1] = q[i - 2] /\ i - 1 \in 1 .. Len(r) /\ i - 1 \in 1 .. len /\ i - 2 \in 1 .. Len(q)
          <6>1. (i - 1) - 1 = i - 2 /\ i - 1 \in 2 .. j /\ i \in 2 .. j
            BY <2>1, <4>4
          <6> QED
            BY <1>1, <2>1, <2>12, <4>4, <6>1 DEF len
        <5>2. c.node[r[i]].prev = q[i - 2]
          <6>1. (i - 1) - 1 = i - 2
            BY <4>4
          <6> QED
            BY <1>2, <5>1, <6>1 DEF At
        <5>3. r[i] # n /\ r[i] # h /\ r[i] # x
          BY <1>1, <1>2, <2>1, <4>4, <5>1 DEF n, h, x, At, len
        <5> QED
          BY <4>1, <5>1, <5>2, <5>3 DEF At
      <4>5. CASE i = j + 1
        <5>1. r[i] = x /\ r[i - 1] = p /\ i - 1 \in 1 .. Len(r)
          BY <1>1, <1>4, <2>1, <2>12, <4>5 DEF x, p, At, len
        <5>2. r[i] # n /\ r[i] # h
          <6>1. x = q[i]
            BY <1>1, <2>1, <4>5 DEF x, At, len
          <6> QED
            BY <1>1, <1>2, <2>1, <4>5, <5>1, <6>1 DEF n, h
        <5> QED
          BY <4>1, <5>1, <5>2 DEF At
      <4>6. CASE i > j + 1
        <5>1. r[i] = q[i] /\ At(r, i - 1) = At(q, i - 1)
          BY <1>1, <2>1, <2>12, <4>6 DEF At, len
        <5>2. r[i] # n /\ r[i] # h /\ r[i] # x
          BY <1>1, <1>2, <2>1, <4>6, <5>1 DEF n, h, x, At, len
        <5> QED
          BY <1>2, <4>1, <5>1, <5>2
      <4> QED
        BY <1>1, <2>1, <4>2, <4>3, <4>4, <4>5, <4>6
    <3> QED
      BY <3>2, <3>3
  <2>19. LinkedBy(d, r)
    BY <2>10, <2>12, <2>13, <2>14, <2>15, <2>18 DEF LinkedBy
  <2>20. SameContents(d, c)
    BY <2>10, <2>11 DEF SameContents
  <2> QED
    BY <2>9, <2>19, <2>20 DEF d, r, n
<1> QED
  BY <1>3, <1>4

Without(q, j) == [i \in 1 .. Len(q) - 1 |-> IF i < j THEN q[i] ELSE q[i + 1]]

\* d is c without the node n, but for the links between nodes.
IsWithout(d, c, n) ==
    /\ d.live = c.live \ {n} /\ d.size = c.size /\ d.map = c.map /\ d.crashed = c.crashed
    /\ \A m \in d.live : d.node[m].key = c.node[m].key /\ d.node[m].value = c.node[m].value

\* The neighbours of the j-th of the nodes q are linked to each other, and it is gone.
Bridged(d, c, q, j) ==
    /\ d.live = c.live \ {q[j]}
    /\ d.head = IF j = 1 THEN At(q, 2) ELSE c.head
    /\ d.tail = IF j = Len(q) THEN At(q, j - 1) ELSE c.tail
    /\ \A m \in d.live : /\ d.node[m].next = IF m = At(q, j - 1) THEN At(q, j + 1) ELSE c.node[m].next
                         /\ d.node[m].prev = IF m = At(q, j + 1) THEN At(q, j - 1) ELSE c.node[m].prev

(* What is left of a list is linked when the gap is bridged.               *)
LEMMA WithoutLinked ==
    ASSUME NEW s, NEW c, Typed(c, s), NEW q, LinkedBy(c, q), NEW j \in 1 .. Len(q), Len(q) # 1,
           NEW d, Bridged(d, c, q, j)
    PROVE  LinkedBy(d, Without(q, j))
<1> DEFINE len == Len(q)
           r == Without(q, j)
           from(i) == IF i < j THEN i ELSE i + 1
<1>1. /\ len \in Nat /\ q \in [1 .. len -> c.live]
      /\ \A i \in 1 .. len : q[i] \in c.live /\ q[i] \in Nodes /\ q[i] # Nil
  BY LinkedFacts
<1>2. /\ \A i, k \in 1 .. len : q[i] = q[k] => i = k
      /\ \A m \in c.live : \E i \in 1 .. len : q[i] = m
      /\ c.head = At(q, 1) /\ c.tail = At(q, len)
      /\ \A i \in 1 .. len : c.node[q[i]].prev = At(q, i - 1) /\ c.node[q[i]].next = At(q, i + 1)
  BY DEF LinkedBy
<1>3. j \in 1 .. len /\ len >= 2 /\ len - 1 \in Nat /\ len \in Nat /\ j \in Nat
  BY <1>1
<1> HIDE DEF len
<1>0. /\ d.live = c.live \ {q[j]}
      /\ d.head = IF j = 1 THEN At(q, 2) ELSE c.head
      /\ d.tail = IF j = len THEN At(q, j - 1) ELSE c.tail
      /\ \A m \in d.live : /\ d.node[m].next = IF m = At(q, j - 1) THEN At(q, j + 1) ELSE c.node[m].next
                           /\ d.node[m].prev = IF m = At(q, j + 1) THEN At(q, j - 1) ELSE c.node[m].prev
  BY DEF Bridged, len
<1>4. /\ \A i \in 1 .. len - 1 : from(i) \in 1 .. len /\ from(i) # j
      /\ \A i, k \in 1 .. len - 1 : from(i) = from(k) => i = k
      /\ \A k \in 1 .. len : k # j => \E i \in 1 .. len - 1 : from(i) = k
  <2>1. ASSUME NEW k \in 1 .. len, k # j
        PROVE  \E i \in 1 .. len - 1 : from(i) = k
    <3>1. CASE k < j
      <4>1. k \in 1 .. len - 1 /\ from(k) = k
        BY <1>3, <3>1
      <4> QED
        BY <4>1
    <3>2. CASE k > j
      <4>1. k - 1 \in 1 .. len - 1 /\ from(k - 1) = k
        BY <1>1, <1>3, <3>2
      <4> QED
        BY <4>1
    <3> QED
      BY <1>1, <1>3, <2>1, <3>1, <3>2
  <2> QED
    BY <1>1, <1>3, <2>1
<1>5. r = [i \in 1 .. len - 1 |-> q[from(i)]]
  BY <1>1, <1>3 DEF Without, len
<1> HIDE DEF r, from
<1>6. /\ r \in [1 .. len - 1 -> d.live] /\ r \in Seq(d.live) /\ Len(r) = len - 1
      /\ \A i \in 1 .. len - 1 : r[i] = q[from(i)]
  <2>1. \A i \in 1 .. len - 1 : q[from(i)] \in d.live
    BY <1>0, <1>1, <1>2, <1>3, <1>4
  <2>2. r \in [1 .. len - 1 -> d.live]
    BY <1>5, <2>1
  <2> QED
    BY <1>3, <1>5, <2>2, FcnIsSeq
<1>7. ASSUME NEW i \in 1 .. len - 1, NEW k \in 1 .. len - 1, r[i] = r[k]
      PROVE  i = k
  <2>1. q[from(i)] = q[from(k)]
    BY <1>6, <1>7
  <2>2. from(i) = from(k)
    BY <1>2, <1>4, <2>1
  <2> QED
    BY <1>4, <2>2
<1>8. ASSUME NEW m \in d.live
      PROVE  \E i \in 1 .. len - 1 : r[i] = m
  <2>1. PICK k \in 1 .. len : q[k] = m
    BY <1>0, <1>2
  <2>2. k # j
    BY <1>0, <2>1
  <2>3. PICK i \in 1 .. len - 1 : from(i) = k
    BY <1>4, <2>2
  <2> QED
    BY <1>6, <2>1, <2>3
<1>9. \A i \in 0 .. len : At(r, i) = IF i = 0 THEN Nil ELSE At(q, from(i))
  <2>1. ASSUME NEW i \in 1 .. len - 1
        PROVE  At(r, i) = At(q, from(i))
    BY <1>4, <1>6 DEF At, len
  <2>2. At(r, 0) = Nil /\ At(r, len) = Nil
    BY <1>3, <1>6 DEF At
  <2>3. from(len) = len + 1 /\ At(q, len + 1) = Nil
    BY <1>3 DEF from, At, len
  <2> QED
    BY <1>3, <2>1, <2>2, <2>3
<1>10. d.head = At(r, 1)
  <2>1. 1 \in 0 .. len
    BY <1>3
  <2> QED
    BY <1>0, <1>2, <1>3, <1>9, <2>1 DEF from
<1>11. d.tail = At(r, len - 1)
  <2>1. len - 1 \in 0 .. len /\ len - 1 # 0
    BY <1>3
  <2> QED
    BY <1>0, <1>2, <1>3, <1>9, <2>1 DEF from
<1>12. ASSUME NEW i \in 1 .. len - 1
       PROVE  d.node[r[i]].prev = At(r, i - 1) /\ d.node[r[i]].next = At(r, i + 1)
  <2>1. r[i] \in d.live /\ r[i] = q[from(i)] /\ from(i) \in 1 .. len /\ r[i] # Nil
    BY <1>1, <1>4, <1>6
  <2>2. /\ i - 1 \in 0 .. len /\ i + 1 \in 0 .. len /\ i + 1 # 0
        /\ i \in Int /\ j \in Int /\ len \in Int
    BY <1>3
  <2>3. /\ d.node[r[i]].next = IF r[i] = At(q, j - 1) THEN At(q, j + 1) ELSE At(q, from(i) + 1)
        /\ d.node[r[i]].prev = IF r[i] = At(q, j + 1) THEN At(q, j - 1) ELSE At(q, from(i) - 1)
    <3>1. c.node[r[i]].prev = At(q, from(i) - 1) /\ c.node[r[i]].next = At(q, from(i) + 1)
      BY <1>2, <2>1
    <3> QED
      BY <1>0, <2>1, <3>1
  <2>4. /\ r[i] = At(q, j - 1) <=> from(i) = j - 1
        /\ r[i] = At(q, j + 1) <=> from(i) = j + 1
    BY <1>1, <1>2, <1>3, <2>1 DEF At, len
  <2>5. At(r, i + 1) = At(q, from(i + 1))
    BY <1>9, <2>2
  <2>6. At(r, i - 1) = IF i = 1 THEN Nil ELSE At(q, from(i - 1))
    BY <1>9, <2>2
  <2>7. At(q, 0) = Nil
    BY <1>1 DEF At, len
  <2>8. d.node[r[i]].next = At(q, from(i + 1))
    <3>1. CASE from(i) = j - 1
      <4>1. from(i + 1) = j + 1
        BY <1>3, <2>2, <3>1 DEF from
      <4> QED
        BY <2>3, <2>4, <3>1, <4>1
    <3>2. CASE from(i) # j - 1
      <4>1. from(i + 1) = from(i) + 1
        BY <1>3, <2>2, <3>2 DEF from
      <4> QED
        BY <2>3, <2>4, <3>2, <4>1
    <3> QED
      BY <3>1, <3>2
  <2>9. d.node[r[i]].prev = IF i = 1 THEN Nil ELSE At(q, from(i - 1))
    <3>1. CASE from(i) = j + 1
      <4>1. i = j /\ (i = 1 => j - 1 = 0) /\ (i # 1 => from(i - 1) = j - 1)
        BY <1>3, <2>2, <3>1 DEF from
      <4> QED
        BY <2>3, <2>4, <2>7, <3>1, <4>1
    <3>2. CASE from(i) # j + 1
      <4>1. (i = 1 => from(i) - 1 = 0) /\ (i # 1 => from(i - 1) = from(i) - 1)
        BY <1>3, <2>2, <3>2 DEF from
      <4> QED
        BY <2>3, <2>4, <2>7, <3>2, <4>1
    <3> QED
      BY <3>1, <3>2
  <2> QED
    BY <2>5, <2>6, <2>8, <2>9
<1>13. LinkedBy(d, r)
  BY <1>6, <1>7, <1>8, <1>10, <1>11, <1>12 DEF LinkedBy
<1> QED
  BY <1>13 DEF r

(* delete_node takes the node out of the list, if it is not the only one.  *)
LEMMA DeleteNodeLinked ==
    ASSUME NEW s, NEW c, Typed(c, s), NEW q, LinkedBy(c, q), NEW j \in 1 .. Len(q), Len(q) # 1
    PROVE  /\ LinkedBy(DeleteNode(c, q[j]), Without(q, j))
           /\ IsWithout(DeleteNode(c, q[j]), c, q[j])
<1> DEFINE len == Len(q)
           n == q[j]
           p == At(q, j - 1)
           x == At(q, j + 1)
           ends == CASE n = c.head -> [c EXCEPT !.head = x]
                     [] n # c.head /\ n = c.tail -> [c EXCEPT !.tail = p]
                     [] n # c.head /\ n # c.tail -> c
           before == IF p = Nil THEN ends ELSE Assign(ends, p, "next", x)
           after == IF x = Nil THEN before ELSE Assign(before, x, "prev", p)
           d == [after EXCEPT !.live = @ \ {n}, !.node[n] = Nil]
           next0 == [m \in c.live |-> c.node[m].next]
           prev0 == [m \in c.live |-> c.node[m].prev]
           next1 == IF p = Nil THEN next0 ELSE [next0 EXCEPT ![p] = x]
           prev1 == IF x = Nil THEN prev0 ELSE [prev0 EXCEPT ![x] = p]
<1>1. /\ len \in Nat /\ q \in [1 .. len -> c.live]
      /\ \A i \in 1 .. len : q[i] \in c.live /\ q[i] \in Nodes /\ q[i] # Nil
      /\ \A i \in Int : At(q, i) \in Pointers
  BY LinkedFacts
<1>2. /\ \A i, k \in 1 .. len : q[i] = q[k] => i = k
      /\ c.head = At(q, 1) /\ c.tail = At(q, len)
      /\ \A i \in 1 .. len : c.node[q[i]].prev = At(q, i - 1) /\ c.node[q[i]].next = At(q, i + 1)
  BY DEF LinkedBy
<1> HIDE DEF len
<1>3. /\ j \in 1 .. len /\ len >= 2 /\ len \in Nat /\ j \in Nat /\ 1 \in 1 .. len /\ len \in 1 .. len
  BY <1>1 DEF len
<1>4. /\ n \in c.live /\ c.node[n].prev = p /\ c.node[n].next = x
      /\ p \in Pointers /\ x \in Pointers /\ n \in Nodes
  BY <1>1, <1>2, <1>3
<1>5. /\ n = c.head <=> j = 1
      /\ n = c.tail <=> j = len
      /\ p # Nil => p \in c.live
      /\ x # Nil => x \in c.live
      /\ n # p /\ n # x
  <2>1. c.head = q[1] /\ c.tail = q[len]
    BY <1>2, <1>3 DEF At, len
  <2>2. (n = c.head <=> j = 1) /\ (n = c.tail <=> j = len)
    BY <1>2, <1>3, <2>1
  <2>5. n # Nil
    BY <1>1, <1>3
  <2>6. (p # Nil => p \in c.live /\ n # p) /\ (x # Nil => x \in c.live /\ n # x)
    <3>1. p # Nil => p \in c.live /\ n # p
      <4>1. CASE p # Nil
        <5>1. j - 1 \in 1 .. len /\ p = q[j - 1] /\ j - 1 # j
          BY <1>3, <4>1 DEF At, len
        <5> QED
          BY <1>1, <1>2, <1>3, <5>1
      <4> QED
        BY <4>1
    <3>2. x # Nil => x \in c.live /\ n # x
      <4>1. CASE x # Nil
        <5>1. j + 1 \in 1 .. len /\ x = q[j + 1] /\ j + 1 # j
          BY <1>3, <4>1 DEF At, len
        <5> QED
          BY <1>1, <1>2, <1>3, <5>1
      <4> QED
        BY <4>1
    <3> QED
      BY <3>1, <3>2
  <2> QED
    BY <2>2, <2>5, <2>6
<1> HIDE DEF n, p, x
<1>6. /\ ends.live = c.live /\ ends.node = c.node /\ ends.size = c.size /\ ends.map = c.map
      /\ ends.crashed = c.crashed /\ Typed(ends, s)
      /\ ends.head = IF j = 1 THEN x ELSE c.head
      /\ ends.tail = IF j = len THEN p ELSE c.tail
  <2>1. CASE j = 1
    <3>1. ends = [c EXCEPT !.head = x] /\ j # len
      BY <1>3, <1>5, <2>1
    <3> HIDE DEF ends
    <3> QED
      BY <1>4, <2>1, <3>1 DEF Typed, CachesOfSize
  <2>2. CASE j # 1 /\ j = len
    <3>1. ends = [c EXCEPT !.tail = p]
      BY <1>5, <2>2
    <3> HIDE DEF ends
    <3> QED
      BY <1>4, <2>2, <3>1 DEF Typed, CachesOfSize
  <2>3. CASE j # 1 /\ j # len
    <3>1. ends = c
      BY <1>5, <2>3
    <3> HIDE DEF ends
    <3> QED
      BY <2>3, <3>1 DEF Typed, CachesOfSize
  <2> QED
    BY <2>1, <2>2, <2>3
<1> HIDE DEF ends
<1>7. Relinked(ends, ends, next0, prev0)
  BY <1>6 DEF Relinked, Typed, NodeContents
<1> HIDE DEF next0, prev0
<1>8. Typed(before, s) /\ Relinked(before, ends, next1, prev0) /\ before.tail = ends.tail
  <2>1. CASE p = Nil
    BY <1>6, <1>7, <2>1
  <2>2. CASE p # Nil
    <3>1. p \in ends.live
      BY <1>5, <1>6, <2>2
    <3>2. /\ Relinked(Assign(ends, p, "next", x), ends, [next0 EXCEPT ![p] = x], prev0)
          /\ Typed(Assign(ends, p, "next", x), s) /\ Assign(ends, p, "next", x).tail = ends.tail
      <4>1. x \in Pointers /\ Typed(ends, s)
        BY <1>4, <1>6
      <4> QED
        BY <1>7, <3>1, <4>1, AssignNext
    <3> QED
      BY <2>2, <3>2
  <2> QED
    BY <2>1, <2>2
<1> HIDE DEF before, next1
<1>9. Typed(after, s) /\ Relinked(after, ends, next1, prev1) /\ after.tail = ends.tail
  <2>1. CASE x = Nil
    BY <1>8, <2>1
  <2>2. CASE x # Nil
    <3>1. x \in ends.live
      BY <1>5, <1>6, <2>2
    <3>2. /\ Relinked(Assign(before, x, "prev", p), ends, next1, [prev0 EXCEPT ![x] = p])
          /\ Typed(Assign(before, x, "prev", p), s) /\ Assign(before, x, "prev", p).tail = before.tail
      BY <1>4, <1>8, <3>1, AssignPrev
    <3> QED
      BY <1>8, <2>2, <3>2
  <2> QED
    BY <2>1, <2>2
<1>10. DeleteNode(c, n) = d
  BY <1>4 DEF DeleteNode, d, after, before, ends
<1> HIDE DEF after, prev1
<1>11. /\ d.live = c.live \ {n} /\ d.size = c.size /\ d.map = c.map /\ d.crashed = c.crashed
       /\ d.head = ends.head /\ d.tail = ends.tail
       /\ \A m \in d.live : d.node[m] = after.node[m]
  BY <1>6, <1>9 DEF Relinked, Typed, CachesOfSize
<1> HIDE DEF d
<1>12. \A m \in d.live : /\ d.node[m].key = c.node[m].key /\ d.node[m].value = c.node[m].value
                         /\ d.node[m].next = next1[m] /\ d.node[m].prev = prev1[m]
  BY <1>6, <1>9, <1>11 DEF Relinked
<1>13. \A m \in c.live : /\ next1[m] = IF m = p THEN x ELSE c.node[m].next
                         /\ prev1[m] = IF m = x THEN p ELSE c.node[m].prev
  <2>1. \A m \in c.live : m # Nil
    BY DEF Typed, CachesOfSize
  <2> QED
    BY <2>1 DEF next1, prev1, next0, prev0
<1>14. At(q, 2) = x \/ j # 1
  <2>1. CASE j = 1
    <3>1. j + 1 = 2
      BY <2>1
    <3> QED
      BY <3>1 DEF x
  <2> QED
    BY <2>1
<1>15. Bridged(d, c, q, j)
  BY <1>6, <1>11, <1>12, <1>13, <1>14 DEF Bridged, len, n, p, x
<1>16. LinkedBy(d, Without(q, j))
  BY <1>15, WithoutLinked
<1>17. IsWithout(d, c, n)
  BY <1>11, <1>12 DEF IsWithout
<1> QED
  BY <1>10, <1>16, <1>17 DEF n

(* delete_node of the only node leaves the tail behind.                    *)
LEMMA DeleteOnlyNode ==
    ASSUME NEW s, NEW c, Typed(c, s), NEW q, LinkedBy(c, q), Len(q) = 1
    PROVE  DeleteNode(c, q[1]).live = {} /\ DeleteNode(c, q[1]).tail = q[1]
<1> DEFINE n == q[1]
           ends == [c EXCEPT !.head = Nil]
           d == [ends EXCEPT !.live = @ \ {n}, !.node[n] = Nil]
<1>1. n \in c.live /\ n # Nil /\ c.head = n /\ c.tail = n /\ c.node[n].prev = Nil /\ c.node[n].next = Nil
  <2>1. /\ 1 \in 1 .. 1 /\ c.head = At(q, 1) /\ c.tail = At(q, 1)
        /\ c.node[q[1]].prev = At(q, 1 - 1) /\ c.node[q[1]].next = At(q, 1 + 1)
    BY DEF LinkedBy
  <2>2. n \in c.live /\ n # Nil
    BY LinkedFacts, <2>1
  <2>3. At(q, 1) = n /\ At(q, 1 - 1) = Nil /\ At(q, 1 + 1) = Nil
    BY DEF At
  <2> QED
    BY <2>1, <2>2, <2>3
<1>2. c.live = {n}
  <2>1. \A m \in c.live : \E i \in 1 .. 1 : q[i] = m
    BY DEF LinkedBy
  <2>2. \A m \in c.live : m = n
    BY <2>1
  <2> QED
    BY <1>1, <2>2
<1>3. DeleteNode(c, n) = d
  BY <1>1 DEF DeleteNode
<1>4. d.live = {} /\ d.tail = n
  <2> HIDE DEF n
  <2>1. ends.live = {n} /\ ends.tail = n /\ DOMAIN ends = DOMAIN c
    BY <1>1, <1>2 DEF Typed, CachesOfSize
  <2>2. "live" \in DOMAIN ends /\ "node" \in DOMAIN ends
    BY <2>1 DEF Typed, CachesOfSize
  <2>3. d.live = ends.live \ {n} /\ d.tail = ends.tail
    <3> HIDE DEF ends
    <3> QED
      BY <2>2
  <2> QED
    BY <2>1, <2>3
<1> QED
  BY <1>3, <1>4

Pushed(q, n) == [i \in 1 .. Len(q) + 1 |-> IF i = 1 THEN n ELSE q[i - 1]]

\* The cache of set_cache before a node is evicted.
Added(c, n, k, v) ==
    LET made == [c EXCEPT !.live = @ \cup {n},
                          !.node[n] = [key |-> k, value |-> v, prev |-> Nil, next |-> c.head]]
        linked == IF c.head = Nil THEN made ELSE Assign(made, c.head, "prev", n)
    IN  [linked EXCEPT !.head = n, !.tail = IF @ = Nil THEN n ELSE @, !.size = @ + 1]

\* d is c and the node n with the key k and the value v at its head.
IsWith(d, c, n, k, v) ==
    /\ d.live = c.live \cup {n} /\ d.size = c.size + 1 /\ d.map = c.map /\ d.crashed = c.crashed
    /\ d.head = n /\ d.tail = IF c.tail = Nil THEN n ELSE c.tail
    /\ d.node[n].key = k /\ d.node[n].value = v /\ d.node[n].prev = Nil /\ d.node[n].next = c.head
    /\ \A m \in c.live : /\ d.node[m].key = c.node[m].key /\ d.node[m].value = c.node[m].value
                         /\ d.node[m].next = c.node[m].next
                         /\ d.node[m].prev = IF m = c.head THEN n ELSE c.node[m].prev

(* What a new node changes.                                                *)
LEMMA AddedIsWith ==
    ASSUME NEW c, Typed(c, 0 .. Capacity), c.head \in c.live \cup {Nil},
           NEW n \in Nodes \ c.live, NEW k \in Keys, NEW v \in Values
    PROVE  Typed(Added(c, n, k, v), 0 .. Capacity + 1) /\ IsWith(Added(c, n, k, v), c, n, k, v)
<1> DEFINE contents == [key |-> k, value |-> v, prev |-> Nil, next |-> c.head]
           made == [c EXCEPT !.live = @ \cup {n}, !.node[n] = contents]
           linked == IF c.head = Nil THEN made ELSE Assign(made, c.head, "prev", n)
           added == [linked EXCEPT !.head = n, !.tail = IF @ = Nil THEN n ELSE @, !.size = @ + 1]
           next0 == [m \in made.live |-> made.node[m].next]
           prev0 == [m \in made.live |-> made.node[m].prev]
           prev1 == IF c.head = Nil THEN prev0 ELSE [prev0 EXCEPT ![c.head] = n]
<1>1. n \in Pointers /\ c.head \in Pointers /\ n # Nil /\ n # c.head
  BY DEF Typed, CachesOfSize, Pointers
<1>2. /\ contents \in NodeContents
      /\ contents.key = k /\ contents.value = v /\ contents.prev = Nil /\ contents.next = c.head
  BY <1>1 DEF NodeContents, Pointers
<1> HIDE DEF contents
<1>3. /\ made.live = c.live \cup {n} /\ made.node = [c.node EXCEPT ![n] = contents]
      /\ made.head = c.head /\ made.tail = c.tail /\ made.size = c.size /\ made.map = c.map
      /\ made.crashed = c.crashed /\ made \in CachesOfSize(0 .. Capacity)
  BY <1>2 DEF Typed, CachesOfSize
<1> HIDE DEF made
<1>4. \A m \in made.live : made.node[m] = IF m = n THEN contents ELSE c.node[m]
  BY <1>3 DEF Typed, CachesOfSize
<1>5. Typed(made, 0 .. Capacity)
  BY <1>2, <1>3, <1>4 DEF Typed
<1>6. Relinked(made, made, next0, prev0)
  BY <1>5 DEF Relinked, Typed, NodeContents
<1>7. /\ \A m \in made.live : next0[m] = IF m = n THEN c.head ELSE c.node[m].next
      /\ \A m \in made.live : prev0[m] = IF m = n THEN Nil ELSE c.node[m].prev
  BY <1>2, <1>4
<1> HIDE DEF next0, prev0
<1>8. Typed(linked, 0 .. Capacity) /\ Relinked(linked, made, next0, prev1) /\ linked.tail = made.tail
  <2>1. CASE c.head = Nil
    BY <1>5, <1>6, <2>1
  <2>2. CASE c.head # Nil
    <3>1. c.head \in made.live
      BY <1>3, <2>2
    <3>2. /\ Relinked(Assign(made, c.head, "prev", n), made, next0, [prev0 EXCEPT ![c.head] = n])
          /\ Typed(Assign(made, c.head, "prev", n), 0 .. Capacity)
          /\ Assign(made, c.head, "prev", n).tail = made.tail
      <4>1. n \in Pointers
        BY <1>1
      <4> QED
        BY <1>5, <1>6, <3>1, <4>1, AssignPrev
    <3> QED
      BY <2>2, <3>2
  <2> QED
    BY <2>1, <2>2
<1>9. \A m \in made.live : prev1[m] = IF m = c.head /\ c.head # Nil THEN n ELSE prev0[m]
  BY <1>6 DEF Relinked
<1>10. Added(c, n, k, v) = added
  BY DEF Added, linked, made, contents
<1> HIDE DEF linked, prev1
<1>11. linked.size + 1 \in 0 .. Capacity + 1 /\ linked.tail \in Pointers
  BY <1>8 DEF Typed, CachesOfSize
<1>12. /\ added.live = linked.live /\ added.node = linked.node /\ added.head = n
       /\ added.tail = IF linked.tail = Nil THEN n ELSE linked.tail
       /\ added.size = linked.size + 1 /\ added.map = linked.map /\ added.crashed = linked.crashed
       /\ added \in CachesOfSize(0 .. Capacity + 1)
  BY <1>1, <1>8, <1>11 DEF Typed, CachesOfSize
<1> HIDE DEF added
<1>13. Typed(added, 0 .. Capacity + 1)
  BY <1>8, <1>12 DEF Typed
<1>14. \A m \in made.live :
           /\ added.node[m].key = made.node[m].key /\ added.node[m].value = made.node[m].value
           /\ added.node[m].next = next0[m] /\ added.node[m].prev = prev1[m]
  BY <1>8, <1>12 DEF Relinked
<1>15. IsWith(added, c, n, k, v)
  <2>1. n \in made.live /\ \A m \in c.live : m \in made.live /\ m # n /\ m # Nil
    BY <1>3 DEF Typed, CachesOfSize
  <2>2. /\ added.live = c.live \cup {n} /\ added.size = c.size + 1 /\ added.map = c.map
        /\ added.crashed = c.crashed /\ added.head = n
        /\ added.tail = IF c.tail = Nil THEN n ELSE c.tail
    BY <1>3, <1>8, <1>12 DEF Relinked
  <2>3. /\ added.node[n].key = k /\ added.node[n].value = v
        /\ added.node[n].prev = Nil /\ added.node[n].next = c.head
    BY <1>1, <1>2, <1>4, <1>7, <1>9, <1>14, <2>1
  <2>4. ASSUME NEW m \in c.live
        PROVE  /\ added.node[m].key = c.node[m].key /\ added.node[m].value = c.node[m].value
               /\ added.node[m].next = c.node[m].next
               /\ added.node[m].prev = IF m = c.head THEN n ELSE c.node[m].prev
    BY <1>4, <1>7, <1>9, <1>14, <2>1
  <2> QED
    BY <2>2, <2>3, <2>4 DEF IsWith
<1> QED
  BY <1>10, <1>13, <1>15

(* A new node is put at the head of the list.                              *)
LEMMA AddedLinked ==
    ASSUME NEW s, NEW c, Typed(c, s), NEW q, LinkedBy(c, q), NEW n \in Nodes \ c.live,
           NEW d, NEW k, NEW v, IsWith(d, c, n, k, v)
    PROVE  LinkedBy(d, Pushed(q, n)) /\ Len(Pushed(q, n)) = Len(q) + 1 /\ Pushed(q, n)[1] = n
<1> DEFINE len == Len(q)
           r == Pushed(q, n)
<1>1. /\ len \in Nat /\ q \in [1 .. len -> c.live]
      /\ \A i \in 1 .. len : q[i] \in c.live /\ q[i] \in Nodes /\ q[i] # Nil
  BY LinkedFacts
<1>2. /\ \A i, k1 \in 1 .. len : q[i] = q[k1] => i = k1
      /\ \A m \in c.live : \E i \in 1 .. len : q[i] = m
      /\ c.head = At(q, 1) /\ c.tail = At(q, len)
      /\ \A i \in 1 .. len : c.node[q[i]].prev = At(q, i - 1) /\ c.node[q[i]].next = At(q, i + 1)
  BY DEF LinkedBy
<1>3. /\ d.live = c.live \cup {n} /\ d.head = n /\ d.tail = IF c.tail = Nil THEN n ELSE c.tail
      /\ d.node[n].prev = Nil /\ d.node[n].next = c.head
      /\ \A m \in c.live : /\ d.node[m].next = c.node[m].next
                           /\ d.node[m].prev = IF m = c.head THEN n ELSE c.node[m].prev
  BY DEF IsWith
<1>4. r = [i \in 1 .. len + 1 |-> IF i = 1 THEN n ELSE q[i - 1]]
  BY DEF Pushed
<1> HIDE DEF len, r
<1>5. len \in Nat /\ len + 1 \in Nat /\ 1 \in 1 .. len + 1
  BY <1>1
<1>6. /\ r \in [1 .. len + 1 -> d.live] /\ r \in Seq(d.live) /\ Len(r) = len + 1
      /\ r[1] = n /\ \A i \in 2 .. len + 1 : i - 1 \in 1 .. len /\ r[i] = q[i - 1]
  <2>1. \A i \in 2 .. len + 1 : i - 1 \in 1 .. len
    BY <1>5
  <2>2. r \in [1 .. len + 1 -> d.live]
    <3>1. \A i \in 1 .. len + 1 : i # 1 => i \in 2 .. len + 1
      BY <1>5
    <3> QED
      BY <1>1, <1>3, <1>4, <2>1, <3>1
  <2>3. r \in Seq(d.live) /\ Len(r) = len + 1
    BY <1>5, <2>2, FcnIsSeq
  <2> QED
    BY <1>4, <1>5, <2>1, <2>2, <2>3
<1>7. ASSUME NEW i \in 1 .. len + 1, NEW k1 \in 1 .. len + 1, r[i] = r[k1]
      PROVE  i = k1
  <2>1. \A x \in 2 .. len + 1 : r[x] # n
    BY <1>1, <1>6
  <2>2. CASE i = 1 \/ k1 = 1
    BY <1>5, <1>6, <1>7, <2>1, <2>2
  <2>3. CASE i # 1 /\ k1 # 1
    <3>1. i \in 2 .. len + 1 /\ k1 \in 2 .. len + 1
      BY <1>5, <2>3
    <3>2. i - 1 = k1 - 1
      BY <1>2, <1>6, <1>7, <3>1
    <3> QED
      BY <3>1, <3>2
  <2> QED
    BY <2>2, <2>3
<1>8. ASSUME NEW m \in d.live
      PROVE  \E i \in 1 .. len + 1 : r[i] = m
  <2>1. CASE m = n
    BY <1>5, <1>6, <2>1
  <2>2. CASE m \in c.live
    <3>1. PICK i \in 1 .. len : q[i] = m
      BY <1>2, <2>2
    <3>2. i + 1 \in 2 .. len + 1 /\ i + 1 \in 1 .. len + 1 /\ (i + 1) - 1 = i
      BY <1>5
    <3> QED
      BY <1>6, <3>1, <3>2
  <2> QED
    BY <1>3, <2>1, <2>2
<1>9. \A i \in 2 .. len + 2 : At(r, i) = At(q, i - 1)
  BY <1>5, <1>6 DEF At, len
<1>10. At(r, 1) = n /\ At(r, 0) = Nil /\ At(r, 2) = At(q, 1)
  BY <1>5, <1>6, <1>9 DEF At
<1>11. d.tail = At(r, len + 1)
  <2>1. CASE len = 0
    <3>1. c.tail = Nil
      BY <1>2, <2>1 DEF At, len
    <3> QED
      BY <1>3, <1>10, <2>1, <3>1
  <2>2. CASE len # 0
    <3>1. len + 1 \in 2 .. len + 2 /\ (len + 1) - 1 = len /\ len \in 1 .. len
      BY <1>5, <2>2
    <3>2. At(q, len) # Nil
      BY <1>1, <3>1 DEF At, len
    <3> QED
      BY <1>2, <1>3, <1>9, <3>1, <3>2
  <2> QED
    BY <2>1, <2>2
<1>12. ASSUME NEW i \in 1 .. len + 1
       PROVE  d.node[r[i]].prev = At(r, i - 1) /\ d.node[r[i]].next = At(r, i + 1)
  <2>1. CASE i = 1
    BY <1>2, <1>3, <1>6, <1>10, <2>1
  <2>2. CASE i # 1
    <3>1. /\ i \in 2 .. len + 1 /\ i - 1 \in 1 .. len /\ i + 1 \in 2 .. len + 2
          /\ (i + 1) - 1 = (i - 1) + 1 /\ i \in Nat
      BY <1>5, <2>2
    <3>2. r[i] = q[i - 1] /\ r[i] \in c.live
      BY <1>1, <1>6, <3>1
    <3>3. d.node[r[i]].next = At(r, i + 1)
      BY <1>2, <1>3, <1>9, <3>1, <3>2
    <3>4. CASE i = 2
      <4>1. r[i] = c.head
        BY <1>2, <3>1, <3>2, <3>4 DEF At, len
      <4> QED
        BY <1>3, <1>10, <3>2, <3>3, <3>4, <4>1
    <3>5. CASE i # 2
      <4>1. 1 \in 1 .. len /\ i - 1 # 1 /\ i - 1 \in 2 .. len + 2
        BY <1>5, <3>1, <3>5
      <4>2. r[i] # c.head
        <5>1. c.head = q[1]
          BY <1>2, <4>1 DEF At, len
        <5> QED
          BY <1>2, <3>1, <3>2, <4>1, <5>1
      <4>3. At(r, i - 1) = At(q, (i - 1) - 1)
        BY <1>9, <4>1
      <4> QED
        BY <1>2, <1>3, <3>1, <3>2, <3>3, <4>2, <4>3
    <3> QED
      BY <3>4, <3>5
  <2> QED
    BY <2>1, <2>2
<1>13. LinkedBy(d, r)
  BY <1>3, <1>6, <1>7, <1>8, <1>10, <1>11, <1>12 DEF LinkedBy
<1> QED
  BY <1>6, <1>13 DEF r, len

\* The last node makes room when the cache was full.
Inserted(c, q, n) ==
    IF c.size = Capacity THEN Without(Pushed(q, n), Len(q) + 1) ELSE Pushed(q, n)

\* d is c with the new node n, and possibly without one of the others.
HasNew(d, c, n, k, v) ==
    /\ n \in d.live /\ d.live \subseteq c.live \cup {n}
    /\ d.node[n].key = k /\ d.node[n].value = v
    /\ \A m \in d.live \ {n} : d.node[m].key = c.node[m].key /\ d.node[m].value = c.node[m].value
    /\ d.map = [c.map EXCEPT ![Bucket[k]] = n] /\ d.crashed = c.crashed

(* set_cache of a new key keeps the list linked: a cache that is full and  *)
(* has a list evicts the node at the end of it, never the one just made.   *)
LEMMA InsertLinked ==
    ASSUME NEW c, Typed(c, 0 .. Capacity), NEW q, LinkedBy(c, q), c.live = {} => c.size = 0,
           NEW n \in Nodes \ c.live, NEW k \in Keys, NEW v \in Values
    PROVE  /\ LinkedBy(Insert(c, n, k, v), Inserted(c, q, n))
           /\ HasNew(Insert(c, n, k, v), c, n, k, v)
<1> DEFINE added == Added(c, n, k, v)
           r == Pushed(q, n)
           evicted == Evict(added)
           d == [evicted EXCEPT !.map[Bucket[k]] = n]
           t == Inserted(c, q, n)
<1>1. Len(q) \in Nat /\ q \in [1 .. Len(q) -> c.live] /\ c.head \in c.live \cup {Nil}
  BY LinkedFacts DEF LinkedBy, At
<1>2. Typed(added, 0 .. Capacity + 1) /\ IsWith(added, c, n, k, v)
  BY <1>1, AddedIsWith
<1>3. LinkedBy(added, r)
  BY <1>2, AddedLinked
<1>4. Len(r) = Len(q) + 1 /\ r[1] = n
  BY <1>2, AddedLinked
<1>5. c.size \in 0 .. Capacity /\ Capacity \in Nat \ {0} /\ added.size = c.size + 1
  BY <1>2 DEF Typed, CachesOfSize, IsWith
<1>6. Insert(c, n, k, v) = d
  BY DEF Insert, Added
<1> HIDE DEF added, r
<1>7. /\ LinkedBy(evicted, t) /\ n \in evicted.live /\ evicted.live \subseteq c.live \cup {n}
      /\ evicted.node[n].key = k /\ evicted.node[n].value = v
      /\ \A m \in evicted.live \ {n} : /\ evicted.node[m].key = c.node[m].key
                                       /\ evicted.node[m].value = c.node[m].value
      /\ evicted.map = c.map /\ evicted.crashed = c.crashed /\ Typed(evicted, Int)
  <2>1. CASE c.size = Capacity
    <3> DEFINE e == DeleteNode(added, added.tail)
    <3>1. Len(q) # 0
      <4>1. c.live # {}
        BY <1>5, <2>1
      <4> QED
        BY <1>1, <4>1 DEF LinkedBy
    <3>2. /\ Len(r) \in 1 .. Len(r) /\ Len(r) # 1 /\ Len(r) = Len(q) + 1 /\ 1 \in 1 .. Len(r)
      BY <1>1, <1>4, <3>1
    <3>3. added.tail = r[Len(r)] /\ r[Len(r)] # n
      <4>1. added.tail = At(r, Len(r)) /\ \A i, j \in 1 .. Len(r) : r[i] = r[j] => i = j
        BY <1>3 DEF LinkedBy
      <4> QED
        BY <1>4, <3>2, <4>1 DEF At
    <3>4. LinkedBy(e, Without(r, Len(r))) /\ IsWithout(e, added, r[Len(r)])
      BY <1>2, <1>3, <3>2, <3>3, DeleteNodeLinked
    <3>5. Typed(e, 0 .. Capacity + 1)
      <4>1. added.tail \in Pointers
        BY <1>2 DEF Typed, CachesOfSize
      <4> QED
        BY <1>2, <4>1, DeleteNodeType
    <3>6. evicted = [e EXCEPT !.size = @ - 1]
      BY <1>5, <2>1 DEF Evict
    <3>7. t = Without(r, Len(r))
      BY <2>1, <3>2 DEF r, Inserted
    <3> HIDE DEF e, evicted, t
    <3>8. /\ evicted.live = e.live /\ evicted.node = e.node /\ evicted.head = e.head /\ evicted.tail = e.tail
          /\ evicted.map = e.map /\ evicted.crashed = e.crashed /\ Typed(evicted, Int)
      BY <3>5, <3>6 DEF Typed, CachesOfSize
    <3>9. LinkedBy(evicted, t)
      BY <3>4, <3>7, <3>8 DEF LinkedBy
    <3>10. /\ e.live = added.live \ {r[Len(r)]} /\ e.map = added.map /\ e.crashed = added.crashed
           /\ \A m \in e.live : e.node[m].key = added.node[m].key /\ e.node[m].value = added.node[m].value
      BY <3>4 DEF IsWithout
    <3> QED
      BY <1>2, <3>3, <3>8, <3>9, <3>10 DEF IsWith
  <2>2. CASE c.size # Capacity
    <3>1. evicted = added /\ t = r
      BY <1>5, <2>2 DEF Evict, r, Inserted
    <3>2. Typed(added, Int)
      BY <1>2 DEF Typed, CachesOfSize
    <3> QED
      BY <1>2, <1>3, <3>1, <3>2 DEF IsWith
  <2> QED
    BY <2>1, <2>2
<1> HIDE DEF evicted, t
<1>8. /\ d.live = evicted.live /\ d.node = evicted.node /\ d.head = evicted.head /\ d.tail = evicted.tail
      /\ d.map = [evicted.map EXCEPT ![Bucket[k]] = n] /\ d.crashed = evicted.crashed
  BY <1>7 DEF Typed, CachesOfSize
<1>9. LinkedBy(d, t)
  BY <1>7, <1>8 DEF LinkedBy
<1>10. HasNew(d, c, n, k, v)
  BY <1>7, <1>8 DEF HasNew
<1> QED
  BY <1>6, <1>9, <1>10 DEF t

-----------------------------------------------------------------------------
(* Searches                                                                *)

\* No search visits more nodes than there are.
Steps == Cardinality(Nodes)

(* There are finitely many nodes.                                          *)
LEMMA StepsType == Steps \in Nat
  BY FS_CardinalityType DEF Steps

\* w[i][m] is what a search for the key k that may visit i nodes ends at when it starts at m.
Walks(w, c, k) ==
    \A i \in 0 .. Steps, m \in Pointers :
        w[i][m] = IF m \notin c.live \/ i = 0 THEN m
                  ELSE IF c.node[m].key = k THEN m
                  ELSE w[i - 1][c.node[m].next]

(* The function that Search defines by recursion exists.                   *)
LEMMA SearchWalks ==
    ASSUME NEW s, NEW c, Typed(c, s), NEW k
    PROVE  \E w : Walks(w, c, k) /\ \A n \in Pointers : Search(c, n, k) = w[Steps][n]
<1> DEFINE Body(w) == [i \in 0 .. Steps |-> [m \in Pointers |->
                           IF m \notin c.live \/ i = 0 THEN m
                           ELSE IF c.node[m].key = k THEN m
                           ELSE w[i - 1][c.node[m].next]]]
           X == [Pointers -> Pointers]
           start == [m \in Pointers |-> m]
           F == [g \in X |-> [m \in Pointers |-> IF m \notin c.live THEN m
                                                 ELSE IF c.node[m].key = k THEN m
                                                 ELSE g[c.node[m].next]]]
           w0 == CHOOSE w : w = Body(w)
<1>1. \A m \in c.live : m \in Pointers /\ c.node[m].next \in Pointers
  BY DEF Typed, CachesOfSize, NodeContents, Pointers
<1>2. F \in [X -> X] /\ start \in X
  BY <1>1
<1>3. PICK f \in [0 .. Steps -> X] : f[0] = start /\ \A i \in 1 .. Steps : f[i] = F[f[i - 1]]
  <2> HIDE DEF X, F, start
  <2>1. Steps \in Nat
    BY StepsType
  <2>2. \E f : IterationOf(f, X, F, start, Steps)
    BY <1>2, <2>1, Iterated
  <2> QED
    BY <2>2 DEF IterationOf
<1>4. f = Body(f)
  <2>1. ASSUME NEW i \in 0 .. Steps
        PROVE  f[i] = Body(f)[i]
    <3>1. CASE i = 0
      BY <1>3, <3>1
    <3>2. CASE i # 0
      <4>1. i \in 1 .. Steps /\ i - 1 \in 0 .. Steps
        BY <3>2, StepsType
      <4>2. f[i] = F[f[i - 1]] /\ f[i - 1] \in X
        BY <1>3, <4>1
      <4> QED
        BY <3>2, <4>2
    <3> QED
      BY <3>1, <3>2
  <2> QED
    BY <1>3, <2>1
<1>5. w0 = Body(w0)
  <2> HIDE DEF Body
  <2> QED
    BY <1>4
<1>6. \A n \in Pointers : Search(c, n, k) = w0[Steps][n]
  BY DEF Search, Steps
<1> HIDE DEF w0
<1>7. Walks(w0, c, k)
  <2>1. ASSUME NEW i \in 0 .. Steps, NEW m \in Pointers
        PROVE  w0[i][m] = IF m \notin c.live \/ i = 0 THEN m
                          ELSE IF c.node[m].key = k THEN m
                          ELSE w0[i - 1][c.node[m].next]
    <3>1. w0[i] = Body(w0)[i]
      BY <1>5
    <3> QED
      BY <3>1
  <2> QED
    BY <2>1 DEF Walks
<1> QED
  BY <1>6, <1>7

\* m is the first node from the j-th of the nodes q on that has the key k, NULL if none has.
FirstFrom(m, c, q, j, k) ==
    \/ m = Nil /\ \A i \in j .. Len(q) : c.node[q[i]].key # k
    \/ \E i \in j .. Len(q) : /\ m = q[i] /\ c.node[m].key = k
                              /\ \A h \in j .. i - 1 : c.node[q[h]].key # k

(* The length of the list.                                                 *)
LEMMA LengthBounded ==
    ASSUME NEW s, NEW c, Typed(c, s), NEW q, LinkedBy(c, q)
    PROVE  Len(q) <= Steps
<1>1. /\ Len(q) \in Nat /\ q \in [1 .. Len(q) -> Nodes]
      /\ \A i, j \in 1 .. Len(q) : q[i] = q[j] => i = j
  <2>1. Len(q) \in Nat /\ q \in [1 .. Len(q) -> c.live] /\ c.live \subseteq Nodes
    BY LinkedFacts DEF Typed, CachesOfSize
  <2> QED
    BY <2>1 DEF LinkedBy
<1> DEFINE S == 1 .. Len(q)
<1>2. IsFiniteSet(S) /\ Cardinality(S) = Len(q)
  <2>1. 1 \in Int /\ Len(q) \in Int
    BY <1>1
  <2>2. IsFiniteSet(S) /\ Cardinality(S) = IF 1 > Len(q) THEN 0 ELSE Len(q) - 1 + 1
    BY <2>1, FS_Interval
  <2> HIDE DEF S
  <2> QED
    BY <1>1, <2>2
<1>3. ~ (Cardinality(Nodes) < Cardinality(S))
  <2>1. q \in [S -> Nodes] /\ \A i, j \in S : q[i] = q[j] => i = j
    BY <1>1
  <2> HIDE DEF S
  <2> QED
    BY <1>2, <2>1, FS_PigeonHole
<1> QED
  BY <1>1, <1>2, <1>3, StepsType DEF Steps


(* In a linked list a search finds the first node that has the key.        *)
LEMMA SearchFindsFirst ==
    ASSUME NEW s, NEW c, Typed(c, s), NEW q, LinkedBy(c, q), NEW k, NEW j \in 1 .. Len(q) + 1
    PROVE  FirstFrom(Search(c, At(q, j), k), c, q, j, k)
<1> DEFINE len == Len(q)
<1>1. PICK w : Walks(w, c, k) /\ \A n \in Pointers : Search(c, n, k) = w[Steps][n]
  BY SearchWalks
<1>2. /\ len \in Nat /\ q \in [1 .. len -> c.live] /\ Steps \in Nat /\ len <= Steps
      /\ \A i \in 1 .. len : q[i] \in c.live
      /\ \A i \in Int : At(q, i) \in Pointers
      /\ Nil \notin c.live
  BY LinkedFacts, StepsType, LengthBounded DEF Typed, CachesOfSize
<1> DEFINE Good(i) == \A h \in 1 .. len + 1 :
                          i >= len + 1 - h /\ i <= Steps => FirstFrom(w[i][At(q, h)], c, q, h, k)
           S == {i \in Nat : Good(i)}
<1>3. ASSUME NEW i \in 0 .. Steps
      PROVE  FirstFrom(w[i][At(q, len + 1)], c, q, len + 1, k)
  <2>1. At(q, len + 1) = Nil /\ Nil \in Pointers
    BY <1>2 DEF At, Pointers
  <2>2. w[i][Nil] = Nil
    BY <1>1, <1>2, <2>1 DEF Walks
  <2> QED
    BY <1>2, <2>1, <2>2 DEF FirstFrom
<1>4. ASSUME NEW i \in 0 .. Steps, NEW h \in 1 .. len, i # 0
      PROVE  /\ At(q, h) = q[h]
             /\ w[i][q[h]] = IF c.node[q[h]].key = k THEN q[h] ELSE w[i - 1][At(q, h + 1)]
  <2>1. At(q, h) = q[h] /\ q[h] \in c.live /\ q[h] \in Pointers
    BY <1>2 DEF At
  <2>2. c.node[q[h]].next = At(q, h + 1)
    BY DEF LinkedBy
  <2> QED
    BY <1>1, <1>4, <2>1, <2>2 DEF Walks
<1>5. 0 \in S
  <2>1. ASSUME NEW h \in 1 .. len + 1, 0 >= len + 1 - h
        PROVE  h = len + 1
    BY <1>2, <2>1
  <2>2. 0 \in 0 .. Steps
    BY <1>2
  <2> HIDE DEF len
  <2> QED
    BY <1>3, <2>1, <2>2
<1>6. ASSUME NEW i \in Nat, i \in S
      PROVE  i + 1 \in S
  <2> SUFFICES ASSUME NEW h \in 1 .. len + 1, i + 1 >= len + 1 - h, i + 1 <= Steps
               PROVE  FirstFrom(w[i + 1][At(q, h)], c, q, h, k)
    OBVIOUS
  <2>1. i + 1 \in 0 .. Steps /\ i + 1 # 0 /\ (i + 1) - 1 = i /\ i <= Steps
    BY <1>2
  <2>2. CASE h = len + 1
    BY <1>3, <2>1, <2>2
  <2>3. CASE h # len + 1
    <3>1. h \in 1 .. len /\ h + 1 \in 1 .. len + 1 /\ i >= len + 1 - (h + 1) /\ h <= len
      BY <1>2, <2>3
    <3>2. At(q, h) = q[h] /\ w[i + 1][q[h]] = IF c.node[q[h]].key = k THEN q[h] ELSE w[i][At(q, h + 1)]
      BY <1>4, <2>1, <3>1
    <3>3. CASE c.node[q[h]].key = k
      <4>1. h \in h .. Len(q) /\ h .. h - 1 = {}
        BY <3>1
      <4> QED
        BY <3>2, <3>3, <4>1 DEF FirstFrom
    <3>4. CASE c.node[q[h]].key # k
      <4>1. FirstFrom(w[i][At(q, h + 1)], c, q, h + 1, k)
        BY <1>6, <2>1, <3>1
      <4>2. \A x \in h .. Len(q) : x = h \/ x \in h + 1 .. Len(q)
        BY <3>1
      <4>3. \A x \in h + 1 .. Len(q) : x \in h .. Len(q) /\ \A y \in h .. x - 1 : y = h \/ y \in h + 1 .. x - 1
        BY <3>1
      <4> HIDE DEF len
      <4> QED
        BY <3>2, <3>4, <4>1, <4>2, <4>3 DEF FirstFrom
    <3> QED
      BY <3>3, <3>4
  <2> QED
    BY <2>2, <2>3
<1>7. Steps \in S
  <2> HIDE DEF S
  <2> QED
    BY <1>2, <1>5, <1>6, SetInduction
<1>8. FirstFrom(w[Steps][At(q, j)], c, q, j, k)
  BY <1>2, <1>7
<1> QED
  BY <1>1, <1>2, <1>8

\* t is q from its j-th element on.
IsRest(t, q, j) ==
    /\ t \in Seq(Nodes) /\ Len(t) = Len(q) + 1 - j
    /\ \A i \in 1 .. Len(t) : t[i] = q[j + i - 1]

(* The list that ListOf collects is the one that is linked.                *)
LEMMA ListedIsLinked ==
    ASSUME NEW s, NEW c, Typed(c, s), NEW q, LinkedBy(c, q)
    PROVE  ListOf(c) = q
<1> DEFINE len == Len(q)
           Body(f) == [i \in 0 .. Steps |-> [n \in Pointers |->
                           IF n \notin c.live \/ i = 0 THEN <<>>
                           ELSE <<n>> \o f[i - 1][c.node[n].next]]]
           X == [Pointers -> Seq(Nodes)]
           start == [n \in Pointers |-> <<>>]
           F == [g \in X |-> [n \in Pointers |-> IF n \notin c.live THEN <<>>
                                                 ELSE <<n>> \o g[c.node[n].next]]]
           w == CHOOSE f : f = Body(f)
<1>1. \A m \in c.live : m \in Pointers /\ m \in Nodes /\ c.node[m].next \in Pointers
  BY DEF Typed, CachesOfSize, NodeContents, Pointers
<1>2. F \in [X -> X] /\ start \in X
  <2>1. <<>> \in Seq(Nodes)
    OBVIOUS
  <2>2. \A n \in Nodes, t \in Seq(Nodes) : <<n>> \o t \in Seq(Nodes)
    OBVIOUS
  <2>3. ASSUME NEW g \in X
        PROVE  [n \in Pointers |-> IF n \notin c.live THEN <<>>
                                   ELSE <<n>> \o g[c.node[n].next]] \in X
    BY <1>1, <2>1, <2>2
  <2> QED
    BY <2>1, <2>3
<1>3. PICK f : IterationOf(f, X, F, start, Steps)
  <2> HIDE DEF X, F, start
  <2> QED
    BY <1>2, StepsType, Iterated
<1>4. f = Body(f)
  <2>1. ASSUME NEW i \in 0 .. Steps
        PROVE  f[i] = Body(f)[i]
    <3>1. CASE i = 0
      BY <1>3, <3>1 DEF IterationOf
    <3>2. CASE i # 0
      <4>1. i \in 1 .. Steps /\ i - 1 \in 0 .. Steps
        BY <3>2, StepsType
      <4>2. f[i] = F[f[i - 1]] /\ f[i - 1] \in X
        BY <1>3, <4>1 DEF IterationOf
      <4> QED
        BY <3>2, <4>2
    <3> QED
      BY <3>1, <3>2
  <2>2. f = [i \in 0 .. Steps |-> f[i]]
    <3> HIDE DEF X, F, start
    <3> QED
      BY <1>3 DEF IterationOf
  <2> QED
    BY <2>1, <2>2
<1>5. w = Body(w)
  <2> HIDE DEF Body
  <2> QED
    BY <1>4
<1>6. ListOf(c) = w[Steps][c.head]
  BY DEF ListOf, Steps
<1> HIDE DEF w
<1>7. ASSUME NEW i \in 0 .. Steps, NEW n \in Pointers
      PROVE  w[i][n] = IF n \notin c.live \/ i = 0 THEN <<>>
                       ELSE <<n>> \o w[i - 1][c.node[n].next]
  <2>1. w[i] = Body(w)[i]
    BY <1>5
  <2> QED
    BY <2>1
<1> HIDE DEF Body, X, F, start
<1>8. /\ len \in Nat /\ q \in [1 .. len -> c.live] /\ Steps \in Nat /\ len <= Steps
      /\ \A i \in 1 .. len : q[i] \in c.live
      /\ \A i \in Int : At(q, i) \in Pointers
      /\ Nil \notin c.live
  BY LinkedFacts, StepsType, LengthBounded DEF Typed, CachesOfSize
<1> DEFINE Good(i) == \A h \in 1 .. len + 1 :
                          i >= len + 1 - h /\ i <= Steps => IsRest(w[i][At(q, h)], q, h)
           S == {i \in Nat : Good(i)}
<1>9. ASSUME NEW i \in 0 .. Steps
      PROVE  IsRest(w[i][At(q, len + 1)], q, len + 1)
  <2>1. At(q, len + 1) = Nil /\ Nil \in Pointers
    BY <1>8 DEF At, Pointers
  <2>2. w[i][Nil] = <<>>
    BY <1>7, <1>8, <2>1
  <2>3. <<>> \in Seq(Nodes) /\ Len(<<>>) = 0 /\ Len(<<>>) = len + 1 - (len + 1) /\ 1 .. 0 = {}
    BY <1>8
  <2>4. IsRest(<<>>, q, len + 1)
    BY <2>3 DEF IsRest
  <2> QED
    BY <2>1, <2>2, <2>4
<1>10. 0 \in S
  <2>1. ASSUME NEW h \in 1 .. len + 1, 0 >= len + 1 - h
        PROVE  h = len + 1
    BY <1>8, <2>1
  <2>2. 0 \in 0 .. Steps
    BY <1>8
  <2> HIDE DEF len
  <2> QED
    BY <1>9, <2>1, <2>2
<1>11. ASSUME NEW i \in Nat, i \in S
      PROVE  i + 1 \in S
  <2> SUFFICES ASSUME NEW h \in 1 .. len + 1, i + 1 >= len + 1 - h, i + 1 <= Steps
               PROVE  IsRest(w[i + 1][At(q, h)], q, h)
    OBVIOUS
  <2>1. i + 1 \in 0 .. Steps /\ i + 1 # 0 /\ (i + 1) - 1 = i /\ i <= Steps
    BY <1>8
  <2>2. CASE h = len + 1
    BY <1>9, <2>1, <2>2
  <2>3. CASE h # len + 1
    <3>1. h \in 1 .. len /\ h + 1 \in 1 .. len + 1 /\ i >= len + 1 - (h + 1) /\ h <= len
      BY <1>8, <2>3
    <3> DEFINE t == w[i][At(q, h + 1)]
    <3>2. At(q, h) = q[h] /\ w[i + 1][q[h]] = <<q[h]>> \o t
      <4>1. At(q, h) = q[h] /\ q[h] \in c.live /\ q[h] \in Pointers
        BY <1>1, <1>8, <3>1 DEF At
      <4>2. c.node[q[h]].next = At(q, h + 1)
        BY <3>1 DEF LinkedBy
      <4> QED
        BY <1>7, <2>1, <4>1, <4>2
    <3>3. IsRest(t, q, h + 1)
      BY <1>11, <2>1, <3>1
    <3> HIDE DEF t
    <3>4. /\ t \in Seq(Nodes) /\ Len(t) = len + 1 - (h + 1) /\ q[h] \in Nodes
          /\ \A x \in 1 .. Len(t) : t[x] = q[(h + 1) + x - 1]
      BY <1>1, <1>8, <3>1, <3>3 DEF IsRest
    <3> HIDE DEF len
    <3> DEFINE u == <<q[h]>> \o t
    <3>5. /\ u \in Seq(Nodes) /\ Len(u) = Len(t) + 1 /\ u[1] = q[h]
          /\ \A x \in 2 .. Len(t) + 1 : u[x] = t[x - 1]
      BY <3>4
    <3> HIDE DEF u
    <3>6. Len(u) = len + 1 - h
      BY <1>8, <3>1, <3>4, <3>5
    <3>7. ASSUME NEW x \in 1 .. Len(u)
          PROVE  u[x] = q[h + x - 1]
      <4>1. CASE x = 1
        BY <3>1, <3>5, <4>1
      <4>2. CASE x # 1
        <5>1. /\ x \in 2 .. Len(t) + 1 /\ x - 1 \in 1 .. Len(t)
              /\ (h + 1) + (x - 1) - 1 = h + x - 1
          BY <1>8, <3>1, <3>4, <3>5, <4>2
        <5> QED
          BY <3>4, <3>5, <5>1
      <4> QED
        BY <4>1, <4>2
    <3> QED
      BY <3>2, <3>5, <3>6, <3>7 DEF IsRest, u, len
  <2> QED
    BY <2>2, <2>3
<1>12. Steps \in S
  <2> HIDE DEF S
  <2> QED
    BY <1>8, <1>10, <1>11, SetInduction
<1>13. IsRest(w[Steps][At(q, 1)], q, 1)
  BY <1>8, <1>12
<1>14. IsRest(ListOf(c), q, 1)
  BY <1>6, <1>13 DEF LinkedBy
<1>15. ListOf(c) \in Seq(Nodes) /\ Len(ListOf(c)) = len /\ \A i \in 1 .. len : ListOf(c)[i] = q[i]
  BY <1>8, <1>14 DEF IsRest
<1>16. q \in Seq(Nodes) /\ Len(q) = len
  BY <1>1, <1>8 DEF LinkedBy
<1> HIDE DEF len
<1> QED
  BY <1>15, <1>16, SeqEqual

-----------------------------------------------------------------------------
(* The invariant: as long as no pointer was left behind, the nodes form a  *)
(* list.                                                                   *)

ListInv ==
    sound => /\ \E q : LinkedBy(cache, q)
             /\ Intact(cache)
             /\ cache.live = {} => cache.size = 0

(* The nodes of a linked list that is intact are what buckets point to.    *)
LEMMA PointersListed ==
    ASSUME NEW s, NEW c, Typed(c, s), NEW q, LinkedBy(c, q), NEW n \in c.live \cup {Nil}
    PROVE  \E j \in 1 .. Len(q) + 1 : n = At(q, j)
<1>1. Len(q) \in Nat
  BY LinkedFacts
<1>2. CASE n \in c.live
  <2>1. PICK j \in 1 .. Len(q) : q[j] = n
    BY <1>2 DEF LinkedBy
  <2> QED
    BY <1>1, <2>1 DEF At
<1>3. CASE n = Nil
  <2>1. Len(q) + 1 \in 1 .. Len(q) + 1 /\ At(q, Len(q) + 1) = Nil
    BY <1>1 DEF At
  <2> QED
    BY <1>3, <2>1
<1> QED
  BY <1>2, <1>3

(* A search ends at a node of the key or at the end of the list.           *)
LEMMA SearchResult ==
    ASSUME NEW s, NEW c, Typed(c, s), NEW q, LinkedBy(c, q), NEW n \in c.live \cup {Nil}, NEW k
    PROVE  LET m == Search(c, n, k) IN m = Nil \/ (m \in c.live /\ c.node[m].key = k)
<1>1. PICK j \in 1 .. Len(q) + 1 : n = At(q, j)
  BY PointersListed
<1>2. FirstFrom(Search(c, n, k), c, q, j, k)
  BY <1>1, SearchFindsFirst
<1>3. \A i \in j .. Len(q) : q[i] \in c.live
  BY LinkedFacts
<1> QED
  BY <1>2, <1>3 DEF FirstFrom

(* While the cache is sound no search leads to memory that was freed.      *)
LEMMA FoundResult ==
    ASSUME TypeInv, ListInv, sound, NEW k \in Keys
    PROVE  Found(k) = Nil \/ (Found(k) \in cache.live /\ cache.node[Found(k)].key = k)
<1>1. Bucket[k] \in Buckets
  BY DEF Buckets
<1>2. cache.map[Bucket[k]] \in cache.live \cup {Nil}
  BY <1>1 DEF ListInv, Intact
<1>3. PICK q : LinkedBy(cache, q)
  BY DEF ListInv
<1> QED
  BY <1>2, <1>3, SearchResult DEF Found, TypeInv

\* The cache with another value in one of its nodes.
Valued(c, n, v) == [c EXCEPT !.node[n].value = v]

(* A change of a value does not touch the list.                            *)
LEMMA ValueLinked ==
    ASSUME NEW s, NEW c, Typed(c, s), NEW q, LinkedBy(c, q), NEW n \in c.live, NEW v \in Values
    PROVE  /\ Typed(Valued(c, n, v), s) /\ LinkedBy(Valued(c, n, v), q)
           /\ Valued(c, n, v).live = c.live /\ Valued(c, n, v).size = c.size
           /\ Valued(c, n, v).node[n].value = v
           /\ \A m \in c.live : /\ Valued(c, n, v).node[m].key = c.node[m].key
                                /\ m # n => Valued(c, n, v).node[m].value = c.node[m].value
<1> DEFINE d == [c EXCEPT !.node[n].value = v]
<1>1. n \in Nodes /\ c.node[n] \in NodeContents
  BY DEF Typed, CachesOfSize
<1> DEFINE contents == [c.node[n] EXCEPT !.value = v]
<1>2. /\ contents \in NodeContents /\ contents.key = c.node[n].key /\ contents.value = v
      /\ contents.prev = c.node[n].prev /\ contents.next = c.node[n].next
  BY <1>1 DEF NodeContents
<1>3. /\ d.live = c.live /\ d.size = c.size /\ d.map = c.map /\ d.crashed = c.crashed
      /\ d.head = c.head /\ d.tail = c.tail /\ d.node = [c.node EXCEPT ![n] = contents]
  BY DEF Typed, CachesOfSize
<1>4. d \in CachesOfSize(s)
  BY <1>1, <1>2 DEF Typed, CachesOfSize
<1> HIDE DEF contents
<1>5. \A m \in c.live : d.node[m] = IF m = n THEN contents ELSE c.node[m]
  BY <1>1, <1>3 DEF Typed, CachesOfSize
<1> HIDE DEF d
<1>6. Typed(d, s)
  BY <1>2, <1>3, <1>4, <1>5 DEF Typed
<1>7. \A m \in c.live : d.node[m].prev = c.node[m].prev /\ d.node[m].next = c.node[m].next
  BY <1>2, <1>5
<1>8. LinkedBy(d, q)
  <2>1. \A i \in 1 .. Len(q) : q[i] \in c.live
    BY LinkedFacts
  <2> QED
    BY <1>3, <1>7, <2>1 DEF LinkedBy
<1> QED
  BY <1>2, <1>3, <1>5, <1>6, <1>8 DEF d, Valued

(* The empty cache has an empty list.                                      *)
LEMMA InitList == Init => ListInv
<1> SUFFICES ASSUME Init
             PROVE  ListInv
  OBVIOUS
<1>1. cache.live = {} /\ cache.size = 0 /\ cache.head = Nil /\ cache.tail = Nil
  BY DEF Init
<1>2. cache.map = [b \in Buckets |-> Nil]
  BY DEF Init
<1>3. LinkedBy(cache, <<>>)
  BY <1>1 DEF LinkedBy, At
<1>4. Intact(cache)
  BY <1>1, <1>2 DEF Intact
<1> QED
  BY <1>1, <1>3, <1>4 DEF ListInv

\* What pop_cache leaves of a cache.
Popped(c, n, b) == [DeleteNode(c, n) EXCEPT !.map[b] = Nil]

(* A removal that leaves no pointer behind was not that of the only node.  *)
LEMMA PopLinked ==
    ASSUME NEW s, NEW c, Typed(c, s), NEW q, LinkedBy(c, q), NEW j \in 1 .. Len(q), NEW b,
           Intact(Popped(c, q[j], b))
    PROVE  LinkedBy(Popped(c, q[j], b), Without(q, j)) /\ Popped(c, q[j], b).live # {}
<1> DEFINE e == DeleteNode(c, q[j])
           d == Popped(c, q[j], b)
<1>1. Typed(e, s) /\ Len(q) \in Nat /\ q[j] \in c.live /\ q[j] # Nil
  <2>1. q[j] \in c.live /\ q[j] # Nil /\ q[j] \in Pointers /\ Len(q) \in Nat
    BY LinkedFacts DEF Pointers
  <2> QED
    BY <2>1, DeleteNodeType
<1>2. /\ d.live = e.live /\ d.node = e.node /\ d.head = e.head /\ d.tail = e.tail
      /\ d.map = [e.map EXCEPT ![b] = Nil] /\ d.crashed = e.crashed
  <2>1. d = [e EXCEPT !.map[b] = Nil]
    BY DEF Popped
  <2> HIDE DEF e, d
  <2> QED
    BY <1>1, <2>1 DEF Typed, CachesOfSize
<1> HIDE DEF d
<1>3. Len(q) # 1
  <2> SUFFICES ASSUME Len(q) = 1
               PROVE  FALSE
    OBVIOUS
  <2>1. j = 1
    OBVIOUS
  <2>2. e.live = {} /\ e.tail = q[1]
    BY <2>1, DeleteOnlyNode
  <2> QED
    BY <1>1, <1>2, <2>1, <2>2 DEF Intact, d
<1>4. LinkedBy(e, Without(q, j)) /\ IsWithout(e, c, q[j])
  BY <1>3, DeleteNodeLinked
<1> HIDE DEF e
<1>5. LinkedBy(d, Without(q, j))
  BY <1>2, <1>4 DEF LinkedBy
<1>6. d.live # {}
  <2>1. PICK i \in 1 .. Len(q) : i # j
    <3> DEFINE len == Len(q)
    <3>1. len \in Nat /\ len # 1 /\ j \in 1 .. len
      BY <1>1, <1>3
    <3> HIDE DEF len
    <3>2. 1 \in 1 .. len /\ 2 \in 1 .. len
      BY <3>1
    <3> QED
      BY <3>2 DEF len
  <2>2. q[i] # q[j] /\ q[i] \in c.live
    BY <2>1, LinkedFacts DEF LinkedBy
  <2> QED
    BY <1>2, <1>4, <2>2 DEF IsWithout
<1> QED
  BY <1>5, <1>6 DEF d

(* Every operation keeps the list, as long as no pointer is left behind.   *)
LEMMA StepList == TypeInv /\ ListInv /\ [Next]_vars => ListInv'
<1> SUFFICES ASSUME TypeInv, ListInv, [Next]_vars, sound'
             PROVE  (\E q : LinkedBy(cache', q)) /\ Intact(cache') /\ (cache'.live = {} => cache'.size = 0)
  BY DEF ListInv, Intact, LinkedBy, At
<1>1. CASE UNCHANGED vars
  BY <1>1 DEF vars, ListInv
<1>2. CASE Next
  <2>1. sound /\ Intact(cache')
    BY <1>2 DEF Next
  <2>2. PICK q : LinkedBy(cache, q)
    BY <2>1 DEF ListInv
  <2>3. Typed(cache, 0 .. Capacity) /\ (cache.live = {} => cache.size = 0)
    BY <2>1 DEF TypeInv, ListInv
  <2>4. ASSUME NEW n \in cache.live
        PROVE  \E j \in 1 .. Len(q) : q[j] = n
    BY <2>2 DEF LinkedBy
  <2> DEFINE Goal == (\E t : LinkedBy(cache', t)) /\ (cache'.live = {} => cache'.size = 0)
  <2>5. ASSUME UNCHANGED cache
        PROVE  Goal
    BY <2>2, <2>3, <2>5
  <2>6. ASSUME NEW n \in cache.live, cache' = MoveToFront(cache, n)
        PROVE  Goal
    <3>1. PICK j \in 1 .. Len(q) : q[j] = n
      BY <2>4
    <3>2. LinkedBy(cache', Moved(q, j)) /\ SameContents(cache', cache)
      BY <2>2, <2>3, <2>6, <3>1, MoveToFrontLinked
    <3> QED
      BY <2>3, <3>2 DEF SameContents
  <2>7. ASSUME NEW n \in cache.live, NEW v \in Values,
               cache' = MoveToFront([cache EXCEPT !.node[n].value = v], n)
        PROVE  Goal
    <3> DEFINE d == Valued(cache, n, v)
    <3>1. PICK j \in 1 .. Len(q) : q[j] = n
      BY <2>4
    <3>2. Typed(d, 0 .. Capacity) /\ LinkedBy(d, q) /\ d.live = cache.live /\ d.size = cache.size
      BY <2>2, <2>3, ValueLinked
    <3> HIDE DEF d
    <3>3. cache' = MoveToFront(d, q[j])
      BY <2>7, <3>1 DEF d, Valued
    <3>4. LinkedBy(cache', Moved(q, j)) /\ SameContents(cache', d)
      BY <3>2, <3>3, MoveToFrontLinked
    <3> QED
      BY <2>3, <3>2, <3>4 DEF SameContents
  <2>8. ASSUME NEW n \in Nodes \ cache.live, NEW k \in Keys, NEW v \in Values,
               cache' = Insert(cache, n, k, v)
        PROVE  Goal
    <3>1. LinkedBy(cache', Inserted(cache, q, n)) /\ HasNew(cache', cache, n, k, v)
      BY <2>2, <2>3, <2>8, InsertLinked
    <3> QED
      BY <3>1 DEF HasNew
  <2>9. ASSUME NEW n \in cache.live, NEW k \in Keys,
               cache' = [DeleteNode(cache, n) EXCEPT !.map[Bucket[k]] = Nil]
        PROVE  Goal
    <3>1. PICK j \in 1 .. Len(q) : q[j] = n
      BY <2>4
    <3>2. cache' = Popped(cache, q[j], Bucket[k]) /\ Intact(cache')
      BY <2>1, <2>9, <3>1 DEF Popped
    <3>3. LinkedBy(cache', Without(q, j)) /\ cache'.live # {}
      BY <2>2, <2>3, <3>2, PopLinked
    <3> QED
      BY <3>3
  <2>10. ASSUME Crash
         PROVE  Goal
    <3>1. /\ cache'.live = cache.live /\ cache'.size = cache.size /\ cache'.head = cache.head
          /\ cache'.tail = cache.tail /\ cache'.node = cache.node
      BY <2>3, <2>10 DEF Crash, Typed, CachesOfSize
    <3>2. LinkedBy(cache', q)
      BY <2>2, <3>1 DEF LinkedBy
    <3> QED
      BY <2>3, <3>1, <3>2
  <2>11. ASSUME NEW k \in Keys, NEW v \in Values, SetCache(k, v)
         PROVE  Goal
    BY <2>7, <2>8, <2>10, <2>11 DEF SetCache
  <2>12. ASSUME NEW k \in Keys, GetCache(k)
         PROVE  Goal
    BY <2>5, <2>6, <2>10, <2>12 DEF GetCache
  <2>13. ASSUME NEW k \in Keys, PopCache(k)
         PROVE  Goal
    BY <2>5, <2>9, <2>10, <2>13 DEF PopCache
  <2> QED
    BY <1>2, <2>1, <2>11, <2>12, <2>13 DEF Next
<1> QED
  BY <1>1, <1>2

(* What the run checks of the list follows from the invariant.             *)
LEMMA ListInvFacts == TypeInv /\ ListInv => ListLinked /\ SearchEnds
<1> SUFFICES ASSUME TypeInv, ListInv, sound
             PROVE  ListLinked /\ SearchEnds
  BY DEF ListLinked, SearchEnds
<1>1. PICK q : LinkedBy(cache, q)
  BY DEF ListInv
<1>2. Typed(cache, 0 .. Capacity)
  BY DEF TypeInv
<1>3. Listed = q
  BY <1>1, <1>2, ListedIsLinked DEF Listed
<1>4. /\ Len(q) \in Nat /\ q \in [1 .. Len(q) -> cache.live] /\ DOMAIN q = 1 .. Len(q)
      /\ \A i, j \in 1 .. Len(q) : q[i] = q[j] => i = j
      /\ \A n \in cache.live : \E i \in 1 .. Len(q) : q[i] = n
      /\ cache.tail = At(q, Len(q))
      /\ \A i \in 1 .. Len(q) : cache.node[q[i]].prev = At(q, i - 1)
  BY <1>1, <1>2, LinkedFacts DEF LinkedBy
<1>5. ListLinked
  <2>1. {q[i] : i \in DOMAIN q} = cache.live
    BY <1>4
  <2>2. Len(q) = Cardinality(cache.live)
    <3> DEFINE S == 1 .. Len(q)
               T == cache.live
    <3>1. IsFiniteSet(S) /\ Cardinality(S) = IF 1 > Len(q) THEN 0 ELSE Len(q) - 1 + 1
      BY <1>4, FS_Interval
    <3>2. q \in [S -> T] /\ (\A i, j \in S : q[i] = q[j] => i = j) /\ \A n \in T : \E i \in S : q[i] = n
      BY <1>4
    <3> HIDE DEF S, T
    <3>3. Cardinality(S) = Cardinality(T)
      <4>1. q \in Bijection(S, T)
        BY <3>2 DEF Bijection, Injection, Surjection, IsInjective
      <4> QED
        BY <3>1, <4>1, FS_Bijection DEF ExistsBijection
    <3> QED
      BY <1>4, <3>1, <3>3 DEF T
  <2>3. ASSUME NEW i \in DOMAIN q
        PROVE  cache.node[q[i]].prev = IF i = 1 THEN Nil ELSE q[i - 1]
    BY <1>4 DEF At
  <2>4. cache.tail = IF q = <<>> THEN Nil ELSE q[Len(q)]
    <3>1. q \in Seq(cache.live)
      BY <1>1 DEF LinkedBy
    <3>2. q = <<>> <=> Len(q) = 0
      BY <3>1, EmptySeq
    <3> QED
      BY <1>4, <3>2 DEF At
  <2> QED
    BY <1>3, <2>1, <2>2, <2>3, <2>4 DEF ListLinked
<1>6. SearchEnds
  <2>1. \A b \in Buckets : cache.map[b] \in cache.live \cup {Nil}
    BY DEF ListInv, Intact
  <2>2. ASSUME NEW n \in cache.live \cup {cache.map[b] : b \in Buckets}, NEW k \in Keys
        PROVE  LET m == Search(cache, n, k) IN m = Nil \/ (m \in cache.live /\ cache.node[m].key = k)
    <3>1. n \in cache.live \cup {Nil}
      BY <2>1
    <3> QED
      BY <1>1, <1>2, <3>1, SearchResult
  <2> QED
    BY <2>2 DEF SearchEnds
<1> QED
  BY <1>5, <1>6

(* The nodes in use are a doubly linked list from head to tail, and every  *)
(* search in it ends, until a pointer to a freed node is left behind.      *)
THEOREM ListAlwaysLinked == Spec => []ListLinked
<1>1. Spec => [](TypeInv /\ ListInv)
  BY InitType, StepType, InitList, StepList, PTL DEF Spec
<1> QED
  BY <1>1, ListInvFacts, PTL

(* No search runs in a circle or into memory that was freed, as long as no *)
(* pointer to such memory is left behind.                                  *)
THEOREM SearchesEnd == Spec => []SearchEnds
<1>1. Spec => [](TypeInv /\ ListInv)
  BY InitType, StepType, InitList, StepList, PTL DEF Spec
<1> QED
  BY <1>1, ListInvFacts, PTL

-----------------------------------------------------------------------------
(* Keys that share no bucket                                               *)

BucketsApart == \A k1, k2 \in Keys : Bucket[k1] = Bucket[k2] => k1 = k2

\* Where no two keys share a bucket: the bucket of a key leads to the node that has the key.
BucketInv == \A n \in cache.live : cache.map[Bucket[cache.node[n].key]] = n

\* d has the nodes `left' of c and no others, with the keys and values of c, and the same buckets.
Keeps(d, c, left) ==
    /\ d.live = left /\ d.map = c.map
    /\ \A m \in left : d.node[m].key = c.node[m].key /\ d.node[m].value = c.node[m].value

(* An assignment to a pointer changes no key, no value and no bucket,      *)
(* whatever node it is made to.                                            *)
LEMMA AssignKeeps ==
    ASSUME NEW s, NEW c, Typed(c, s), NEW n \in Pointers, NEW p \in Pointers,
           NEW field \in {"prev", "next"}
    PROVE  Typed(Assign(c, n, field, p), s) /\ Keeps(Assign(c, n, field, p), c, c.live)
<1>1. Typed(Assign(c, n, field, p), s)
  BY AssignType
<1>2. CASE n \notin c.live
  BY <1>1, <1>2 DEF Assign, Keeps, Typed, CachesOfSize
<1>3. CASE n \in c.live
  <2> DEFINE contents == [c.node[n] EXCEPT ![field] = p]
             d == [c EXCEPT !.node[n][field] = p]
  <2>1. n \in Nodes /\ c.node[n] \in NodeContents
    BY <1>3 DEF Typed, CachesOfSize
  <2>2. contents.key = c.node[n].key /\ contents.value = c.node[n].value
    BY <2>1 DEF NodeContents
  <2>3. d.live = c.live /\ d.map = c.map /\ d.node = [c.node EXCEPT ![n] = contents]
    BY DEF Typed, CachesOfSize
  <2>4. Assign(c, n, field, p) = d
    BY <1>3 DEF Assign
  <2> HIDE DEF contents, d
  <2>5. \A m \in c.live : d.node[m] = IF m = n THEN contents ELSE c.node[m]
    BY <2>1, <2>3 DEF Typed, CachesOfSize
  <2>6. Keeps(d, c, c.live)
    BY <2>2, <2>3, <2>5 DEF Keeps
  <2> QED
    BY <1>1, <2>4, <2>6
<1> QED
  BY <1>2, <1>3

(* What two changes keep, both together keep.                              *)
LEMMA KeepsBoth ==
    ASSUME NEW c, NEW d, NEW e, Keeps(d, c, c.live), Keeps(e, d, d.live)
    PROVE  Keeps(e, c, c.live)
  BY DEF Keeps

(* A node that is moved to the front, in whatever list, keeps what it has. *)
LEMMA MoveToFrontKeeps ==
    ASSUME NEW s, NEW c, Typed(c, s), NEW n \in c.live
    PROVE  Keeps(MoveToFront(c, n), c, c.live)
<1> DEFINE prev == c.node[n].prev
           next == c.node[n].next
           cut == Assign(c, prev, "next", next)
           closed == IF n = c.tail THEN [cut EXCEPT !.tail = prev] ELSE Assign(cut, next, "prev", prev)
           unlinked == Assign(closed, n, "prev", Nil)
           front == Assign(unlinked, n, "next", c.head)
           done == Assign(front, c.head, "prev", n)
<1>1. n \in Pointers /\ prev \in Pointers /\ next \in Pointers /\ c.head \in Pointers /\ Nil \in Pointers
  BY DEF Typed, CachesOfSize, NodeContents, Pointers
<1> HIDE DEF prev, next
<1>2. Typed(cut, s) /\ Keeps(cut, c, c.live)
  BY <1>1, AssignKeeps
<1> HIDE DEF cut
<1>3. Typed(closed, s) /\ Keeps(closed, c, c.live)
  <2>1. CASE n = c.tail
    <3>1. closed = [cut EXCEPT !.tail = prev]
      BY <2>1
    <3> HIDE DEF closed
    <3> QED
      BY <1>1, <1>2, <3>1 DEF Typed, CachesOfSize, Keeps
  <2>2. CASE n # c.tail
    <3>1. Typed(Assign(cut, next, "prev", prev), s) /\ Keeps(Assign(cut, next, "prev", prev), cut, cut.live)
      BY <1>1, <1>2, AssignKeeps
    <3> QED
      BY <1>2, <2>2, <3>1, KeepsBoth
  <2> QED
    BY <2>1, <2>2
<1> HIDE DEF closed
<1>4. Typed(unlinked, s) /\ Keeps(unlinked, c, c.live)
  <2>1. Typed(unlinked, s) /\ Keeps(unlinked, closed, closed.live)
    BY <1>1, <1>3, AssignKeeps
  <2> QED
    BY <1>3, <2>1, KeepsBoth
<1> HIDE DEF unlinked
<1>5. Typed(front, s) /\ Keeps(front, c, c.live)
  <2>1. Typed(front, s) /\ Keeps(front, unlinked, unlinked.live)
    BY <1>1, <1>4, AssignKeeps
  <2> QED
    BY <1>4, <2>1, KeepsBoth
<1> HIDE DEF front
<1>6. Typed(done, s) /\ Keeps(done, c, c.live)
  <2>1. Typed(done, s) /\ Keeps(done, front, front.live)
    BY <1>1, <1>5, AssignKeeps
  <2> QED
    BY <1>5, <2>1, KeepsBoth
<1>7. Keeps([done EXCEPT !.head = n], c, c.live)
  <2> HIDE DEF done
  <2> QED
    BY <1>6 DEF Typed, CachesOfSize, Keeps
<1>8. CASE n = c.head
  BY <1>8 DEF MoveToFront, Keeps
<1>9. CASE n # c.head
  BY <1>7, <1>9 DEF MoveToFront, done, front, unlinked, closed, cut, prev, next
<1> QED
  BY <1>8, <1>9

(* A node that is deleted goes alone, from whatever list.                  *)
LEMMA DeleteNodeKeeps ==
    ASSUME NEW s, NEW c, Typed(c, s), NEW n \in Pointers
    PROVE  Keeps(DeleteNode(c, n), c, c.live \ {n})
<1>1. CASE n \notin c.live
  <2>1. DeleteNode(c, n) = [c EXCEPT !.crashed = TRUE] /\ c.live \ {n} = c.live
    BY <1>1 DEF DeleteNode
  <2> QED
    BY <2>1 DEF Keeps, Typed, CachesOfSize
<1>2. CASE n \in c.live
  <2> DEFINE prev == c.node[n].prev
             next == c.node[n].next
             ends == CASE n = c.head -> [c EXCEPT !.head = next]
                       [] n # c.head /\ n = c.tail -> [c EXCEPT !.tail = prev]
                       [] n # c.head /\ n # c.tail -> c
             before == IF prev = Nil THEN ends ELSE Assign(ends, prev, "next", next)
             after == IF next = Nil THEN before ELSE Assign(before, next, "prev", prev)
             d == [after EXCEPT !.live = @ \ {n}, !.node[n] = Nil]
  <2>1. prev \in Pointers /\ next \in Pointers /\ n \in Nodes
    BY <1>2 DEF Typed, CachesOfSize, NodeContents
  <2> HIDE DEF prev, next
  <2>2. Typed(ends, s) /\ Keeps(ends, c, c.live)
    <3>1. /\ Typed([c EXCEPT !.head = next], s) /\ Typed([c EXCEPT !.tail = prev], s)
          /\ Keeps([c EXCEPT !.head = next], c, c.live) /\ Keeps([c EXCEPT !.tail = prev], c, c.live)
          /\ Keeps(c, c, c.live)
      BY <2>1 DEF Typed, CachesOfSize, Keeps
    <3> QED
      BY <3>1
  <2> HIDE DEF ends
  <2>3. Typed(before, s) /\ Keeps(before, c, c.live)
    <3>1. Typed(Assign(ends, prev, "next", next), s) /\ Keeps(Assign(ends, prev, "next", next), ends, ends.live)
      BY <2>1, <2>2, AssignKeeps
    <3>2. Keeps(Assign(ends, prev, "next", next), c, c.live)
      BY <2>2, <3>1, KeepsBoth
    <3> QED
      BY <2>2, <3>1, <3>2
  <2> HIDE DEF before
  <2>4. Typed(after, s) /\ Keeps(after, c, c.live)
    <3>1. Typed(Assign(before, next, "prev", prev), s) /\ Keeps(Assign(before, next, "prev", prev), before, before.live)
      BY <2>1, <2>3, AssignKeeps
    <3>2. Keeps(Assign(before, next, "prev", prev), c, c.live)
      BY <2>3, <3>1, KeepsBoth
    <3> QED
      BY <2>3, <3>1, <3>2
  <2>5. DeleteNode(c, n) = d
    BY <1>2 DEF DeleteNode, after, before, ends, prev, next
  <2> HIDE DEF after
  <2>6. /\ d.live = after.live \ {n} /\ d.map = after.map
        /\ \A m \in d.live : d.node[m] = after.node[m]
    BY <2>1, <2>4 DEF Typed, CachesOfSize
  <2> HIDE DEF d
  <2>7. Keeps(d, c, c.live \ {n})
    BY <2>4, <2>6 DEF Keeps
  <2> QED
    BY <2>5, <2>7
<1> QED
  BY <1>1, <1>2

\* d has the new node n and no others but those of c, which keep what they have.
Gains(d, c, n, k, v) ==
    /\ d.live \subseteq c.live \cup {n} /\ d.map = [c.map EXCEPT ![Bucket[k]] = n]
    /\ \A m \in d.live : /\ d.node[m].key = IF m = n THEN k ELSE c.node[m].key
                         /\ d.node[m].value = IF m = n THEN v ELSE c.node[m].value

(* The new node of set_cache, whatever the list and whatever is evicted.   *)
LEMMA InsertGains ==
    ASSUME NEW c, Typed(c, 0 .. Capacity), NEW n \in Nodes \ c.live, NEW k \in Keys, NEW v \in Values
    PROVE  Gains(Insert(c, n, k, v), c, n, k, v)
<1> DEFINE contents == [key |-> k, value |-> v, prev |-> Nil, next |-> c.head]
           made == [c EXCEPT !.live = @ \cup {n}, !.node[n] = contents]
           linked == IF c.head = Nil THEN made ELSE Assign(made, c.head, "prev", n)
           added == [linked EXCEPT !.head = n, !.tail = IF @ = Nil THEN n ELSE @, !.size = @ + 1]
           evicted == Evict(added)
           d == [evicted EXCEPT !.map[Bucket[k]] = n]
<1>1. n \in Pointers /\ c.head \in Pointers
  BY DEF Typed, CachesOfSize, Pointers
<1>2. contents \in NodeContents /\ contents.key = k /\ contents.value = v
  BY <1>1 DEF NodeContents, Pointers
<1> HIDE DEF contents
<1>3. /\ made.node = [c.node EXCEPT ![n] = contents] /\ made.live = c.live \cup {n}
      /\ made.map = c.map /\ made \in CachesOfSize(0 .. Capacity)
  BY <1>2 DEF Typed, CachesOfSize
<1>4. /\ \A m \in made.live : made.node[m] = IF m = n THEN contents ELSE c.node[m]
      /\ Typed(made, 0 .. Capacity)
  <2> HIDE DEF made
  <2>1. \A m \in made.live : made.node[m] = IF m = n THEN contents ELSE c.node[m]
    BY <1>3 DEF Typed, CachesOfSize
  <2> QED
    BY <1>2, <1>3, <2>1 DEF Typed
<1> HIDE DEF made
<1>5. Typed(linked, 0 .. Capacity) /\ Keeps(linked, made, made.live)
  <2>1. Keeps(made, made, made.live)
    BY DEF Keeps
  <2>2. /\ Typed(Assign(made, c.head, "prev", n), 0 .. Capacity)
        /\ Keeps(Assign(made, c.head, "prev", n), made, made.live)
    BY <1>1, <1>4, AssignKeeps
  <2> QED
    BY <1>4, <2>1, <2>2
<1> HIDE DEF linked
<1>6. /\ Typed(added, 0 .. Capacity + 1) /\ added.live = linked.live /\ added.node = linked.node
      /\ added.map = linked.map
  <2>1. linked.size + 1 \in 0 .. Capacity + 1
    BY <1>5 DEF Typed, CachesOfSize
  <2>2. /\ added \in CachesOfSize(0 .. Capacity + 1) /\ added.live = linked.live
        /\ added.node = linked.node /\ added.map = linked.map
    BY <1>1, <1>5, <2>1 DEF Typed, CachesOfSize
  <2> QED
    BY <1>5, <2>2 DEF Typed
<1>7. Insert(c, n, k, v) = d
  BY DEF Insert, added, linked, made, contents
<1> HIDE DEF added
<1>8. /\ evicted.live \subseteq added.live /\ evicted.map = added.map /\ evicted.map \in [Buckets -> Pointers]
      /\ \A m \in evicted.live : /\ evicted.node[m].key = added.node[m].key
                                 /\ evicted.node[m].value = added.node[m].value
      /\ d.live = evicted.live /\ d.node = evicted.node /\ d.map = [evicted.map EXCEPT ![Bucket[k]] = n]
  <2>1. CASE added.size > Capacity
    <3> DEFINE e == DeleteNode(added, added.tail)
    <3>1. added.tail \in Pointers
      BY <1>6 DEF Typed, CachesOfSize
    <3>2. Typed(e, 0 .. Capacity + 1) /\ Keeps(e, added, added.live \ {added.tail})
      BY <1>6, <3>1, DeleteNodeType, DeleteNodeKeeps
    <3>3. evicted = [e EXCEPT !.size = @ - 1]
      BY <2>1 DEF Evict
    <3> HIDE DEF e, evicted
    <3>4. evicted.live = e.live /\ evicted.map = e.map /\ evicted.node = e.node /\ Typed(evicted, Int)
      BY <3>2, <3>3 DEF Typed, CachesOfSize
    <3>5. d.live = evicted.live /\ d.node = evicted.node /\ d.map = [evicted.map EXCEPT ![Bucket[k]] = n]
      BY <3>4 DEF Typed, CachesOfSize
    <3> HIDE DEF d
    <3> QED
      BY <3>2, <3>4, <3>5 DEF Keeps, Typed, CachesOfSize
  <2>2. CASE ~ (added.size > Capacity)
    <3>1. evicted = added
      BY <2>2 DEF Evict
    <3> HIDE DEF evicted
    <3> QED
      BY <1>6, <3>1 DEF Typed, CachesOfSize
  <2> QED
    BY <2>1, <2>2
<1> HIDE DEF evicted, d
<1>9. /\ d.live \subseteq made.live /\ d.map = [made.map EXCEPT ![Bucket[k]] = n]
      /\ \A m \in d.live : d.node[m].key = made.node[m].key /\ d.node[m].value = made.node[m].value
  BY <1>5, <1>6, <1>8 DEF Keeps
<1>10. Gains(d, c, n, k, v)
  BY <1>2, <1>3, <1>4, <1>9 DEF Gains
<1> QED
  BY <1>7, <1>10

(* A search that starts at a node with the key ends there.                 *)
LEMMA SearchStops ==
    ASSUME NEW s, NEW c, Typed(c, s), NEW n \in c.live, NEW k, c.node[n].key = k
    PROVE  Search(c, n, k) = n
<1>1. n \in Pointers /\ Steps \in 0 .. Steps
  BY StepsType DEF Typed, CachesOfSize, Pointers
<1>2. PICK w : Walks(w, c, k) /\ \A m \in Pointers : Search(c, m, k) = w[Steps][m]
  BY SearchWalks
<1> QED
  BY <1>1, <1>2 DEF Walks

(* While BucketInv holds, a key that is not found is in no node.           *)
LEMMA FoundIfCached ==
    ASSUME TypeInv, BucketInv, NEW n \in cache.live
    PROVE  Found(cache.node[n].key) = n
  BY SearchStops DEF Found, BucketInv, TypeInv

(* Every operation keeps the buckets right, even when pointers to freed    *)
(* nodes have been left behind.                                            *)
LEMMA StepBuckets ==
    ASSUME BucketsApart, TypeInv, BucketInv, [Next]_vars
    PROVE  BucketInv'
<1>1. CASE UNCHANGED vars
  BY <1>1 DEF vars, BucketInv
<1>2. CASE Next
  <2>1. Typed(cache, 0 .. Capacity) /\ cache.map \in [Buckets -> Pointers]
    BY DEF TypeInv, Typed, CachesOfSize
  <2>2. \A n \in cache.live : n \in Pointers /\ n \in Nodes /\ cache.node[n].key \in Keys
    BY <2>1 DEF Typed, CachesOfSize, NodeContents, Pointers
  <2>3. \A k \in Keys : Bucket[k] \in Buckets
    BY DEF Buckets
  <2>4. ASSUME NEW left \in SUBSET cache.live, Keeps(cache', cache, left)
        PROVE  BucketInv'
    BY <2>4 DEF BucketInv, Keeps
  <2>5. ASSUME UNCHANGED cache
        PROVE  BucketInv'
    BY <2>5 DEF BucketInv
  <2>6. ASSUME Crash
        PROVE  BucketInv'
    <3>1. cache'.live = cache.live /\ cache'.map = cache.map /\ cache'.node = cache.node
      BY <2>1, <2>6 DEF Crash, Typed, CachesOfSize
    <3> QED
      BY <3>1 DEF BucketInv
  <2>7. ASSUME NEW k \in Keys, GetCache(k)
        PROVE  BucketInv'
    <3>1. ASSUME Found(k) \in cache.live, cache' = MoveToFront(cache, Found(k))
          PROVE  BucketInv'
      BY <2>1, <2>4, <3>1, MoveToFrontKeeps
    <3> QED
      BY <2>5, <2>6, <2>7, <3>1 DEF GetCache
  <2>8. ASSUME NEW k \in Keys, NEW v \in Values, SetCache(k, v)
        PROVE  BucketInv'
    <3>1. ASSUME Found(k) \in cache.live,
                 cache' = MoveToFront([cache EXCEPT !.node[Found(k)].value = v], Found(k))
          PROVE  BucketInv'
      <4> DEFINE n == Found(k)
                 d == [cache EXCEPT !.node[n].value = v]
                 contents == [cache.node[n] EXCEPT !.value = v]
      <4>1. contents \in NodeContents /\ contents.key = cache.node[n].key
        BY <2>1, <3>1 DEF Typed, NodeContents
      <4>2. d.live = cache.live /\ d.map = cache.map /\ d.node = [cache.node EXCEPT ![n] = contents]
        BY <2>1 DEF Typed, CachesOfSize
      <4>3. d \in CachesOfSize(0 .. Capacity)
        BY <2>1, <4>1 DEF Typed, CachesOfSize
      <4>4. cache' = MoveToFront(d, n) /\ n \in cache.live
        BY <3>1
      <4> HIDE DEF n, d, contents
      <4>5. \A m \in cache.live : d.node[m] = IF m = n THEN contents ELSE cache.node[m]
        BY <2>1, <4>2 DEF Typed, CachesOfSize
      <4>6. Typed(d, 0 .. Capacity)
        BY <2>1, <4>1, <4>2, <4>3, <4>5 DEF Typed
      <4>7. Keeps(cache', d, d.live)
        BY <4>2, <4>4, <4>6, MoveToFrontKeeps
      <4> QED
        BY <4>1, <4>2, <4>5, <4>7 DEF BucketInv, Keeps
    <3>2. ASSUME Found(k) = Nil, NEW n \in Nodes \ cache.live, cache' = Insert(cache, n, k, v)
          PROVE  BucketInv'
      <4>1. Gains(cache', cache, n, k, v)
        BY <2>1, <3>2, InsertGains
      <4>2. \A m \in cache.live : cache.node[m].key # k /\ m # n
        BY <2>1, <3>2, FoundIfCached DEF Typed, CachesOfSize
      <4>3. \A m \in cache.live : Bucket[cache.node[m].key] # Bucket[k]
        BY <2>2, <4>2 DEF BucketsApart
      <4> SUFFICES ASSUME NEW m \in cache'.live
                   PROVE  cache'.map[Bucket[cache'.node[m].key]] = m
        BY DEF BucketInv
      <4>4. cache'.map = [cache.map EXCEPT ![Bucket[k]] = n]
        BY <4>1 DEF Gains
      <4>5. CASE m = n
        <5>1. cache'.node[m].key = k
          BY <4>1, <4>5 DEF Gains
        <5> QED
          BY <2>1, <2>3, <4>4, <4>5, <5>1
      <4>6. CASE m # n
        <5>1. m \in cache.live /\ cache'.node[m].key = cache.node[m].key
          BY <4>1, <4>6 DEF Gains
        <5>2. cache.map[Bucket[cache.node[m].key]] = m /\ Bucket[cache.node[m].key] \in Buckets
          BY <2>2, <2>3, <5>1 DEF BucketInv
        <5> QED
          BY <2>1, <4>3, <4>4, <5>1, <5>2
      <4> QED
        BY <4>5, <4>6
    <3> QED
      BY <2>6, <2>8, <3>1, <3>2 DEF SetCache
  <2>9. ASSUME NEW k \in Keys, PopCache(k)
        PROVE  BucketInv'
    <3>1. ASSUME Found(k) \in cache.live,
                 cache' = [DeleteNode(cache, Found(k)) EXCEPT !.map[Bucket[k]] = Nil]
          PROVE  BucketInv'
      <4> DEFINE n == Found(k)
                 e == DeleteNode(cache, n)
      <4>1. Typed(e, 0 .. Capacity) /\ Keeps(e, cache, cache.live \ {n})
        BY <2>1, <2>2, <3>1, DeleteNodeType, DeleteNodeKeeps
      <4>2. cache' = [e EXCEPT !.map[Bucket[k]] = Nil]
        BY <3>1
      <4>3. \A m \in cache.live \ {n} : cache.node[m].key # k
        BY FoundIfCached
      <4> HIDE DEF e, n
      <4>4. cache'.live = e.live /\ cache'.node = e.node /\ cache'.map = [e.map EXCEPT ![Bucket[k]] = Nil]
        BY <4>1, <4>2 DEF Typed, CachesOfSize
      <4>5. \A m \in cache.live \ {n} : Bucket[cache.node[m].key] # Bucket[k]
        BY <2>2, <4>3 DEF BucketsApart
      <4> SUFFICES ASSUME NEW m \in cache'.live
                   PROVE  cache'.map[Bucket[cache'.node[m].key]] = m
        BY DEF BucketInv
      <4>6. /\ m \in cache.live \ {n} /\ cache'.node[m].key = cache.node[m].key
            /\ cache'.map = [cache.map EXCEPT ![Bucket[k]] = Nil]
        BY <4>1, <4>4 DEF Keeps
      <4>7. cache.map[Bucket[cache.node[m].key]] = m /\ Bucket[cache.node[m].key] \in Buckets
        BY <2>2, <2>3, <4>6 DEF BucketInv
      <4> QED
        BY <2>1, <4>5, <4>6, <4>7
    <3> QED
      BY <2>5, <2>6, <2>9, <3>1 DEF PopCache
  <2> QED
    BY <1>2, <2>7, <2>8, <2>9 DEF Next
<1> QED
  BY <1>1, <1>2

(* Where no two keys share a bucket every cached key is found, in the one  *)
(* node that has it.                                                       *)
THEOREM CachedKeysFound ==
    ASSUME BucketsApart
    PROVE  Spec => []EveryNodeFound
<1>1. Init => BucketInv
  BY DEF Init, BucketInv
<1>2. TypeInv /\ BucketInv /\ [Next]_vars => BucketInv'
  BY StepBuckets
<1>3. TypeInv /\ BucketInv => EveryNodeFound
  BY FoundIfCached DEF EveryNodeFound
<1>4. Spec => [](TypeInv /\ BucketInv)
  BY <1>1, <1>2, InitType, StepType, PTL DEF Spec
<1> QED
  BY <1>3, <1>4, PTL

-----------------------------------------------------------------------------
(* The cache is a store of pairs                                           *)

Pair(c, n) == [key |-> c.node[n].key, value |-> c.node[n].value]

Pairs(c, q) == [i \in 1 .. Len(q) |-> Pair(c, q[i])]

\* Any pairs, as the elements of sequences.
AnyPairs(c) == {Pair(c, n) : n \in c.live}

(* The entries of a linked list.                                           *)
LEMMA EntriesOfLinked ==
    ASSUME NEW s, NEW c, Typed(c, s), NEW q, LinkedBy(c, q)
    PROVE  /\ EntriesOf(c) = Pairs(c, q) /\ DOMAIN Pairs(c, q) = 1 .. Len(q)
           /\ Pairs(c, q) \in Seq(AnyPairs(c)) /\ Len(Pairs(c, q)) = Len(q) /\ Len(q) \in Nat
           /\ \A i \in 1 .. Len(q) : Pairs(c, q)[i] = Pair(c, q[i])
<1>1. ListOf(c) = q /\ Len(q) \in Nat /\ DOMAIN q = 1 .. Len(q) /\ \A i \in 1 .. Len(q) : q[i] \in c.live
  BY ListedIsLinked, LinkedFacts
<1>2. EntriesOf(c) = Pairs(c, q)
  BY <1>1 DEF EntriesOf, Pairs, Pair
<1>3. Pairs(c, q) \in [1 .. Len(q) -> AnyPairs(c)] /\ \A i \in 1 .. Len(q) : Pairs(c, q)[i] = Pair(c, q[i])
  BY <1>1 DEF Pairs, AnyPairs
<1>4. Pairs(c, q) \in Seq(AnyPairs(c)) /\ Len(Pairs(c, q)) = Len(q)
  BY <1>1, <1>3, FcnIsSeq
<1> QED
  BY <1>1, <1>2, <1>3, <1>4

(* What stands in a sequence from which the j-th element is taken.         *)
LEMMA WithoutType ==
    ASSUME NEW S, NEW e \in Seq(S), NEW j \in 1 .. Len(e)
    PROVE  /\ Without(e, j) \in Seq(S) /\ Len(Without(e, j)) = Len(e) - 1
           /\ \A i \in 1 .. Len(e) - 1 : Without(e, j)[i] = IF i < j THEN e[i] ELSE e[i + 1]
<1>1. Len(e) \in Nat /\ Len(e) - 1 \in Nat /\ e \in [1 .. Len(e) -> S]
  BY LenProperties
<1> DEFINE len == Len(e)
           w == Without(e, j)
<1>2. w = [i \in 1 .. len - 1 |-> IF i < j THEN e[i] ELSE e[i + 1]]
  BY DEF Without
<1>3. len \in Nat /\ len - 1 \in Nat /\ e \in [1 .. len -> S] /\ j \in 1 .. len
  BY <1>1
<1> HIDE DEF len, w
<1>4. \A i \in 1 .. len - 1 : i \in 1 .. len /\ i + 1 \in 1 .. len
  BY <1>3
<1>5. w \in [1 .. len - 1 -> S]
  BY <1>2, <1>3, <1>4
<1>6. w \in Seq(S) /\ Len(w) = len - 1
  BY <1>3, <1>5, FcnIsSeq
<1> QED
  BY <1>2, <1>6 DEF len, w

(* A pair in front of a sequence.                                          *)
LEMMA InFront ==
    ASSUME NEW S, NEW p \in S, NEW e \in Seq(S)
    PROVE  /\ <<p>> \o e \in Seq(S) /\ Len(<<p>> \o e) = Len(e) + 1 /\ (<<p>> \o e)[1] = p
           /\ \A i \in 2 .. Len(e) + 1 : (<<p>> \o e)[i] = e[i - 1]
<1>1. Len(e) \in Nat /\ <<p>> \in Seq(S) /\ Len(<<p>>) = 1 /\ <<p>>[1] = p
  BY LenProperties
<1> QED
  BY <1>1, ConcatProperties

(* Sequences that agree element by element with one of them a function.    *)
LEMMA SameSequence ==
    ASSUME NEW S, NEW T, NEW e \in Seq(S), NEW f \in Seq(T), Len(e) = Len(f),
           \A i \in 1 .. Len(e) : e[i] = f[i]
    PROVE  e = f
<1>1. e \in Seq(S \cup T) /\ f \in Seq(S \cup T)
  <2>1. Len(e) \in Nat /\ e \in [1 .. Len(e) -> S \cup T] /\ f \in [1 .. Len(e) -> S \cup T]
    BY LenProperties
  <2> QED
    BY <2>1, FcnIsSeq
<1> QED
  BY <1>1, SeqEqual

(* A node that is moved to the front takes its entry there, which may have *)
(* a new value by then.                                                    *)
LEMMA PairsMoved ==
    ASSUME NEW s, NEW c, Typed(c, s), NEW q, LinkedBy(c, q), NEW j \in 1 .. Len(q),
           NEW r, NEW d, Typed(d, r), LinkedBy(d, Moved(q, j)), d.live = c.live,
           \A m \in c.live : m # q[j] => Pair(d, m) = Pair(c, m)
    PROVE  EntriesOf(d) = <<Pair(d, q[j])>> \o Without(EntriesOf(c), j)
<1> DEFINE len == Len(q)
           e == EntriesOf(c)
           w == Without(e, j)
           p == Pair(d, q[j])
           S == AnyPairs(c) \cup {p}
           t == Moved(q, j)
           f == <<p>> \o w
           g == EntriesOf(d)
<1>1. /\ len \in Nat /\ \A i \in 1 .. len : q[i] \in c.live
      /\ \A i, k \in 1 .. len : q[i] = q[k] => i = k
  BY LinkedFacts DEF LinkedBy
<1>2. e \in Seq(AnyPairs(c)) /\ Len(e) = len /\ \A i \in 1 .. len : e[i] = Pair(c, q[i])
  BY EntriesOfLinked
<1>3. w \in Seq(AnyPairs(c)) /\ Len(w) = len - 1 /\ \A i \in 1 .. len - 1 : w[i] = IF i < j THEN e[i] ELSE e[i + 1]
  <2> HIDE DEF e
  <2> QED
    BY <1>2, WithoutType
<1>4. w \in Seq(S)
  BY <1>3, LenProperties, SeqDef
<1> HIDE DEF w, e
<1>5. f \in Seq(S) /\ Len(f) = len /\ f[1] = p /\ \A i \in 2 .. len : f[i] = w[i - 1]
  <2> HIDE DEF S, p
  <2>1. /\ f \in Seq(S) /\ Len(f) = Len(w) + 1 /\ f[1] = p
        /\ \A i \in 2 .. Len(w) + 1 : f[i] = w[i - 1]
    <3>1. p \in S
      BY DEF S
    <3> QED
      BY <1>4, <3>1, InFront
  <2> HIDE DEF f, len
  <2> QED
    BY <1>1, <1>3, <2>1
<1>6. /\ g \in Seq(AnyPairs(d)) /\ Len(g) = Len(t) /\ Len(t) \in Nat
      /\ \A i \in 1 .. Len(t) : g[i] = Pair(d, t[i])
  <2> HIDE DEF t
  <2> QED
    BY EntriesOfLinked DEF t
<1>7. /\ t = [i \in 1 .. len |-> IF i = 1 THEN q[j] ELSE IF i <= j THEN q[i - 1] ELSE q[i]]
      /\ t \in Seq(d.live)
  BY DEF Moved, LinkedBy
<1> HIDE DEF t, f, g, p
<1>8. Len(t) = len
  <2>1. DOMAIN t = 1 .. Len(t) /\ DOMAIN t = 1 .. len
    BY <1>7, LenProperties
  <2> HIDE DEF len
  <2> QED
    BY <1>1, <1>6, <2>1
<1> HIDE DEF len
<1>9. ASSUME NEW i \in 1 .. len
      PROVE  g[i] = f[i]
  <2>1. g[i] = Pair(d, t[i]) /\ j \in 1 .. len /\ i \in 1 .. len
    BY <1>6, <1>8 DEF len
  <2>2. CASE i = 1
    BY <1>5, <1>7, <2>1, <2>2 DEF p
  <2>3. CASE i # 1 /\ i <= j
    <3>1. i - 1 \in 1 .. len - 1 /\ i - 1 \in 1 .. len /\ i - 1 < j /\ i \in 2 .. len /\ i - 1 # j
      BY <1>1, <2>1, <2>3
    <3>2. f[i] = Pair(c, q[i - 1]) /\ t[i] = q[i - 1]
      BY <1>2, <1>3, <1>5, <1>7, <2>3, <3>1
    <3>3. q[i - 1] # q[j] /\ q[i - 1] \in c.live
      BY <1>1, <2>1, <3>1
    <3> QED
      BY <2>1, <3>2, <3>3
  <2>4. CASE i # 1 /\ ~ (i <= j)
    <3>1. i - 1 \in 1 .. len - 1 /\ ~ (i - 1 < j) /\ i \in 2 .. len /\ i # j /\ (i - 1) + 1 = i
      BY <1>1, <2>1, <2>4
    <3>2. f[i] = Pair(c, q[i]) /\ t[i] = q[i]
      BY <1>2, <1>3, <1>5, <1>7, <2>1, <2>4, <3>1
    <3>3. q[i] # q[j] /\ q[i] \in c.live
      BY <1>1, <2>1, <3>1
    <3> QED
      BY <2>1, <3>2, <3>3
  <2> QED
    BY <2>2, <2>3, <2>4
<1>10. g = f
  <2> HIDE DEF S
  <2> QED
    BY <1>5, <1>6, <1>8, <1>9, SameSequence
<1> QED
  BY <1>10 DEF g, f, p, w, e

(* The entry of a node that is deleted goes, and no other.                 *)
LEMMA PairsWithout ==
    ASSUME NEW s, NEW c, Typed(c, s), NEW q, LinkedBy(c, q), NEW j \in 1 .. Len(q),
           NEW r, NEW d, Typed(d, r), LinkedBy(d, Without(q, j)), d.live \subseteq c.live,
           \A m \in d.live : Pair(d, m) = Pair(c, m)
    PROVE  EntriesOf(d) = Without(EntriesOf(c), j)
<1> DEFINE len == Len(q)
           e == EntriesOf(c)
           w == Without(e, j)
           t == Without(q, j)
           g == EntriesOf(d)
<1>1. len \in Nat /\ q \in Seq(c.live) /\ \A i \in 1 .. len : q[i] \in c.live
  BY LinkedFacts DEF LinkedBy
<1>2. e \in Seq(AnyPairs(c)) /\ Len(e) = len /\ \A i \in 1 .. len : e[i] = Pair(c, q[i])
  BY EntriesOfLinked
<1>3. w \in Seq(AnyPairs(c)) /\ Len(w) = len - 1 /\ \A i \in 1 .. len - 1 : w[i] = IF i < j THEN e[i] ELSE e[i + 1]
  <2> HIDE DEF e
  <2> QED
    BY <1>2, WithoutType
<1>4. Len(t) = len - 1 /\ \A i \in 1 .. len - 1 : t[i] = IF i < j THEN q[i] ELSE q[i + 1]
  BY <1>1, WithoutType
<1>5. /\ g \in Seq(AnyPairs(d)) /\ Len(g) = Len(t)
      /\ \A i \in 1 .. Len(t) : g[i] = Pair(d, t[i]) /\ t[i] \in d.live
  <2>1. LinkedBy(d, t)
    OBVIOUS
  <2> HIDE DEF t
  <2> QED
    BY <2>1, EntriesOfLinked, LinkedFacts
<1> HIDE DEF w, e, t, g, len
<1>6. ASSUME NEW i \in 1 .. len - 1
      PROVE  g[i] = w[i]
  <2>1. i \in 1 .. len /\ i + 1 \in 1 .. len
    BY <1>1
  <2>2. g[i] = Pair(c, t[i])
    BY <1>4, <1>5
  <2> QED
    BY <1>2, <1>3, <1>4, <2>1, <2>2
<1>7. g = w
  BY <1>3, <1>4, <1>5, <1>6, SameSequence
<1> QED
  BY <1>7 DEF g, w, e

(* A new node has its entry in front, and the last entry may go.           *)
LEMMA PairsInserted ==
    ASSUME NEW s, NEW c, Typed(c, s), NEW q, LinkedBy(c, q), NEW n, n \notin c.live,
           NEW r, NEW d, Typed(d, r), LinkedBy(d, Inserted(c, q, n)),
           c.size = Capacity => Len(q) # 0,
           \A m \in d.live \ {n} : Pair(d, m) = Pair(c, m)
    PROVE  \/ EntriesOf(d) = <<Pair(d, n)>> \o EntriesOf(c)
           \/ /\ EntriesOf(c) # <<>>
              /\ EntriesOf(d) = <<Pair(d, n)>> \o SubSeq(EntriesOf(c), 1, Len(EntriesOf(c)) - 1)
<1> DEFINE len == Len(q)
           e == EntriesOf(c)
           p == Pair(d, n)
           S == AnyPairs(c) \cup {p}
           g == EntriesOf(d)
           u == Pushed(q, n)
           t == Inserted(c, q, n)
<1>1. /\ len \in Nat /\ q \in Seq(c.live) /\ \A i \in 1 .. len : q[i] \in c.live /\ q[i] # n
  <2>1. len \in Nat /\ \A i \in 1 .. len : q[i] \in c.live
    BY LinkedFacts
  <2>2. q \in Seq(c.live)
    BY DEF LinkedBy
  <2> QED
    BY <2>1, <2>2
<1>2. e \in Seq(AnyPairs(c)) /\ Len(e) = len /\ \A i \in 1 .. len : e[i] = Pair(c, q[i])
  BY EntriesOfLinked
<1>3. /\ g \in Seq(AnyPairs(d)) /\ Len(g) = Len(t) /\ Len(t) \in Nat
      /\ \A i \in 1 .. Len(t) : g[i] = Pair(d, t[i]) /\ t[i] \in d.live
  <2>1. LinkedBy(d, t)
    OBVIOUS
  <2> HIDE DEF t
  <2> QED
    BY <2>1, EntriesOfLinked, LinkedFacts
<1> HIDE DEF e, g, t, len
<1>4. e \in Seq(S)
  <2>1. \A i \in 1 .. len : e[i] \in S
    <3> HIDE DEF S
    <3>1. AnyPairs(c) \subseteq S
      BY DEF S
    <3> QED
      BY <1>1, <1>2, <3>1, LenProperties
  <2>2. e = [i \in 1 .. len |-> e[i]]
    BY <1>2, LenProperties
  <2>3. e \in [1 .. len -> S]
    BY <2>1, <2>2
  <2> HIDE DEF S
  <2> QED
    BY <1>1, <2>3, FcnIsSeq
<1>5. /\ u \in Seq(c.live \cup {n}) /\ Len(u) = len + 1 /\ u[1] = n
      /\ \A i \in 2 .. len + 1 : u[i] = q[i - 1]
  <2> DEFINE T == c.live \cup {n}
  <2>1. u = [i \in 1 .. len + 1 |-> IF i = 1 THEN n ELSE q[i - 1]]
    BY DEF Pushed, len
  <2>2. len + 1 \in Nat /\ 1 \in 1 .. len + 1
    BY <1>1
  <2> HIDE DEF u
  <2>3. \A i \in 1 .. len + 1 : i # 1 => i - 1 \in 1 .. len /\ i \in 2 .. len + 1
    BY <1>1
  <2>4. u \in [1 .. len + 1 -> T]
    BY <1>1, <2>1, <2>3
  <2> HIDE DEF T
  <2>5. u \in Seq(T) /\ Len(u) = len + 1
    BY <2>2, <2>4, FcnIsSeq
  <2> QED
    BY <1>1, <2>1, <2>2, <2>5 DEF T
<1> HIDE DEF u
<1>6. CASE c.size # Capacity
  <2> DEFINE f == <<p>> \o e
  <2>1. t = u
    BY <1>6 DEF t, u, Inserted
  <2>2. f \in Seq(S) /\ Len(f) = len + 1 /\ f[1] = p /\ \A i \in 2 .. len + 1 : f[i] = e[i - 1]
    <3>1. p \in S
      OBVIOUS
    <3> HIDE DEF S, p
    <3> QED
      BY <1>2, <1>4, <3>1, InFront
  <2> HIDE DEF f, p
  <2>3. ASSUME NEW i \in 1 .. len + 1
        PROVE  g[i] = f[i]
    <3>1. g[i] = Pair(d, u[i]) /\ u[i] \in d.live
      BY <1>3, <1>5, <2>1
    <3>2. CASE i = 1
      BY <1>5, <2>2, <3>1, <3>2 DEF p
    <3>3. CASE i # 1
      <4>1. i \in 2 .. len + 1 /\ i - 1 \in 1 .. len
        BY <1>1, <3>3
      <4>2. u[i] = q[i - 1] /\ u[i] # n /\ f[i] = Pair(c, q[i - 1])
        BY <1>1, <1>2, <1>5, <2>2, <4>1
      <4> QED
        BY <3>1, <4>2
    <3> QED
      BY <3>2, <3>3
  <2>4. g = f
    <3> HIDE DEF S
    <3> QED
      BY <1>3, <1>5, <2>1, <2>2, <2>3, SameSequence
  <2> QED
    BY <2>4 DEF f, g, e, p
<1>7. CASE c.size = Capacity
  <2> DEFINE h == SubSeq(e, 1, len - 1)
             f == <<p>> \o h
  <2>1. t = Without(u, len + 1) /\ len \in Nat /\ len # 0 /\ len - 1 \in Nat /\ len + 1 \in 1 .. Len(u)
    BY <1>1, <1>5, <1>7 DEF t, u, Inserted, len
  <2>2. Len(t) = len /\ \A i \in 1 .. len : t[i] = u[i]
    <3>1. /\ Len(t) = Len(u) - 1
          /\ \A i \in 1 .. Len(u) - 1 : t[i] = IF i < len + 1 THEN u[i] ELSE u[i + 1]
      BY <1>5, <2>1, WithoutType
    <3> QED
      BY <1>5, <2>1, <3>1
  <2>3. h \in Seq(S) /\ Len(h) = len - 1 /\ \A i \in 1 .. len - 1 : h[i] = e[i]
    <3> HIDE DEF S
    <3>1. \A i \in 1 .. len - 1 : i \in 1 .. len
      BY <2>1
    <3> QED
      BY <1>2, <1>4, <2>1, <3>1, SubSeqProperties
  <2> HIDE DEF h
  <2>4. f \in Seq(S) /\ Len(f) = len /\ f[1] = p /\ \A i \in 2 .. len : f[i] = h[i - 1]
    <3>1. p \in S
      OBVIOUS
    <3> HIDE DEF S, p
    <3>2. f \in Seq(S) /\ Len(f) = Len(h) + 1 /\ f[1] = p /\ \A i \in 2 .. Len(h) + 1 : f[i] = h[i - 1]
      BY <2>3, <3>1, InFront
    <3> HIDE DEF f
    <3> QED
      BY <2>1, <2>3, <3>2
  <2> HIDE DEF f, p
  <2>5. ASSUME NEW i \in 1 .. len
        PROVE  g[i] = f[i]
    <3>1. g[i] = Pair(d, u[i]) /\ u[i] \in d.live
      BY <1>3, <2>2
    <3>2. CASE i = 1
      BY <1>5, <2>4, <3>1, <3>2 DEF p
    <3>3. CASE i # 1
      <4>1. i \in 2 .. len /\ i \in 2 .. len + 1 /\ i - 1 \in 1 .. len - 1 /\ i - 1 \in 1 .. len
        BY <2>1, <3>3
      <4>2. u[i] = q[i - 1] /\ u[i] # n /\ f[i] = Pair(c, q[i - 1])
        BY <1>1, <1>2, <1>5, <2>3, <2>4, <4>1
      <4> QED
        BY <3>1, <4>2
    <3> QED
      BY <3>2, <3>3
  <2>6. g = f
    <3> HIDE DEF S
    <3> QED
      BY <1>3, <2>2, <2>4, <2>5, SameSequence
  <2>7. e # <<>>
    BY <1>2, <2>1
  <2> QED
    BY <1>2, <2>6, <2>7 DEF f, g, e, p, h
<1> QED
  BY <1>6, <1>7

(* Each operation that leaves no pointer behind is one of the store: what  *)
(* is found is the entry of its key, and what is not found has none.       *)
LEMMA StoreStep ==
    ASSUME BucketsApart, TypeInv, TypeInv', ListInv, BucketInv, [Next]_vars
    PROVE  [Store!Next]_(Store!vars)
<1>1. CASE UNCHANGED vars
  BY <1>1 DEF vars, Store!vars
<1>2. CASE Next /\ ~ sound'
  BY <1>2 DEF Store!Next, Store!Broken
<1>3. CASE Next /\ sound'
  <2>1. sound /\ sound' = sound /\ Intact(cache')
    BY <1>3 DEF Next
  <2>2. PICK q : LinkedBy(cache, q)
    BY <2>1 DEF ListInv
  <2>3. Typed(cache, 0 .. Capacity) /\ Typed(cache', 0 .. Capacity) /\ (cache.live = {} => cache.size = 0)
    BY <2>1 DEF TypeInv, ListInv
  <2> DEFINE e == EntriesOf(cache)
             f == EntriesOf(cache')
  <2>4. /\ DOMAIN e = 1 .. Len(q) /\ Len(e) = Len(q) /\ Len(q) \in Nat
        /\ \A i \in 1 .. Len(q) : e[i] = Pair(cache, q[i]) /\ q[i] \in cache.live
    BY <2>2, <2>3, EntriesOfLinked, LinkedFacts
  <2>5. ASSUME NEW k \in Keys, Found(k) = Nil
        PROVE  ~ Store!Cached(k)
    <3> SUFFICES ASSUME NEW i \in 1 .. Len(q), e[i].key = k
                 PROVE  FALSE
      BY <2>4 DEF Store!Cached
    <3>1. q[i] \in cache.live /\ cache.node[q[i]].key = k
      BY <2>4 DEF Pair
    <3>2. Found(k) = q[i]
      BY <3>1, FoundIfCached
    <3> QED
      BY <2>3, <2>5, <3>1, <3>2 DEF Typed, CachesOfSize
  <2>6. ASSUME NEW k \in Keys, Found(k) \in cache.live
        PROVE  \E j \in 1 .. Len(q) : q[j] = Found(k) /\ e[j] = Pair(cache, Found(k)) /\ e[j].key = k
    <3>1. cache.node[Found(k)].key = k
      BY <2>1, <2>3, <2>6, FoundResult DEF Typed, CachesOfSize
    <3>2. PICK j \in 1 .. Len(q) : q[j] = Found(k)
      BY <2>2, <2>6 DEF LinkedBy
    <3> QED
      BY <2>4, <3>1, <3>2 DEF Pair
  <2>7. \A k \in Keys : Found(k) \in cache.live \cup {Nil}
    BY <2>1, FoundResult
  <2>8. \A j : Store!Without(j) = Without(e, j)
    BY DEF Store!Without, Without
  <2> HIDE DEF e, f
  <2>9. ASSUME NEW k \in Keys, GetCache(k)
        PROVE  Store!Get(k)
    <3>1. CASE /\ Found(k) \in cache.live
               /\ cache' = MoveToFront(cache, Found(k))
               /\ answer' = cache.node[Found(k)].value
      <4>1. PICK j \in 1 .. Len(q) : q[j] = Found(k) /\ e[j] = Pair(cache, Found(k)) /\ e[j].key = k
        BY <2>6, <3>1
      <4>2. LinkedBy(cache', Moved(q, j)) /\ SameContents(cache', cache)
        BY <2>2, <2>3, <3>1, <4>1, MoveToFrontLinked
      <4>3. cache'.live = cache.live /\ \A m \in cache.live : Pair(cache', m) = Pair(cache, m)
        BY <4>2 DEF SameContents, Pair
      <4>4. f = <<Pair(cache', q[j])>> \o Without(e, j)
        BY <2>2, <2>3, <4>2, <4>3, PairsMoved DEF e, f
      <4>5. f = <<e[j]>> \o Without(e, j) /\ answer' = e[j].value
        <5>1. q[j] \in cache.live /\ Pair(cache', q[j]) = Pair(cache, q[j]) /\ e[j] = Pair(cache, q[j])
          BY <3>1, <4>1, <4>3
        <5>2. Pair(cache, q[j]).value = cache.node[q[j]].value
          BY DEF Pair
        <5> QED
          BY <3>1, <4>1, <4>4, <5>1, <5>2
      <4> QED
        BY <2>4, <2>8, <4>1, <4>5 DEF Store!Get, e, f
    <3>2. CASE Found(k) = Nil /\ answer' = -1 /\ UNCHANGED cache
      BY <2>5, <3>2 DEF Store!Get
    <3> QED
      BY <2>7, <2>9, <3>1, <3>2 DEF GetCache
  <2>10. ASSUME NEW k \in Keys, NEW v \in Values, SetCache(k, v)
         PROVE  Store!Set(k, v)
    <3>0. answer' = -1
      BY <2>7, <2>10 DEF SetCache
    <3>1. ASSUME NEW n \in cache.live, n = Found(k),
                 cache' = MoveToFront([cache EXCEPT !.node[n].value = v], n)
          PROVE  Store!Set(k, v)
      <4> DEFINE d == Valued(cache, n, v)
      <4>1. PICK j \in 1 .. Len(q) : q[j] = n /\ e[j] = Pair(cache, n) /\ e[j].key = k
        BY <2>6, <3>1
      <4>2. /\ Typed(d, 0 .. Capacity) /\ LinkedBy(d, q) /\ d.live = cache.live
            /\ d.node[n].value = v
            /\ \A m \in cache.live : /\ d.node[m].key = cache.node[m].key
                                     /\ m # n => d.node[m].value = cache.node[m].value
        BY <2>2, <2>3, ValueLinked
      <4>3. cache' = MoveToFront(d, q[j])
        BY <3>1, <4>1 DEF Valued
      <4> HIDE DEF d
      <4>4. LinkedBy(cache', Moved(q, j)) /\ SameContents(cache', d)
        BY <4>2, <4>3, MoveToFrontLinked
      <4>5. cache'.live = cache.live /\ \A m \in cache.live : m # q[j] => Pair(cache', m) = Pair(cache, m)
        BY <4>1, <4>2, <4>4 DEF SameContents, Pair
      <4>6. f = <<Pair(cache', q[j])>> \o Without(e, j)
        BY <2>2, <2>3, <4>4, <4>5, PairsMoved DEF e, f
      <4>7. Pair(cache', n) = Store!Entry(k, v)
        <5>1. cache'.node[n].key = cache.node[n].key /\ cache'.node[n].value = v
          BY <4>2, <4>4 DEF SameContents
        <5>2. cache.node[n].key = k
          BY <4>1 DEF Pair
        <5> QED
          BY <5>1, <5>2 DEF Pair, Store!Entry
      <4>8. f = <<Store!Entry(k, v)>> \o Without(e, j) /\ j \in DOMAIN e
        BY <2>4, <4>1, <4>6, <4>7
      <4> QED
        BY <2>8, <3>0, <4>1, <4>8 DEF Store!Set, e, f
    <3>2. ASSUME Found(k) = Nil, NEW n \in Nodes \ cache.live, cache' = Insert(cache, n, k, v)
          PROVE  Store!Set(k, v)
      <4>1. LinkedBy(cache', Inserted(cache, q, n)) /\ HasNew(cache', cache, n, k, v)
        BY <2>2, <2>3, <3>2, InsertLinked
      <4>2. /\ Pair(cache', n) = Store!Entry(k, v)
            /\ \A m \in cache'.live \ {n} : Pair(cache', m) = Pair(cache, m)
        BY <4>1 DEF HasNew, Pair, Store!Entry
      <4>3. cache.size = Capacity => Len(q) # 0
        <5>1. cache.size = Capacity => cache.live # {}
          BY <2>3
        <5> QED
          BY <2>2, <2>4, <5>1 DEF LinkedBy
      <4>4. \/ f = <<Pair(cache', n)>> \o e
            \/ e # <<>> /\ f = <<Pair(cache', n)>> \o SubSeq(e, 1, Len(e) - 1)
        BY <2>2, <2>3, <4>1, <4>2, <4>3, PairsInserted DEF e, f
      <4>5. ~ Store!Cached(k) /\ answer' = -1
        BY <2>3, <2>5, <2>10, <3>2 DEF SetCache, Typed, CachesOfSize
      <4> QED
        BY <4>2, <4>4, <4>5 DEF Store!Set, e, f
    <3> QED
      BY <2>7, <2>10, <3>1, <3>2 DEF SetCache
  <2>11. ASSUME NEW k \in Keys, PopCache(k)
         PROVE  Store!Pop(k)
    <3>1. CASE /\ Found(k) \in cache.live
               /\ cache' = [DeleteNode(cache, Found(k)) EXCEPT !.map[Bucket[k]] = Nil]
               /\ answer' = -1
      <4>1. PICK j \in 1 .. Len(q) : q[j] = Found(k) /\ e[j] = Pair(cache, Found(k)) /\ e[j].key = k
        BY <2>6, <3>1
      <4>2. cache' = Popped(cache, q[j], Bucket[k])
        BY <3>1, <4>1 DEF Popped
      <4>3. LinkedBy(cache', Without(q, j))
        BY <2>1, <2>2, <2>3, <4>2, PopLinked
      <4>4. cache'.live \subseteq cache.live /\ \A m \in cache'.live : Pair(cache', m) = Pair(cache, m)
        <5> DEFINE d == DeleteNode(cache, q[j])
        <5>1. q[j] \in Pointers
          BY <2>3, <2>4 DEF Typed, CachesOfSize, Pointers
        <5>2. Typed(d, 0 .. Capacity) /\ Keeps(d, cache, cache.live \ {q[j]})
          BY <2>3, <5>1, DeleteNodeType, DeleteNodeKeeps
        <5>3. cache' = [d EXCEPT !.map[Bucket[k]] = Nil]
          BY <4>2 DEF Popped
        <5> HIDE DEF d
        <5>4. cache'.live = d.live /\ cache'.node = d.node
          BY <5>2, <5>3 DEF Typed, CachesOfSize
        <5> QED
          BY <5>2, <5>4 DEF Keeps, Pair
      <4>5. f = Without(e, j)
        BY <2>2, <2>3, <4>3, <4>4, PairsWithout DEF e, f
      <4> QED
        BY <2>4, <2>8, <3>1, <4>1, <4>5 DEF Store!Pop, e, f
    <3>2. CASE Found(k) = Nil /\ answer' = -1 /\ UNCHANGED cache
      BY <2>5, <3>2 DEF Store!Pop
    <3> QED
      BY <2>7, <2>11, <3>1, <3>2 DEF PopCache
  <2> QED
    BY <1>3, <2>1, <2>9, <2>10, <2>11 DEF Next, Store!Next
<1> QED
  BY <1>1, <1>2, <1>3

(* An empty cache is an empty store.                                       *)
LEMMA StoreInit == Init => Store!Init
<1> SUFFICES ASSUME Init
             PROVE  EntriesOf(cache) = <<>>
  BY DEF Init, Store!Init
<1>1. Typed(cache, 0 .. Capacity)
  BY InitType DEF TypeInv
<1>2. LinkedBy(cache, <<>>)
  BY DEF Init, LinkedBy, At
<1>3. EntriesOf(cache) \in Seq(AnyPairs(cache)) /\ Len(EntriesOf(cache)) = 0
  BY <1>1, <1>2, EntriesOfLinked
<1> QED
  BY <1>3, EmptySeq

(* Where no two keys share a bucket, lru_cache.c is a map from keys to the *)
(* values set last, which may forget its least recently used key and no    *)
(* other, until a pointer to a freed node is left behind.                  *)
THEOREM CacheImplementsStore ==
    ASSUME BucketsApart
    PROVE  Spec => ImplementsStore
<1>1. Init => BucketInv
  BY DEF Init, BucketInv
<1>2. TypeInv /\ ListInv /\ BucketInv /\ [Next]_vars => TypeInv' /\ ListInv' /\ BucketInv'
  BY StepType, StepList, StepBuckets
<1>3. TypeInv /\ TypeInv' /\ ListInv /\ BucketInv /\ [Next]_vars => [Store!Next]_(Store!vars)
  BY StoreStep
<1> QED
  BY <1>1, <1>2, <1>3, InitType, InitList, StoreInit, PTL DEF Spec, ImplementsStore, Store!Spec
=============================================================================
