------------------------------ MODULE LruCache ------------------------------
(***************************************************************************)
(* lru_cache.c, the cache of inode numbers by path: a doubly linked list   *)
(* of nodes, the most recently used first, and an array of buckets, each   *)
(* with a pointer to the node last put in for a key of that bucket.  There *)
(* are no chains of their own for the buckets: a search starts at the node *)
(* of the bucket and goes on along the list.                               *)
(*                                                                         *)
(* Nodes are addresses, which malloc hands out again once they are free.   *)
(* What the program does with the memory of a freed node, or with NULL, is *)
(* undefined: the model records it in crashed and stops.                   *)
(***************************************************************************)
EXTENDS Integers, Sequences, FiniteSets

CONSTANTS
    Keys,
    Values,     \* inode numbers, so above 0
    Bucket,     \* the bucket of each key: its hash modulo the capacity
    Capacity,
    Nodes,      \* addresses of nodes
    Nil         \* NULL

ASSUME CacheAssumption ==
    /\ Values \subseteq Nat \ {0}
    /\ Capacity \in Nat \ {0}
    /\ Bucket \in [Keys -> 0 .. Capacity - 1]
    /\ Nil \notin Nodes /\ IsFiniteSet(Nodes)

VARIABLES
    cache,      \* the struct lru_cache and its nodes, see TypeOK
    answer,     \* what the last operation returned, -1 unless it was a hit of get_cache
    latest,     \* (history) the value last set for each key, -1 when popped since
    sound       \* (history) no pointer was ever left behind to a node that was freed

vars == <<cache, answer, latest, sound>>

Pointers == Nodes \cup {Nil}
Buckets == 0 .. Capacity - 1

\* create_cache
Init ==
    /\ cache = [node |-> [n \in Nodes |-> Nil], live |-> {}, head |-> Nil, tail |-> Nil, size |-> 0,
                map |-> [b \in Buckets |-> Nil], crashed |-> FALSE]
    /\ answer = -1
    /\ latest = [k \in Keys |-> -1]
    /\ sound = TRUE

-----------------------------------------------------------------------------
(* The statements of lru_cache.c as functions of the cache.                *)

Assign(c, n, field, p) ==
    IF n \in c.live THEN [c EXCEPT !.node[n][field] = p] ELSE [c EXCEPT !.crashed = TRUE]

\* The loop of pop_cache, set_cache and get_cache: the first node from n on
\* with key k, Nil at the end of the list, or a node that is no longer live;
\* if the list should run in a circle, some node with another key.
SearchMutant(c, n, k) == IF n \in c.live THEN c.node[n].next ELSE n  \* skips the first

Search(c, n, k) ==
    LET walk[i \in 0 .. Cardinality(Nodes)] ==
            [m \in Pointers |-> IF m \notin c.live \/ i = 0 THEN m
                               ELSE IF c.node[m].key = k THEN m
                               ELSE walk[i - 1][c.node[m].next]]
    IN  walk[Cardinality(Nodes)][n]

MoveToFrontIdle(c, n) == c  \* a mutant: nothing is moved

MoveToFrontCycle(c, n) ==  \* a mutant: the node also stays where it was
    IF n = c.head THEN c
    ELSE [Assign(Assign(Assign(c, n, "prev", Nil), n, "next", c.head), c.head, "prev", n) EXCEPT !.head = n]

\* Mutant: a tail that is moved stays the tail.
MoveToFrontMutant(c, n) ==
    IF n = c.head THEN c
    ELSE LET prev == c.node[n].prev
             next == c.node[n].next
             cut == Assign(c, prev, "next", next)
             closed == IF next = Nil THEN cut ELSE Assign(cut, next, "prev", prev)
             front == Assign(Assign(closed, n, "prev", Nil), n, "next", c.head)
         IN  [Assign(front, c.head, "prev", n) EXCEPT !.head = n]

MoveToFront(c, n) ==
    IF n = c.head THEN c
    ELSE LET prev == c.node[n].prev
             next == c.node[n].next
             cut == Assign(c, prev, "next", next)
             closed == IF n = c.tail THEN [cut EXCEPT !.tail = prev] ELSE Assign(cut, next, "prev", prev)
             front == Assign(Assign(closed, n, "prev", Nil), n, "next", c.head)
         IN  [Assign(front, c.head, "prev", n) EXCEPT !.head = n]

\* delete_node; a node that is both head and tail stays the tail.
DeleteNode(c, n) ==
    IF n \notin c.live THEN [c EXCEPT !.crashed = TRUE]
    ELSE LET prev == c.node[n].prev
             next == c.node[n].next
             ends == CASE n = c.head -> [c EXCEPT !.head = next]
                       [] n # c.head /\ n = c.tail -> [c EXCEPT !.tail = prev]
                       [] n # c.head /\ n # c.tail -> c
             before == IF prev = Nil THEN ends ELSE Assign(ends, prev, "next", next)
             after == IF next = Nil THEN before ELSE Assign(before, next, "prev", prev)
         IN  [after EXCEPT !.live = @ \ {n}, !.node[n] = Nil]

EvictMutant(c) == IF c.size > Capacity THEN DeleteNode(c, c.tail) ELSE c  \* size stays

Evict(c) ==
    IF c.size > Capacity THEN [DeleteNode(c, c.tail) EXCEPT !.size = @ - 1] ELSE c

\* set_cache of a key that was not found, in the node malloc returned.
Insert(c, n, k, v) ==
    LET made == [c EXCEPT !.live = @ \cup {n},
                          !.node[n] = [key |-> k, value |-> v, prev |-> Nil, next |-> c.head]]
        linked == IF c.head = Nil THEN made ELSE Assign(made, c.head, "prev", n)
        added == [linked EXCEPT !.head = n, !.tail = IF @ = Nil THEN n ELSE @, !.size = @ + 1]
    IN  [Evict(added) EXCEPT !.map[Bucket[k]] = n]

-----------------------------------------------------------------------------
(* The operations                                                          *)

Found(k) == Search(cache, cache.map[Bucket[k]], k)
Crash == /\ cache' = [cache EXCEPT !.crashed = TRUE]
         /\ UNCHANGED <<answer, latest>>

GetCache(k) ==
    \/ /\ Found(k) \in cache.live
       /\ cache' = MoveToFront(cache, Found(k))
       /\ answer' = cache.node[Found(k)].value
       /\ UNCHANGED latest
    \/ /\ Found(k) = Nil
       /\ answer' = -1
       /\ UNCHANGED <<cache, latest>>
    \/ /\ Found(k) \notin cache.live \cup {Nil}
       /\ Crash

SetCache(k, v) ==
    \/ /\ Found(k) \in cache.live
       /\ cache' = MoveToFront([cache EXCEPT !.node[Found(k)].value = v], Found(k))
       /\ latest' = [latest EXCEPT ![k] = v]
       /\ answer' = -1
    \/ /\ Found(k) = Nil
       /\ \E n \in Nodes \ cache.live : cache' = Insert(cache, n, k, v)
       /\ latest' = [latest EXCEPT ![k] = v]
       /\ answer' = -1
    \/ /\ Found(k) \notin cache.live \cup {Nil}
       /\ Crash

\* The bucket is emptied, whatever other keys it is for; size stays.
PopCache(k) ==
    \/ /\ Found(k) \in cache.live
       /\ cache' = [DeleteNode(cache, Found(k)) EXCEPT !.map[Bucket[k]] = Nil]
       /\ latest' = [latest EXCEPT ![k] = -1]
       /\ answer' = -1
    \/ /\ Found(k) = Nil
       /\ latest' = [latest EXCEPT ![k] = -1]
       /\ answer' = -1
       /\ UNCHANGED cache
    \/ /\ Found(k) \notin cache.live \cup {Nil}
       /\ Crash

\* No pointer of a cache is left behind to a node that was freed.
Intact(c) == {c.tail} \cup {c.map[b] : b \in Buckets} \subseteq c.live \cup {Nil}

Next ==
    /\ ~ cache.crashed
    /\ \E k \in Keys : (\E v \in Values : SetCache(k, v)) \/ GetCache(k) \/ PopCache(k)
    /\ sound' = (sound /\ Intact(cache'))

Spec == Init /\ [][Next]_vars

-----------------------------------------------------------------------------
(* Types of the state.  The size that the program counts is the number of  *)
(* nodes at least, so there are never more than the capacity.              *)
TypeOK ==
    /\ cache.live \subseteq Nodes
    /\ \A n \in cache.live :
          cache.node[n] \in [key : Keys, value : Values, prev : Pointers, next : Pointers]
    /\ {cache.head, cache.tail} \subseteq Pointers
    /\ cache.size \in 0 .. Capacity
    /\ cache.crashed \/ Cardinality(cache.live) <= cache.size
    /\ cache.map \in [Buckets -> Pointers]
    /\ answer \in Values \cup {-1}
    /\ latest \in [Keys -> Values \cup {-1}]

\* The nodes of a cache from head on, along next.
ListOf(c) ==
    LET from[i \in 0 .. Cardinality(Nodes)] ==
            [n \in Pointers |-> IF n \notin c.live \/ i = 0 THEN <<>>
                               ELSE <<n>> \o from[i - 1][c.node[n].next]]
    IN  from[Cardinality(Nodes)][c.head]

Listed == ListOf(cache)

(* The list that starts at head holds every node once, its prev pointers   *)
(* run it backwards, and it ends at tail.                                  *)
ListLinked ==
    sound =>
        /\ {Listed[i] : i \in DOMAIN Listed} = cache.live
        /\ Len(Listed) = Cardinality(cache.live)
        /\ \A i \in DOMAIN Listed :
              cache.node[Listed[i]].prev = IF i = 1 THEN Nil ELSE Listed[i - 1]
        /\ cache.tail = IF Listed = <<>> THEN Nil ELSE Listed[Len(Listed)]

(* Where no two keys share a bucket, each cached key is found, in the one  *)
(* node that holds it, even when some pointer was left behind.             *)
EveryNodeFound == \A n \in cache.live : Found(cache.node[n].key) = n

\* The pairs of keys and values in the order of the list.
EntriesOf(c) ==
    [i \in DOMAIN ListOf(c) |-> [key |-> c.node[ListOf(c)[i]].key, value |-> c.node[ListOf(c)[i]].value]]

(* The cache is a map that may forget its least recently used key.         *)
Store == INSTANCE LruStore WITH entries <- EntriesOf(cache)

ImplementsStore == Store!Spec

(* After pop_cache of a key, get_cache finds nothing until it is set again.*)
PoppedIsGone == [][\A k \in Keys : GetCache(k) /\ answer' # -1 => latest[k] # -1]_vars

(* A search that starts at a bucket, or at any node one may point to, ends *)
(* at a node of the key or at the end of the list: the list has no circle, *)
(* and no node that is gone is on the way.                                 *)
SearchEnds ==
    sound => \A n \in cache.live \cup {cache.map[b] : b \in Buckets}, k \in Keys :
                LET m == Search(cache, n, k)
                IN  m = Nil \/ (m \in cache.live /\ cache.node[m].key = k)
=============================================================================
