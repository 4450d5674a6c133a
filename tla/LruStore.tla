------------------------------ MODULE LruStore ------------------------------
(***************************************************************************)
(* What lru_cache promises, with no word about nodes and pointers: a map   *)
(* from keys to values that remembers in which order the keys were used,   *)
(* answers with the value set last, and may forget the least recently used *)
(* key when a new one is set.  Once the cache is broken nothing is promised*)
(* any more.                                                               *)
(***************************************************************************)
EXTENDS Integers, Sequences

CONSTANTS Keys, Values

VARIABLES
    entries,    \* the cached pairs, the most recently used first
    answer,     \* the value the last operation returned, -1 for none
    sound       \* FALSE from the step on that breaks the cache

vars == <<entries, answer, sound>>

Init == entries = <<>> /\ answer = -1 /\ sound = TRUE

Entry(k, v) == [key |-> k, value |-> v]
Cached(k) == \E i \in DOMAIN entries : entries[i].key = k

\* The entries but for the j-th.
Without(j) == [i \in 1 .. Len(entries) - 1 |-> IF i < j THEN entries[i] ELSE entries[i + 1]]

Set(k, v) ==
    /\ \/ \E j \in DOMAIN entries :
             entries[j].key = k /\ entries' = <<Entry(k, v)>> \o Without(j)
       \/ ~ Cached(k) /\ entries' = <<Entry(k, v)>> \o entries
       \/ /\ ~ Cached(k) /\ entries # <<>>
          /\ entries' = <<Entry(k, v)>> \o SubSeq(entries, 1, Len(entries) - 1)
    /\ answer' = -1

Get(k) ==
    \/ \E j \in DOMAIN entries :
          /\ entries[j].key = k
          /\ answer' = entries[j].value
          /\ entries' = <<entries[j]>> \o Without(j)
    \/ ~ Cached(k) /\ answer' = -1 /\ UNCHANGED entries

Pop(k) ==
    /\ \/ \E j \in DOMAIN entries : entries[j].key = k /\ entries' = Without(j)
       \/ ~ Cached(k) /\ UNCHANGED entries
    /\ answer' = -1

\* The step that breaks the cache, and any step after it.
Broken == ~ sound'

Next ==
    \/ /\ \E k \in Keys : (\E v \in Values : Set(k, v)) \/ Get(k) \/ Pop(k)
       /\ UNCHANGED sound
    \/ Broken

Spec == Init /\ [][Next]_vars
=============================================================================
