------------------------------- MODULE LruList -------------------------------
(***************************************************************************)
(* The recency lists of RAMforge's caches: the most recently used key      *)
(* first, each key at most once.  The layer cache (ramforge-runtime/src/   *)
(* layer_cache.rs) and the bounded cache (ramforge-core/src/cache.rs) both *)
(* keep one in a VecDeque, with retain, push_front and pop_back.           *)
(***************************************************************************)
EXTENDS Integers, Sequences

\* retain, on a list that holds a key at most once: the place of x goes.
Without(lru, x) ==
    LET places == {k \in 1..Len(lru) : lru[k] = x}
        at == CHOOSE k \in places : TRUE
    IN IF places = {} THEN lru ELSE SubSeq(lru, 1, at - 1) \o SubSeq(lru, at + 1, Len(lru))

\* The last n keys, and the list without them.
Oldest(lru, n) == {lru[j] : j \in (Len(lru) - n + 1)..Len(lru)}
Newest(lru, n) == SubSeq(lru, 1, Len(lru) - n)

(***************************************************************************)
(* A loop that evicts the oldest key until enough are gone, or all: the    *)
(* number of its evictions, in a set of its own.                           *)
(***************************************************************************)
EvictionCounts(lru, Enough(_)) ==
    {n \in 0..Len(lru) :
       /\ n = Len(lru) \/ Enough(n)
       /\ \A j \in 0..(n - 1) : ~Enough(j)}
=============================================================================
