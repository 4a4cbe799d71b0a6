----------------------------- MODULE LayerStore -----------------------------
(***************************************************************************)
(* The cache of streamed layers                                            *)
(* (crates/ramforge-runtime/src/layer_cache.rs) as operators on a cache    *)
(* record and the ledger that pays for it.  Module LayerCache runs the     *)
(* code's loops step by step; module InferenceEngine uses their closed     *)
(* forms, which LayerCache shows to be what the loops compute.             *)
(*                                                                         *)
(* A layer that is being executed is charged under "layer:i:", a cached    *)
(* one under "cache:layer:i:".                                             *)
(***************************************************************************)
EXTENDS Budget, LruList

CONSTANT Layers     \* the layer indices

Active(i) == <<"layer", i>>
Resident(i) == <<"cache", i>>

ASSUME LayersAssumption ==
    \A i \in Layers : Active(i) \in NamePrefixes /\ Resident(i) \in NamePrefixes

\* The sum of the charges of a set of names.
SumOf(b, S) == Cardinality(UNION {{n} \X (1..b.allocations[n]) : n \in S})

\* The ledger after the release of every name of S.
ReleasedAll(b, S) ==
    [total |-> b.total,
     allocations |-> [n \in Names |-> IF n \in S THEN 0 ELSE b.allocations[n]],
     used |-> b.used - SumOf(b, S), peak_used |-> b.peak_used]

\* streaming_model.rs release_layer: the charges of a loaded layer.
LayerReleased(b, i) == ReleasedAll(b, ChargedUnder(b, Active(i)))
-----------------------------------------------------------------------------
NoEntry == [bytes |-> 0, charge_names |-> {}]

Caches == [capacity : 0..MaxU64, used : 0..MaxU64,
           entries : [Layers -> [bytes : 0..MaxU64, charge_names : SUBSET Names]],
           lru : Seq(Layers)]

NewCache(capacity) == [capacity |-> capacity, used |-> 0,
                       entries |-> [i \in Layers |-> NoEntry], lru |-> <<>>]

\* insert_loaded refuses an entry of 0 bytes.
Cached(c, i) == c.entries[i].bytes # 0

\* The bytes of a set of entries.
EntryBytes(c, S) == Cardinality(UNION {{i} \X (1..c.entries[i].bytes) : i \in S})

Touched(c, i) == [c EXCEPT !.lru = <<i>> \o Without(c.lru, i)]

(***************************************************************************)
(* release_entry: what it checks before it drops the value, the entry it   *)
(* removes and the charges it releases.                                    *)
(***************************************************************************)
ReleaseEntryResult(c, b, i) ==
    LET entry == c.entries[i]
    IN IF ~Cached(c, i) THEN "EntryMissing"
       ELSE IF \E n \in entry.charge_names : ~Charged(b, n) THEN "ChargeMissing"
       ELSE IF SumOf(b, entry.charge_names) # entry.bytes THEN "ChargeMismatch"
       ELSE IF entry.bytes > c.used THEN "Underflow"
       ELSE "Ok"

\* Mutant: the entry's bytes stay in used_bytes.
EntryReleasedKeepingBytes(c, i, lru) ==
    [c EXCEPT !.entries[i] = NoEntry, !.lru = lru]

EntryReleased(c, i, lru) ==
    [c EXCEPT !.used = @ - c.entries[i].bytes, !.entries[i] = NoEntry, !.lru = lru]

EntryChargesReleased(c, b, i) == ReleasedAll(b, c.entries[i].charge_names)

\* The back of the LRU list, and the list without it.
Victim(c) == c.lru[Len(c.lru)]
Popped(c) == Newest(c.lru, 1)

\* The conversion of a loaded layer's charges into its cache entry.
EntryInserted(c, b, i, bytes) ==
    [c EXCEPT !.used = @ + bytes,
              !.lru = <<i>> \o @,
              !.entries[i] = [bytes |-> bytes,
                              charge_names |-> {<<Resident(i), n[2]>> :
                                                  n \in ChargedUnder(b, Active(i))}]]
-----------------------------------------------------------------------------
(***************************************************************************)
(* Closed forms of the eviction loops: the cache and the ledger after k    *)
(* evictions, and how many evictions a demand for bytes costs.             *)
(***************************************************************************)
Victims(c, k) == Oldest(c.lru, k)

CacheEvicted(c, k) ==
    [capacity |-> c.capacity,
     used |-> c.used - EntryBytes(c, Victims(c, k)),
     entries |-> [i \in Layers |-> IF i \in Victims(c, k) THEN NoEntry ELSE c.entries[i]],
     lru |-> Newest(c.lru, k)]

BudgetEvicted(c, b, k) ==
    ReleasedAll(b, UNION {c.entries[i].charge_names : i \in Victims(c, k)})

\* The evictions that bring the ledger enough headroom.
EvictionsFor(c, b, bytes) ==
    CHOOSE n \in EvictionCounts(c.lru, LAMBDA k : CanAllocate(BudgetEvicted(c, b, k), bytes)) : TRUE

\* The evictions insert_loaded makes for an entry that fits the cache.
EvictionsToFit(c, bytes) ==
    CHOOSE n \in EvictionCounts(c.lru, LAMBDA k : CacheEvicted(c, k).used + bytes <= c.capacity) : TRUE
=============================================================================
