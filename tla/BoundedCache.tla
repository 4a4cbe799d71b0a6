---------------------------- MODULE BoundedCache ----------------------------
(***************************************************************************)
(* The strict bounded LRU cache (crates/ramforge-core/src/cache.rs) and    *)
(* the raw tensor runtime that reads through it (crates/ramforge-runtime/  *)
(* src/lib.rs), over a ledger that its other users go on charging.         *)
(*                                                                         *)
(* A cache is used either through its budgeted operations, which charge    *)
(* every entry to the ledger under "cache:<key>", or through the plain     *)
(* ones, which do not know the ledger.                                     *)
(***************************************************************************)
EXTENDS MemoryBudget, LruList

CONSTANT CachePrefix    \* the prefix ("cache:") of the cache's charges

ASSUME CachePrefixAssumption == CachePrefix \in NamePrefixes \ {TempPrefix}

VARIABLE cache

cacheVars == <<budget, scopes, unwinding, result, cache>>

Keys == Rests
BudgetKey(key) == <<CachePrefix, key>>
Forms == {"budgeted", "plain"}

NewCache(form, capacity) ==
    [form |-> form, capacity |-> capacity, used |-> 0,
     entries |-> [key \in {} |-> 0], lru |-> <<>>]

CacheInit ==
    /\ Init
    /\ \E form \in Forms, capacity \in 1..MaxU64 : cache = NewCache(form, capacity)
-----------------------------------------------------------------------------
Cached(c, key) == key \in DOMAIN c.entries

\* The sum of the sizes of the entries.
TotalSize(entries) == Cardinality(UNION {{key} \X (1..entries[key]) : key \in DOMAIN entries})

Keeping(c, keys) == [key \in DOMAIN c.entries \cap keys |-> c.entries[key]]

\* The cache without some of its entries, each one's size taken off `used`,
\* and with what is left of the recency list.
Shrunk(c, keys, lru) ==
    [form |-> c.form, capacity |-> c.capacity,
     used |-> c.used - TotalSize(Keeping(c, keys)),
     entries |-> Keeping(c, Keys \ keys), lru |-> lru]

Removed(c, key) == Shrunk(c, {key}, Without(c.lru, key))

\* The cache after n evictions.
Evicted(c, n) == Shrunk(c, Oldest(c.lru, n), Newest(c.lru, n))

\* get on a hit: the key moves to the front.
Touched(c, key) ==
    [form |-> c.form, capacity |-> c.capacity, used |-> c.used,
     entries |-> c.entries, lru |-> <<key>> \o Without(c.lru, key)]

With(c, key, size) ==
    [form |-> c.form, capacity |-> c.capacity, used |-> c.used + size,
     entries |-> [k \in DOMAIN c.entries \union {key} |-> IF k = key THEN size ELSE c.entries[k]],
     lru |-> <<key>> \o c.lru]

\* The names charged for some of the keys, and the ledger without them.
ChargesOf(c, keys) == {BudgetKey(key) : key \in DOMAIN c.entries \cap keys}

Uncharged(b, c, keys) ==
    [total |-> b.total,
     allocations |-> [n \in Names |-> IF n \in ChargesOf(c, keys) THEN 0 ELSE b.allocations[n]],
     used |-> b.used - TotalSize(Keeping(c, keys)), peak_used |-> b.peak_used]

FitsCapacity(c, size) == c.used + size <= c.capacity

\* The evictions that make room for size bytes in the cache, and in a ledger.
EvictionsForCapacity(c, size) ==
    EvictionCounts(c.lru, LAMBDA n : FitsCapacity(Evicted(c, n), size))

EvictionsForBudget(c, b, size) ==
    EvictionCounts(c.lru, LAMBDA n : CanAllocate(Uncharged(b, c, Oldest(c.lru, n)), size))
-----------------------------------------------------------------------------
Lookup(key) ==
    /\ ~unwinding
    /\ cache' = IF Cached(cache, key) THEN Touched(cache, key) ELSE cache
    /\ UNCHANGED <<budget, scopes, unwinding, result>>

\* insert
Insert(key, size) ==
    /\ ~unwinding
    /\ cache.form = "plain"
    /\ IF size > cache.capacity
       THEN UNCHANGED cache
       ELSE \E n \in EvictionsForCapacity(Removed(cache, key), size) :
               cache' = With(Evicted(Removed(cache, key), n), key, size)
    /\ UNCHANGED <<budget, scopes, unwinding, result>>

\* How the builder of an entry ends: with the bytes it promised, another
\* number of bytes, an error or a panic.
Builds == {"built", "mismatch", "error", "panic"}

\* The charge comes before the builder runs, and every way in which the
\* builder fails gives it back.  A panic of the builder goes on through the
\* scopes around the call.
Built(room, ledger, key, size, build) ==
    LET charge == AllocateResult(ledger, BudgetKey(key), size)
        charged == Allocated(ledger, BudgetKey(key), size)
    IN \/ /\ charge # "Ok"                             \* not cached
          /\ cache' = room
          /\ budget' = ledger
          /\ UNCHANGED unwinding
       \/ /\ charge = "Ok"
          /\ build = "built"
          /\ cache' = With(room, key, size)
          /\ budget' = charged
          /\ UNCHANGED unwinding
       \/ /\ charge = "Ok"
          /\ build # "built"
          /\ cache' = room
          /\ budget' = Released(charged, BudgetKey(key))
          /\ unwinding' = (build = "panic" /\ scopes # <<>>)

(***************************************************************************)
(* insert_budgeted_with: the old entry of the key goes first, then least   *)
(* recently used ones until the capacity has room, then more until the     *)
(* ledger has room; then the entry is charged and built.                   *)
(***************************************************************************)
InsertBudgetedWith(key, size, build) ==
    /\ ~unwinding
    /\ cache.form = "budgeted"
    /\ IF size \notin 1..cache.capacity
       THEN UNCHANGED <<cache, budget, unwinding>>     \* refused
       ELSE LET open == Removed(cache, key)
                opened == Uncharged(budget, cache, {key})
            IN \E m \in EvictionsForCapacity(open, size) :
                  LET fitting == Evicted(open, m)
                      freed == Uncharged(opened, open, Oldest(open.lru, m))
                  IN \E n \in EvictionsForBudget(fitting, freed, size) :
                        Built(Evicted(fitting, n),
                              Uncharged(freed, fitting, Oldest(fitting.lru, n)),
                              key, size, build)
    /\ UNCHANGED <<scopes, result>>

\* Runtime::get_tensor: a hit is touched and copied; a miss is read into the
\* cache when both limits allow, and otherwise read for the caller alone.
GetTensor(key, size, build) ==
    /\ cache.form = "budgeted"
    /\ \/ /\ Cached(cache, key)
          /\ Lookup(key)
       \/ /\ ~Cached(cache, key)
          /\ InsertBudgetedWith(key, size, build)

\* Mutant: the entry goes, its charge stays.
RemoveBudgetedKeepingCharge(key) ==
    /\ ~unwinding
    /\ cache.form = "budgeted"
    /\ cache' = Removed(cache, key)
    /\ UNCHANGED <<budget, scopes, unwinding, result>>

RemoveBudgeted(key) ==
    /\ ~unwinding
    /\ cache.form = "budgeted"
    /\ cache' = Removed(cache, key)
    /\ budget' = Uncharged(budget, cache, {key})
    /\ UNCHANGED <<scopes, unwinding, result>>

RemovePlain(key) ==
    /\ ~unwinding
    /\ cache.form = "plain"
    /\ cache' = Removed(cache, key)
    /\ UNCHANGED <<budget, scopes, unwinding, result>>

Emptied(c) == NewCache(c.form, c.capacity)

ClearBudgeted ==
    /\ ~unwinding
    /\ cache.form = "budgeted"
    /\ cache' = Emptied(cache)
    /\ budget' = Uncharged(budget, cache, DOMAIN cache.entries)
    /\ UNCHANGED <<scopes, unwinding, result>>

Clear ==
    /\ ~unwinding
    /\ cache.form = "plain"
    /\ cache' = Emptied(cache)
    /\ UNCHANGED <<budget, scopes, unwinding, result>>

\* The other users of the ledger, none of whom charges a "cache:" name.  A
\* plain cache has no part in what they do.
OthersNext ==
    /\ cache.form = "budgeted"
    /\ Next
    /\ \A key \in Keys : budget'.allocations[BudgetKey(key)] = budget.allocations[BudgetKey(key)]
    /\ UNCHANGED cache

CacheNext ==
    \/ OthersNext
    \/ \E key \in Keys : Lookup(key) \/ RemovePlain(key) \/ RemoveBudgeted(key)
    \/ \E key \in Keys, size \in 0..MaxU64 :
          \/ Insert(key, size)
          \/ \E build \in Builds :
                \/ GetTensor(key, size, build)
                \/ Cached(cache, key) /\ InsertBudgetedWith(key, size, build)   \* replaced
    \/ Clear
    \/ ClearBudgeted

CacheSpec == CacheInit /\ [][CacheNext]_cacheVars
-----------------------------------------------------------------------------
(***************************************************************************)
(* The cache's four records agree: the recency list holds every entry once *)
(* and `used` is the sum of their sizes within the capacity; and the       *)
(* ledger's "cache:" charges are the entries of a budgeted cache, byte for *)
(* byte, whichever way inserts, builders, evictions and clears ended.      *)
(***************************************************************************)
CacheChargesMatch ==
    /\ {cache.lru[i] : i \in 1..Len(cache.lru)} = DOMAIN cache.entries
    /\ Len(cache.lru) = Cardinality(DOMAIN cache.entries)
    /\ cache.used = TotalSize(cache.entries)
    /\ cache.used <= cache.capacity
    /\ \A key \in Keys :
          budget.allocations[BudgetKey(key)] =
             IF cache.form = "budgeted" /\ Cached(cache, key) THEN cache.entries[key] ELSE 0

=============================================================================
