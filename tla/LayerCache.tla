----------------------------- MODULE LayerCache -----------------------------
(***************************************************************************)
(* The layer cache under every sequence of calls of its clients, with its  *)
(* eviction loops run one iteration at a time and every error path of the  *)
(* code.  The clients load layers (charging "layer:i:" names), offer them  *)
(* to the cache, look entries up, ask for headroom, clear the cache, and   *)
(* charge other names of the same ledger in between.                       *)
(***************************************************************************)
EXTENDS LayerStore

CONSTANT Other      \* a name the rest of the engine charges

ASSUME OtherAssumption ==
    /\ Other \in Names
    /\ \A i \in Layers : Other[1] \notin {Active(i), Resident(i)}

VARIABLES
    budget,   \* the ledger
    cache,    \* the cache
    call,     \* the call in progress, its arguments and the state it started in
    result    \* what the last call returned

vars == <<budget, cache, call, result>>

Ops == {"idle", "insert", "headroom", "clear"}
Idle == [op |-> "idle"]

Called(op, bytes) == [op |-> op, bytes |-> bytes, cache |-> cache, budget |-> budget]

\* The call insert_loaded(i, bytes) once it has decided to insert.
Inserting(i, bytes, c, b) ==
    [op |-> "insert", layer |-> i, bytes |-> bytes, cache |-> c, budget |-> b]

TypeOK ==
    /\ budget \in Ledgers
    /\ cache \in Caches
    /\ call.op \in Ops
    /\ call.op = "insert" => call.layer \in Layers
    /\ call # Idle => call.bytes \in 0..MaxU64
    /\ result \in {"None", "Cached", "Skipped", "Hit", "Miss", "Ok", "Err"}

Init ==
    /\ \E total \in 1..MaxU64 :
          /\ budget = NewLedger(total)
          /\ \E capacity \in 0..total : cache = NewCache(capacity)
    /\ call = Idle
    /\ result = "None"

Return(r) == call' = Idle /\ result' = r
-----------------------------------------------------------------------------
(***************************************************************************)
(* The clients, between calls of the cache.                                *)
(***************************************************************************)

\* load_layer charges one tensor of a layer.
LoadTensor(i, rest, bytes) ==
    /\ call = Idle
    /\ AllocateResult(budget, <<Active(i), rest>>, bytes) = "Ok"
    /\ budget' = Allocated(budget, <<Active(i), rest>>, bytes)
    /\ UNCHANGED <<cache, call, result>>

\* release_layer
ReleaseLayer(i) ==
    /\ call = Idle
    /\ ChargedUnder(budget, Active(i)) # {}
    /\ budget' = LayerReleased(budget, i)
    /\ UNCHANGED <<cache, call, result>>

ChargeOther(bytes) ==
    /\ call = Idle
    /\ AllocateResult(budget, Other, bytes) = "Ok"
    /\ budget' = Allocated(budget, Other, bytes)
    /\ UNCHANGED <<cache, call, result>>

ReleaseOther ==
    /\ call = Idle
    /\ Charged(budget, Other)
    /\ budget' = Released(budget, Other)
    /\ UNCHANGED <<cache, call, result>>
-----------------------------------------------------------------------------
WithEntry(i) ==
    /\ call = Idle
    /\ result' = IF Cached(cache, i) THEN "Hit" ELSE "Miss"
    /\ cache' = IF Cached(cache, i) THEN Touched(cache, i) ELSE cache
    /\ UNCHANGED <<budget, call>>

(***************************************************************************)
(* insert_loaded up to its eviction loop.  The size the caller passes is   *)
(* the resident size of the layer, which is less than the layer's charges  *)
(* when a tensor is empty (it is charged 1 byte).                          *)
(***************************************************************************)
InsertSkipped(i, bytes) ==
    \/ bytes = 0
    \/ bytes > cache.capacity
    \/ SumOf(budget, ChargedUnder(budget, Active(i))) # bytes

InsertLoaded(i, bytes) ==
    /\ call = Idle
    /\ ChargedUnder(budget, Active(i)) # {}
    /\ bytes <= SumOf(budget, ChargedUnder(budget, Active(i)))
    /\ \/ /\ InsertSkipped(i, bytes)
          /\ Return("Skipped")
          /\ UNCHANGED <<budget, cache>>
       \/ /\ ~InsertSkipped(i, bytes)
          /\ ~Cached(cache, i)
          /\ call' = Inserting(i, bytes, cache, budget)
          /\ UNCHANGED <<budget, cache, result>>
       \/ /\ ~InsertSkipped(i, bytes)
          /\ Cached(cache, i)
          /\ IF ReleaseEntryResult(cache, budget, i) = "Ok"
             THEN /\ cache' = EntryReleased(cache, i, Without(cache.lru, i))
                  /\ budget' = EntryChargesReleased(cache, budget, i)
                  /\ call' = Inserting(i, bytes, cache', budget')
                  /\ UNCHANGED result
             ELSE Return("Err") /\ UNCHANGED <<budget, cache>>

\* evict_lru on a cache that is not empty.
EvictLru ==
    IF ReleaseEntryResult(cache, budget, Victim(cache)) = "Ok"
    THEN /\ cache' = EntryReleased(cache, Victim(cache), Popped(cache))
         /\ budget' = EntryChargesReleased(cache, budget, Victim(cache))
         /\ UNCHANGED <<call, result>>
    ELSE Return("Err") /\ UNCHANGED <<budget, cache>>

\* One turn of the loop that makes room in the cache.
InsertEvicts ==
    /\ call.op = "insert"
    /\ cache.used + call.bytes > cache.capacity
    /\ IF cache.lru = <<>>
       THEN Return("Skipped") /\ UNCHANGED <<budget, cache>>
       ELSE EvictLru

\* The rename of the charges and, when it fails, the release of the layer.
InsertConverts ==
    /\ call.op = "insert"
    /\ cache.used + call.bytes <= cache.capacity
    /\ IF RenamePrefixResult(budget, Active(call.layer), Resident(call.layer)) = "Ok"
       THEN /\ budget' = PrefixRenamed(budget, Active(call.layer), Resident(call.layer))
            /\ cache' = EntryInserted(cache, budget, call.layer, call.bytes)
            /\ Return("Cached")
       ELSE /\ budget' = LayerReleased(budget, call.layer)
            /\ Return("Err")
            /\ UNCHANGED cache
-----------------------------------------------------------------------------
EvictUntilAvailable(bytes) ==
    /\ call = Idle
    /\ call' = Called("headroom", bytes)
    /\ UNCHANGED <<budget, cache, result>>

\* Mutant: one entry is evicted without asking whether it is needed.
HeadroomEvictsEagerly ==
    /\ call.op = "headroom"
    /\ IF cache.lru = <<>> \/ (cache # call.cache /\ CanAllocate(budget, call.bytes))
       THEN Return("Ok") /\ UNCHANGED <<budget, cache>>
       ELSE EvictLru

\* Mutant: an empty cache does not end the loop.
HeadroomSpins ==
    /\ call.op = "headroom"
    /\ IF CanAllocate(budget, call.bytes)
       THEN Return("Ok") /\ UNCHANGED <<budget, cache>>
       ELSE IF cache.lru = <<>> THEN UNCHANGED vars ELSE EvictLru

HeadroomEvicts ==
    /\ call.op = "headroom"
    /\ IF CanAllocate(budget, call.bytes) \/ cache.lru = <<>>
       THEN Return("Ok") /\ UNCHANGED <<budget, cache>>
       ELSE EvictLru

Clear ==
    /\ call = Idle
    /\ call' = Called("clear", 0)
    /\ UNCHANGED <<budget, cache, result>>

ClearEvicts ==
    /\ call.op = "clear"
    /\ IF cache.lru = <<>>
       THEN Return("Ok") /\ UNCHANGED <<budget, cache>>
       ELSE EvictLru
-----------------------------------------------------------------------------
CacheStep == InsertEvicts \/ InsertConverts \/ HeadroomEvicts \/ ClearEvicts

Next ==
    \/ \E i \in Layers, rest \in Rests, bytes \in 1..MaxU64 : LoadTensor(i, rest, bytes)
    \/ \E bytes \in 1..MaxU64 : ChargeOther(bytes)
    \/ ReleaseOther
    \/ \E i \in Layers : ReleaseLayer(i) \/ WithEntry(i)
    \/ \E i \in Layers, bytes \in 0..MaxU64 : InsertLoaded(i, bytes)
    \/ \E bytes \in 0..MaxU64 : EvictUntilAvailable(bytes)
    \/ Clear
    \/ CacheStep

\* A call runs to its end: it holds the cache's lock and never waits.
Fairness == WF_vars(CacheStep)

Spec == Init /\ [][Next]_vars /\ Fairness
-----------------------------------------------------------------------------
(***************************************************************************)
(* used_bytes is the sum of the entries' sizes and never exceeds the       *)
(* capacity, whatever was replaced, evicted or refused before (the         *)
(* debug_assert at the end of insert_loaded).                              *)
(***************************************************************************)
CacheAccounting ==
    /\ cache.used = EntryBytes(cache, Layers)
    /\ cache.used <= cache.capacity

(***************************************************************************)
(* The "cache:layer:i:" names charged in the ledger are exactly the names  *)
(* entry i recorded when it was inserted, and they add up to its size: no  *)
(* charge outlives its layer and no cached layer is undercharged.          *)
(***************************************************************************)
ChargesMatchEntries ==
    \A i \in Layers :
       /\ ChargedUnder(budget, Resident(i)) = cache.entries[i].charge_names
       /\ SumOf(budget, cache.entries[i].charge_names) = cache.entries[i].bytes

(***************************************************************************)
(* The LRU list holds every cached layer once and nothing else, so that an *)
(* eviction always finds its entry.                                        *)
(***************************************************************************)
LruMatchesEntries ==
    /\ \A j, k \in 1..Len(cache.lru) : cache.lru[j] = cache.lru[k] => j = k
    /\ {cache.lru[j] : j \in 1..Len(cache.lru)} = {i \in Layers : Cached(cache, i)}

(***************************************************************************)
(* None of the accounting errors that insert_loaded, evict_until_available *)
(* and clear can return (missing entry, missing charge, size mismatch,     *)
(* underflow, rename collision) is reachable through the cache's own API.  *)
(***************************************************************************)
AccountingNeverFails == result # "Err"

\* The cache, its list and the ledger agree at every step, inside the
\* eviction loops of insert_loaded, evict_until_available and clear too, and
\* so none of these ever stops on an accounting error.
CacheConsistent ==
    /\ TypeOK
    /\ CacheAccounting
    /\ ChargesMatchEntries
    /\ LruMatchesEntries
    /\ AccountingNeverFails

(***************************************************************************)
(* When a call that evicts returns, the cache and the ledger are those of  *)
(* the fewest LRU evictions that satisfy it: nothing is evicted that could *)
(* have stayed, and headroom is refused only by an empty cache.            *)
(***************************************************************************)
ReturnsWithFewestEvictions ==
    LET k == CASE call.op = "headroom" -> EvictionsFor(call.cache, call.budget, call.bytes)
               [] call.op = "clear" -> Len(call.cache.lru)
               [] call.op = "insert" -> EvictionsToFit(call.cache, call.bytes)
               [] call.op = "idle" -> 0
    IN call # Idle /\ call' = Idle =>
          /\ cache = CacheEvicted(call.cache, k)
          /\ budget = BudgetEvicted(call.cache, call.budget, k)

EvictsOnlyWhatIsNeeded == [][ReturnsWithFewestEvictions]_vars

(***************************************************************************)
(* While a call of the cache is in progress it touches no charge but those *)
(* of its entries, except that insert_loaded renames the layer it inserts. *)
(* A layer a client has loaded but not handed over stays charged.          *)
(***************************************************************************)
KeepsOtherCharges ==
    call # Idle =>
       \A n \in Names :
          \/ \E i \in Layers : n[1] = Resident(i)
          \/ call.op = "insert" /\ n[1] = Active(call.layer)
          \/ budget'.allocations[n] = budget.allocations[n]

OthersUntouched == [][KeepsOtherCharges]_vars

(***************************************************************************)
(* Every call of the cache returns.                                        *)
(***************************************************************************)
CallsReturn == call # Idle ~> call = Idle

(***************************************************************************)
(* Evictions are exact: the least recently used layers, as few as will do, *)
(* and no charge of anyone else (evict_until_available, insert_loaded).    *)
(***************************************************************************)
EvictionsExact == EvictsOnlyWhatIsNeeded /\ OthersUntouched
=============================================================================
