----------------------- MODULE InferenceEngineProofs ------------------------
(***************************************************************************)
(* The inference engine, for every model with at least one layer, every    *)
(* size, budget, prompt and length, and wherever a charge, an allocation, a *)
(* read, a computation or the caller's callback fails.                     *)
(*                                                                         *)
(* The inductive invariant says at every place of the engine which scopes  *)
(* are open, which names are charged and what for (Charges, by Held), where *)
(* a generation is in its request (Positions) and how it can end (Endings). *)
(* The properties speak of a few places only: what a failure in the middle *)
(* of a layer leaves behind follows from what was held in the middle of it. *)
(***************************************************************************)
EXTENDS InferenceEngine, LayerStoreProofs
(* The names of the engine are names of the ledger, none of them the       *)
(* cache's, and no two are the same.                                       *)
LEMMA EngineNames ==
    /\ Temps \cup {KvCharge, KvGrowth} \subseteq Own
    /\ \A w \in DOMAIN Weights : Weight(w) \in Own
    /\ \A i \in Layers : LayerName(i) \in Own
<1>1. Temps \cup {KvCharge, KvGrowth} \cup {Weight(w) : w \in DOMAIN Weights} \subseteq Names
  BY NamesAssumption
<1>2. \A i \in Layers : LayerName(i) \in Names
  BY NamesAssumption, LayersAssumption DEF LayerName, Names
<1>3. \A i \in Layers : /\ \A n \in Temps \cup {KvCharge, KvGrowth} : n[1] # Resident(i)
                        /\ \A w \in DOMAIN Weights : Weight(w)[1] # Resident(i)
                        /\ \A j \in Layers : LayerName(j)[1] # Resident(i)
  BY DEF Temps, KvCharge, KvGrowth, Hidden, LogitsBuffer, Forward, Scratch, Weight, LayerName,
         Resident, Active
<1>4. QED
  BY <1>1, <1>2, <1>3 DEF Own

(* No two names of the engine are the same.                                *)
LEMMA NamesApart ==
    /\ Hidden # LogitsBuffer /\ Hidden # Forward /\ LogitsBuffer # Forward
    /\ Scratch \notin {Hidden, LogitsBuffer, Forward}
    /\ KvCharge # KvGrowth /\ {KvCharge, KvGrowth} \cap Temps = {}
    /\ \A w : Weight(w) \notin Temps \cup {KvCharge, KvGrowth}
    /\ \A i : LayerName(i) \notin Temps \cup {KvCharge, KvGrowth}
    /\ \A w, i : Weight(w) # LayerName(i)
    /\ \A v, w : Weight(v) = Weight(w) => v = w
    /\ \A i, j : LayerName(i) = LayerName(j) => i = j
<1> DEFINE kind(n) == n[1][1]
<1>1. /\ kind(Hidden) = "tmp:hidden" /\ kind(LogitsBuffer) = "tmp:logits"
      /\ kind(Forward) = "tmp:forward" /\ kind(Scratch) = "tmp:scratch"
      /\ kind(KvCharge) = "kv_cache" /\ kind(KvGrowth) = "kv_cache:growth"
      /\ \A w : kind(Weight(w)) = "weight" /\ Weight(w)[1][2] = w
      /\ \A i : kind(LayerName(i)) = "layer" /\ LayerName(i)[1][2] = i
  BY DEF KvCharge, KvGrowth, Hidden, LogitsBuffer, Forward, Scratch, Weight, LayerName, Active
<1> HIDE DEF kind
<1>2. /\ Hidden # LogitsBuffer /\ Hidden # Forward /\ LogitsBuffer # Forward
      /\ Scratch \notin {Hidden, LogitsBuffer, Forward} /\ KvCharge # KvGrowth
  BY <1>1
<1>3. {KvCharge, KvGrowth} \cap Temps = {}
  BY <1>1 DEF Temps
<1>4. \A w : Weight(w) \notin Temps \cup {KvCharge, KvGrowth}
  BY <1>1 DEF Temps
<1>5. \A i : LayerName(i) \notin Temps \cup {KvCharge, KvGrowth}
  BY <1>1 DEF Temps
<1>6. \A w, i : Weight(w) # LayerName(i)
  BY <1>1
<1>7. /\ \A v, w : Weight(v) = Weight(w) => v = w
      /\ \A i, j : LayerName(i) = LayerName(j) => i = j
  BY <1>1
<1>8. QED
  BY <1>2, <1>3, <1>4, <1>5, <1>6, <1>7

(* The types of the constants.                                             *)
LEMMA Sizing ==
    /\ NumLayers \in Nat /\ NumLayers >= 1 /\ Layers = 1..NumLayers
    /\ \A i \in Layers : /\ LayerResident[i] \in Nat /\ LayerPeak[i] \in Nat
                         /\ 1 <= LayerResident[i] /\ LayerResident[i] <= LayerPeak[i]
    /\ \A w \in DOMAIN Weights : /\ Weights[w].resident \in Nat /\ Weights[w].load \in Nat
                                 /\ 1 <= Weights[w].resident /\ Weights[w].resident <= Weights[w].load
    /\ DecodedRow \in Nat /\ DecodedRow >= 1 /\ ForwardBytes \in Nat /\ ForwardBytes >= 1
    /\ EmbdRow \in Nat /\ EmbdRow >= 1 /\ OutputRow \in Nat /\ OutputRow >= 1
    /\ KvBytes \in Nat /\ KvBytes >= 1 /\ Chunk \in Nat /\ Chunk >= 1 /\ Share \in Nat /\ Share >= 1
    /\ ScoreBytes \in Nat /\ LogitsBytes \in Nat /\ SamplerBytes \in Nat /\ MaxStreamChunk \in Nat
    /\ ContextLength \in Nat /\ MaxPrompt \in Nat /\ MaxNew \in Nat
    /\ MaxU64 \in Nat /\ \A t \in Totals : t \in 1..MaxU64
<1>1. NumLayers \in Nat /\ NumLayers >= 1 /\ Layers = 1..NumLayers
  BY SizesAssumption
<1>2. \A i \in Layers : /\ LayerResident[i] \in Nat /\ LayerPeak[i] \in Nat
                       /\ 1 <= LayerResident[i] /\ LayerResident[i] <= LayerPeak[i]
  BY SizesAssumption
<1>3. ASSUME NEW w \in DOMAIN Weights
      PROVE  /\ Weights[w].resident \in Nat /\ Weights[w].load \in Nat
             /\ 1 <= Weights[w].resident /\ Weights[w].resident <= Weights[w].load
  <2>1. /\ Weights[w].resident \in Nat \ {0} /\ Weights[w].load \in Nat
        /\ Weights[w].resident <= Weights[w].load
    BY SizesAssumption, Zenon
  <2>2. QED
    BY <2>1
<1>4. DecodedRow \in Nat /\ DecodedRow >= 1 /\ ForwardBytes \in Nat /\ ForwardBytes >= 1
  BY SizesAssumption
<1>5. EmbdRow \in Nat /\ EmbdRow >= 1 /\ OutputRow \in Nat /\ OutputRow >= 1
  BY <1>4, SizesAssumption
<1>6. KvBytes \in Nat /\ KvBytes >= 1 /\ Chunk \in Nat /\ Chunk >= 1 /\ Share \in Nat /\ Share >= 1
  BY SizesAssumption, MaxU64Assumption
<1>7. /\ ScoreBytes \in Nat /\ LogitsBytes \in Nat /\ SamplerBytes \in Nat /\ MaxStreamChunk \in Nat
      /\ ContextLength \in Nat /\ MaxPrompt \in Nat /\ MaxNew \in Nat
  BY SizesAssumption
<1>8. MaxU64 \in Nat /\ \A t \in Totals : t \in 1..MaxU64
  BY SizesAssumption, MaxU64Assumption
<1>9. QED
  BY <1>1, <1>2, <1>3, <1>4, <1>5, <1>6, <1>7, <1>8

-----------------------------------------------------------------------------
(* One operation of the ledger on a name that is not the cache's.          *)

\* The ledger d charges n so many bytes and everything else as b does.
Sets(c, b, d, n, bytes) ==
    /\ Consistent(c, d)
    /\ d.total = b.total
    /\ \A m \in Own : d.allocations[m] = IF m = n THEN bytes ELSE b.allocations[m]

(* The facts of a consistent ledger.                                       *)
LEMMA Ledger ==
    ASSUME NEW c, NEW b, Consistent(c, b)
    PROVE  /\ LedgerOK(b) /\ b \in Ledgers /\ b.used \in Nat /\ b.total \in Nat
           /\ b.used <= b.total /\ b.total <= MaxU64
           /\ Available(b) \in Nat /\ Available(b) <= MaxU64
           /\ \A n \in Names : b.allocations[n] \in Nat /\ b.allocations[n] \in 0..MaxU64
<1>1. LedgerOK(b) /\ b \in Ledgers
  BY DEF Consistent, LedgerOK
<1>2. /\ b.used \in Nat /\ b.total \in Nat /\ b.used <= b.total /\ b.total <= MaxU64
      /\ \A n \in Names : b.allocations[n] \in 0..MaxU64
  BY <1>1, LedgerParts DEF LedgerOK
<1>3. QED
  BY <1>1, <1>2, MaxU64Assumption DEF Available

(* A change of one charge leaves the cache's agreement alone.              *)
LEMMA SetsOne ==
    ASSUME NEW c, NEW b, Consistent(c, b), NEW d, LedgerOK(d), d.total = b.total,
           NEW n \in Own, NEW bytes, d.allocations = [b.allocations EXCEPT ![n] = bytes]
    PROVE  Sets(c, b, d, n, bytes)
<1>1. b.allocations \in [Names -> 0..MaxU64] /\ n \in Names
  BY Ledger DEF Ledgers, Own
<1>2. \A m \in Names : d.allocations[m] = IF m = n THEN bytes ELSE b.allocations[m]
  BY <1>1
<1>3. Consistent(c, d)
  <2>1. \A m \in Names : (\E i \in Layers : m[1] = Resident(i)) => d.allocations[m] = b.allocations[m]
    BY <1>2 DEF Own
  <2>2. QED
    BY <2>1, LedgerElsewhere
<1>4. QED
  BY <1>2, <1>3 DEF Sets, Own

(* A charge that is granted.                                               *)
LEMMA AllocatedStep ==
    ASSUME NEW c, NEW b, Consistent(c, b), NEW n \in Own, NEW bytes \in Nat,
           AllocateResult(b, n, bytes) = "Ok"
    PROVE  /\ Sets(c, b, Allocated(b, n, bytes), n, bytes)
           /\ b.allocations[n] = 0 /\ bytes # 0 /\ bytes <= MaxU64
<1>1. n \in Names
  BY DEF Own
<1>2. /\ bytes # 0 /\ b.allocations[n] = 0 /\ bytes <= Available(b)
  BY DEF AllocateResult, Charged, CanAllocate
<1>3. bytes <= MaxU64 /\ bytes \in 0..MaxU64
  BY <1>2, Ledger, MaxU64Assumption
<1>4. LedgerOK(Allocated(b, n, bytes))
  BY <1>1, <1>3, Ledger, AllocatedOK
<1>5. /\ Allocated(b, n, bytes).total = b.total
      /\ Allocated(b, n, bytes).allocations = [b.allocations EXCEPT ![n] = bytes]
  BY DEF Allocated, Recharged
<1> DEFINE d == Allocated(b, n, bytes)
<1> HIDE DEF d
<1>6. Sets(c, b, d, n, bytes)
  BY <1>4, <1>5, SetsOne DEF d
<1>7. QED
  BY <1>2, <1>3, <1>6 DEF d

(* A charge that is released.                                              *)
LEMMA ReleasedStep ==
    ASSUME NEW c, NEW b, Consistent(c, b), NEW n \in Own
    PROVE  Sets(c, b, Released(b, n), n, 0)
<1>1. n \in Names
  BY DEF Own
<1>2. LedgerOK(Released(b, n))
  BY <1>1, Ledger, ReleasedOK
<1>3. /\ Released(b, n).total = b.total
      /\ Released(b, n).allocations = [b.allocations EXCEPT ![n] = 0]
  BY DEF Released
<1> DEFINE d == Released(b, n)
<1> HIDE DEF d
<1>4. Sets(c, b, d, n, 0)
  BY <1>2, <1>3, SetsOne DEF d
<1>5. QED
  BY <1>4 DEF d

(* A charge that shrinks, as a loaded layer's does from its peak.          *)
LEMMA ResizedStep ==
    ASSUME NEW c, NEW b, Consistent(c, b), NEW n \in Own, NEW bytes \in Nat, bytes # 0,
           bytes <= b.allocations[n]
    PROVE  Sets(c, b, Resized(b, n, bytes), n, bytes)
<1>1. n \in Names
  BY DEF Own
<1>2. b.allocations[n] \in Nat /\ b.allocations[n] <= MaxU64 /\ LedgerOK(b) /\ b.used \in Nat
  BY <1>1, Ledger
<1>3. bytes \in 0..MaxU64 /\ b.allocations[n] <= b.used
  BY <1>1, <1>2, ReleasedOK, MaxU64Assumption
<1>4. ResizeResult(b, n, bytes) = "Ok"
  BY <1>2, <1>3 DEF ResizeResult, Charged
<1>5. LedgerOK(Resized(b, n, bytes))
  BY <1>1, <1>2, <1>3, <1>4, ResizedOK
<1>6. /\ Resized(b, n, bytes).total = b.total
      /\ Resized(b, n, bytes).allocations = [b.allocations EXCEPT ![n] = bytes]
  BY DEF Resized, Recharged
<1> DEFINE d == Resized(b, n, bytes)
<1> HIDE DEF d
<1>7. Sets(c, b, d, n, bytes)
  BY <1>5, <1>6, SetsOne DEF d
<1>8. QED
  BY <1>7 DEF d

(* A demand for room that a free name can be charged is met.               *)
LEMMA AllocateFits ==
    ASSUME NEW c, NEW b, Consistent(c, b), NEW n \in Own, b.allocations[n] = 0,
           NEW bytes \in Nat, bytes # 0
    PROVE  AllocateResult(b, n, bytes) = "Ok" <=> CanAllocate(b, bytes)
BY Ledger, MaxU64Assumption DEF AllocateResult, CanAllocate, Available, Charged

(* The swap of a buffer for a larger one.                                  *)
LEMMA CommittedStep ==
    ASSUME NEW c, NEW b, Consistent(c, b), NEW t \in Own, NEW r \in Own, t # r,
           b.allocations[t] # 0, NEW bytes \in Nat, bytes # 0, b.allocations[r] = bytes
    PROVE  /\ CommitResizeResult(b, t, r, bytes) = "Ok"
           /\ Consistent(c, ResizeCommitted(b, t, r, bytes))
           /\ ResizeCommitted(b, t, r, bytes).total = b.total
           /\ \A m \in Own : ResizeCommitted(b, t, r, bytes).allocations[m] =
                                IF m = t THEN bytes ELSE IF m = r THEN 0 ELSE b.allocations[m]
<1>1. t \in Names /\ r \in Names
  BY DEF Own
<1>2. /\ LedgerOK(b) /\ b.used \in Nat /\ b.total \in Nat /\ b.used <= b.total /\ b.total <= MaxU64
      /\ b.allocations[t] \in Nat /\ b.allocations[r] \in Nat /\ bytes <= MaxU64
  BY <1>1, Ledger
<1>3. b.allocations[t] + b.allocations[r] <= b.used
  BY <1>1, <1>2, TwoCharges
<1>4. CommitResizeResult(b, t, r, bytes) = "Ok"
  BY <1>2, <1>3, MaxU64Assumption DEF CommitResizeResult, Charged
<1> DEFINE d == ResizeCommitted(b, t, r, bytes)
<1>5. bytes \in 0..MaxU64
  BY <1>2, MaxU64Assumption
<1>6. LedgerOK(d)
  BY <1>1, <1>2, <1>4, <1>5, ResizeCommittedOK
<1>7. /\ d.total = b.total
      /\ d.allocations = [b.allocations EXCEPT ![t] = bytes, ![r] = 0]
  BY DEF ResizeCommitted, Recharged
<1> HIDE DEF d
<1>8. \A m \in Names : d.allocations[m] = IF m = t THEN bytes ELSE IF m = r THEN 0 ELSE b.allocations[m]
  <2>1. b.allocations \in [Names -> 0..MaxU64]
    BY Ledger DEF Ledgers
  <2>2. QED
    BY <1>1, <1>7, <2>1
<1>9. Consistent(c, d)
  <2>1. \A m \in Names : (\E i \in Layers : m[1] = Resident(i)) => d.allocations[m] = b.allocations[m]
    BY <1>8 DEF Own
  <2>2. QED
    BY <1>6, <2>1, LedgerElsewhere
<1>10. QED
  BY <1>4, <1>7, <1>8, <1>9 DEF d, Own

(* Several charges released at once.                                       *)
LEMMA ReleasedAllStep ==
    ASSUME NEW c, NEW b, Consistent(c, b), NEW S, S \subseteq Own
    PROVE  /\ Consistent(c, ReleasedAll(b, S))
           /\ ReleasedAll(b, S).total = b.total
           /\ \A m \in Own : ReleasedAll(b, S).allocations[m] =
                                IF m \in S THEN 0 ELSE b.allocations[m]
<1> DEFINE d == ReleasedAll(b, S)
<1>1. S \in SUBSET Names
  BY DEF Own
<1>2. d = [total |-> b.total,
           allocations |-> [n \in Names |-> IF n \in S THEN 0 ELSE b.allocations[n]],
           used |-> b.used - Cardinality(BytesOf(b.allocations, S)),
           peak_used |-> b.peak_used]
  BY Zenon DEF d, ReleasedAll, SumOf, BytesOf
<1> HIDE DEF d
<1>3. LedgerOK(d)
  BY <1>1, <1>2, Ledger, DischargeSet
<1>4. /\ d.total = b.total
      /\ \A m \in Names : d.allocations[m] = IF m \in S THEN 0 ELSE b.allocations[m]
  BY <1>2
<1>5. Consistent(c, d)
  <2>1. \A m \in Names : (\E i \in Layers : m[1] = Resident(i)) => d.allocations[m] = b.allocations[m]
    BY <1>4 DEF Own
  <2>2. QED
    BY <1>3, <2>1, LedgerElsewhere
<1>6. QED
  BY <1>4, <1>5 DEF d, Own

-----------------------------------------------------------------------------
(* The engine's own steps on the cache and the ledger.                     *)

\* The cache c and the ledger d agree, and d charges the engine what b does.
Kept(c, d, b) ==
    /\ Consistent(c, d)
    /\ d.total = b.total
    /\ \A n \in Own : d.allocations[n] = b.allocations[n]

(* A cache that k evictions have left is charged as the ledger says, and   *)
(* holds no layer it did not hold.                                         *)
LEMMA EvictedKept ==
    ASSUME NEW c, NEW b, Consistent(c, b), NEW k \in 0..Len(c.lru)
    PROVE  /\ Kept(CacheEvicted(c, k), BudgetEvicted(c, b, k), b)
           /\ CacheEvicted(c, k).capacity = c.capacity
           /\ \A i \in Layers : ~Cached(c, i) => ~Cached(CacheEvicted(c, k), i)
<1>1. LeavesInOrder(c, b, k)
  BY EvictedConsistent
<1>2. BudgetEvicted(c, b, k).total = b.total
  BY DEF BudgetEvicted, ReleasedAll
<1>3. \A i \in Layers : CacheEvicted(c, k).entries[i] \in {NoEntry, c.entries[i]}
  BY DEF CacheEvicted
<1>4. \A i \in Layers : ~Cached(c, i) => ~Cached(CacheEvicted(c, k), i)
  <2> DEFINE d == CacheEvicted(c, k)
  <2> HIDE DEF d
  <2>1. \A i \in Layers : d.entries[i] \in {NoEntry, c.entries[i]}
    BY <1>3 DEF d
  <2>2. \A i \in Layers : ~Cached(c, i) => ~Cached(d, i)
    BY <2>1 DEF Cached, NoEntry
  <2>3. QED
    BY <2>2 DEF d
<1>5. CacheEvicted(c, k).capacity = c.capacity
  BY DEF CacheEvicted
<1>6. QED
  BY <1>1, <1>2, <1>4, <1>5 DEF LeavesInOrder, Kept

(* Making room leaves the engine's charges alone and makes it, or empties  *)
(* the cache.                                                              *)
LEMMA RoomyStep ==
    ASSUME Consistent(cache, budget), NEW bytes
    PROVE  /\ Kept(RoomyCache(bytes), RoomyBudget(bytes), budget)
           /\ CanAllocate(RoomyBudget(bytes), bytes) \/ RoomyCache(bytes).lru = <<>>
           /\ \A i \in Layers : ~Cached(cache, i) => ~Cached(RoomyCache(bytes), i)
<1> DEFINE k == EvictionsFor(cache, budget, bytes)
<1>1. /\ k \in 0..Len(cache.lru)
      /\ CanAllocate(BudgetEvicted(cache, budget, k), bytes) \/ CacheEvicted(cache, k).lru = <<>>
  BY RoomMade
<1> HIDE DEF k
<1>2. /\ Kept(CacheEvicted(cache, k), BudgetEvicted(cache, budget, k), budget)
      /\ \A i \in Layers : ~Cached(cache, i) => ~Cached(CacheEvicted(cache, k), i)
  BY <1>1, EvictedKept
<1>3. QED
  BY <1>1, <1>2 DEF RoomyCache, RoomyBudget, k

(* Clearing the cache.                                                     *)
LEMMA ClearedStep ==
    ASSUME NEW b, Consistent(cache, b)
    PROVE  Kept(EmptyCache, WithoutCache(b), b) /\ EmptyCache.lru = <<>>
<1> DEFINE n == Len(cache.lru)
<1>1. n \in Nat /\ cache.lru \in Seq(Layers)
  <2>1. cache.lru \in Seq(Layers)
    BY DEF Consistent, LruExact
  <2>2. QED
    BY <2>1
<1>2. n \in 0..Len(cache.lru)
  BY <1>1
<1>3. CacheEvicted(cache, n).lru = <<>>
  BY <1>1 DEF CacheEvicted, Newest
<1> HIDE DEF n
<1>4. Kept(CacheEvicted(cache, n), BudgetEvicted(cache, b, n), b)
  BY <1>2, EvictedKept
<1>5. QED
  BY <1>3, <1>4 DEF EmptyCache, WithoutCache, n

(* A charge that is opened and closed at once leaves nothing.              *)
LEMMA PassingStep ==
    ASSUME NEW c, NEW b, Consistent(c, b), NEW bytes \in Nat, PassingFits(b, bytes)
    PROVE  Kept(c, Passing(b, bytes), b)
<1>1. CASE bytes = 0
  BY <1>1 DEF Passing, Kept
<1>2. CASE bytes # 0
  <2> DEFINE d == Allocated(b, Scratch, bytes)
  <2>1. Scratch \in Own
    BY EngineNames DEF Temps
  <2>2. AllocateResult(b, Scratch, bytes) = "Ok"
    BY <1>2 DEF PassingFits
  <2>3. Sets(c, b, d, Scratch, bytes) /\ b.allocations[Scratch] = 0
    BY <2>1, <2>2, AllocatedStep
  <2> HIDE DEF d
  <2>4. Sets(c, d, Released(d, Scratch), Scratch, 0)
    BY <2>1, <2>3, ReleasedStep DEF Sets
  <2>5. Kept(c, Released(d, Scratch), b)
    BY <2>3, <2>4 DEF Sets, Kept
  <2>6. QED
    BY <1>2, <2>5 DEF Passing, d
<1>3. QED
  BY <1>1, <1>2

(* Whether it fits is a matter of room alone.                              *)
LEMMA PassingRoom ==
    ASSUME NEW c, NEW b, Consistent(c, b), NEW bytes \in Nat, b.allocations[Scratch] = 0,
           CanAllocate(b, bytes)
    PROVE  PassingFits(b, bytes)
<1>1. Scratch \in Own
  BY EngineNames DEF Temps
<1>2. QED
  BY <1>1, AllocateFits DEF PassingFits

(* The KV cache is released if it is charged.                              *)
LEMMA WithoutKvStep ==
    ASSUME NEW c, NEW b, Consistent(c, b)
    PROVE  Sets(c, b, WithoutKv(b), KvCharge, 0)
<1>1. KvCharge \in Own
  BY EngineNames
<1>2. CASE Charged(b, KvCharge)
  BY <1>1, <1>2, ReleasedStep DEF WithoutKv
<1>3. CASE ~Charged(b, KvCharge)
  BY <1>1, <1>3 DEF WithoutKv, Sets, Charged
<1>4. QED
  BY <1>2, <1>3

(* The only name a loaded layer is charged under.                          *)
LEMMA LayerCharges ==
    ASSUME NEW b, NEW i \in Layers
    PROVE  /\ ChargedUnder(b, Active(i)) = IF b.allocations[LayerName(i)] = 0
                                           THEN {} ELSE {LayerName(i)}
           /\ \A n \in Names : n[1] = Active(i) <=> n = LayerName(i)
<1>1. LayerName(i) \in Names
  BY EngineNames DEF Own
<1>2. ASSUME NEW n \in Names PROVE n[1] = Active(i) <=> n = LayerName(i)
  <2>1. n = <<n[1], n[2]>> /\ n[2] = Only
    BY NamesAssumption DEF Names
  <2>2. QED
    BY <2>1 DEF LayerName
<1>3. QED
  BY <1>1, <1>2 DEF ChargedUnder, Charged

(* A loaded layer is released by its prefix, which is its name alone.      *)
LEMMA LayerReleasedStep ==
    ASSUME NEW c, NEW b, Consistent(c, b), NEW i \in Layers
    PROVE  Sets(c, b, LayerReleased(b, i), LayerName(i), 0)
<1> DEFINE S == ChargedUnder(b, Active(i))
<1>1. LayerName(i) \in Own
  BY EngineNames
<1>2. S \subseteq {LayerName(i)} /\ (b.allocations[LayerName(i)] # 0 => S = {LayerName(i)})
  BY LayerCharges
<1>3. S \subseteq Own
  BY <1>1, <1>2
<1> HIDE DEF S
<1>4. /\ Consistent(c, ReleasedAll(b, S)) /\ ReleasedAll(b, S).total = b.total
      /\ \A m \in Own : ReleasedAll(b, S).allocations[m] = IF m \in S THEN 0 ELSE b.allocations[m]
  BY <1>3, ReleasedAllStep
<1>5. \A m \in Own : ReleasedAll(b, S).allocations[m] =
                        IF m = LayerName(i) THEN 0 ELSE b.allocations[m]
  BY <1>2, <1>4
<1>6. QED
  BY <1>4, <1>5 DEF Sets, LayerReleased, S

(* A loaded layer becomes an entry of the cache.                           *)
LEMMA InsertedStep ==
    ASSUME NEW c, NEW b, Consistent(c, b), NEW i \in Layers, ~Cached(c, i),
           NEW bytes \in Nat, bytes # 0, b.allocations[LayerName(i)] = bytes,
           c.used + bytes <= c.capacity
    PROVE  Sets(EntryInserted(c, b, i, bytes), b, PrefixRenamed(b, Active(i), Resident(i)),
                LayerName(i), 0)
<1> DEFINE S == ChargedUnder(b, Active(i))
           d == PrefixRenamed(b, Active(i), Resident(i))
           e == EntryInserted(c, b, i, bytes)
<1>1. LayerName(i) \in Own /\ LayerName(i) \in Names
  BY EngineNames DEF Own
<1>2. S = {LayerName(i)}
  BY LayerCharges
<1>3. bytes \in 0..MaxU64
  BY <1>1, Ledger
<1>4. SumOf(b, S) = bytes
  <2>1. SumOf(b, {LayerName(i)}) = Cardinality(BytesOf(b.allocations, {LayerName(i)}))
    BY <1>1, Ledger, SumFinite
  <2>2. Cardinality(BytesOf(b.allocations, {LayerName(i)})) = bytes
    BY BytesOne
  <2>3. QED
    BY <1>2, <2>1, <2>2
<1>5. /\ Consistent(e, d)
      /\ \A n \in Names : n[1] # Resident(i) /\ n[1] # Active(i) => d.allocations[n] = b.allocations[n]
  BY <1>2, <1>3, <1>4, Converted
<1>6. d.total = b.total /\ d.allocations[LayerName(i)] = 0
  <2>1. b \in Ledgers
    BY Ledger
  <2>2. /\ d.total = b.total
        /\ d.allocations = [n \in Names |-> IF n[1] = Resident(i) /\ Charged(b, <<Active(i), n[2]>>)
                                            THEN b.allocations[<<Active(i), n[2]>>]
                                            ELSE IF n[1] = Active(i) THEN 0 ELSE b.allocations[n]]
    BY <2>1 DEF PrefixRenamed, Ledgers
  <2>3. LayerName(i)[1] = Active(i) /\ Active(i) # Resident(i)
    BY PrefixesDiffer DEF LayerName
  <2> HIDE DEF d
  <2>4. QED
    BY <1>1, <2>2, <2>3
<1> HIDE DEF d, e
<1>7. \A m \in Own : d.allocations[m] = IF m = LayerName(i) THEN 0 ELSE b.allocations[m]
  BY <1>5, <1>6, LayerCharges DEF Own
<1>8. QED
  BY <1>5, <1>6, <1>7 DEF Sets, d, e

-----------------------------------------------------------------------------
(* The inductive invariant.                                                *)

\* The places of a generation, by what is open there.
Opening == {"new_kv", "hidden", "logits_buffer"}
\* The forward pass has its scope open, ...
Pass == {"embed", "layer", "execute", "insert", "commit"}
\* ... the generation loop around it those of its buffers, ...
Loop == {"forward", "logits", "sample", "emit", "grow", "finish"}
\* ... and where the engine waits nothing is open.
Stopped == {"load", "idle", "rejected", "dropped"}
\* Where the engine can be.
Places == Stopped \cup Opening \cup Pass \cup Loop \cup {"failing"}

\* Where a layer is loaded that is not in the cache.
Loading == {"execute", "insert"}

\* The type invariant.
Types ==
    /\ pc \in Places
    /\ loaded \subseteq DOMAIN Weights
    /\ kv \in [capacity : Nat, seq_len : Nat]
    /\ run \in [prompt : Nat, max : Nat, pos : Nat, layer : Nat, tokens : Nat,
                scopes : SUBSET {Hidden, LogitsBuffer, Forward}]

\* The open with_temp scopes, from the outside in.
OpenScopes ==
    /\ pc \in Stopped \cup {"new_kv", "hidden"} => run.scopes = {}
    /\ pc = "logits_buffer" => run.scopes = {Hidden}
    /\ pc \in Loop => run.scopes = {Hidden, LogitsBuffer}
    /\ pc \in Pass => run.scopes = {Hidden, LogitsBuffer, Forward}

\* What is charged besides the KV cache and the cached layers.
Held == {Weight(w) : w \in loaded} \cup run.scopes
           \cup (IF pc \in Loading THEN {LayerName(run.layer)} ELSE {})

\* The ledger charges what the engine holds, and the cache agrees with it.
Charges ==
    /\ Consistent(cache, budget)
    /\ budget.allocations[KvCharge] = KvBytes * kv.capacity
    /\ \A n \in Own \ {KvCharge} : Charged(budget, n) <=> n \in Held
    /\ pc \in Loading => budget.allocations[LayerName(run.layer)] = LayerResident[run.layer]

\* The errors of the code; the internal ones are not among them.
Errors == {"Rejected", "Short", "Fault", "Callback"}

\* How the last call ended, or that none has.
Endings ==
    /\ pc \in {"load"} \cup Opening \cup Pass \cup (Loop \ {"finish"}) => outcome = "None"
    /\ pc = "finish" => outcome \in {"Eos", "MaxTokens"}
    /\ pc = "failing" => outcome \in Errors
    /\ outcome \in Errors \cup {"None", "Eos", "MaxTokens"}

\* Where there is a KV cache, where the layer cache is empty, and that the
\* layer being loaded is not in it.
Caching ==
    /\ kv.capacity = 0 => kv = NoKv
    /\ pc \in {"load", "rejected", "dropped", "new_kv"} => kv = NoKv
    /\ pc \in {"hidden", "logits_buffer"} \cup Pass \cup Loop => kv.capacity # 0
    /\ pc = "idle" => (kv # NoKv <=> outcome \in StopReasons)
    /\ pc \in {"rejected", "dropped"} => loaded = {}
    /\ pc \in Stopped \cup Opening => cache.lru = <<>>
    /\ pc \in {"layer"} \cup Loading => run.layer \in Layers
    /\ pc \in Loading => ~Cached(cache, run.layer)

\* Where a generation is in its request: before its first token at the next
\* position of the prompt, afterwards one position behind its tokens, which
\* the pass and then the sampling catch up with in turn.
Positions ==
    /\ pc \in Opening \cup Pass \cup Loop =>
          run.prompt >= 1 /\ run.prompt + run.max <= ContextLength /\ run.tokens <= run.max
    /\ pc \in Opening => run.pos = 0 /\ run.tokens = 0
    /\ pc \in {"hidden", "logits_buffer"} => kv.capacity = run.prompt /\ kv.seq_len = 0
    /\ pc \in Pass \cup Loop =>
          /\ kv.seq_len = run.pos
          /\ run.prompt <= kv.capacity /\ kv.capacity <= run.prompt + run.max
    /\ pc \in Pass \cup {"forward"} =>
          /\ run.pos < kv.capacity
          /\ \/ run.tokens = 0 /\ run.pos < run.prompt
             \/ run.tokens >= 1 /\ run.tokens < run.max /\ run.pos + 1 = run.prompt + run.tokens
    /\ pc \in {"logits", "sample"} =>
          run.pos <= kv.capacity /\ run.tokens < run.max /\ run.pos = run.prompt + run.tokens
    /\ pc = "emit" =>
          run.pos <= kv.capacity /\ run.tokens >= 1 /\ run.pos + 1 = run.prompt + run.tokens
    /\ pc = "grow" =>
          /\ run.pos = kv.capacity /\ run.tokens >= 1 /\ run.tokens < run.max
          /\ run.pos + 1 = run.prompt + run.tokens
    /\ pc = "finish" => /\ outcome = "MaxTokens" => run.tokens = run.max
                        /\ outcome = "Eos" => run.tokens < run.max

\* The inductive invariant.
Inv == Types /\ OpenScopes /\ Charges /\ Endings /\ Caching /\ Positions
-----------------------------------------------------------------------------
(* What the invariant says of single names.                                *)
LEMMA FreeNames ==
    ASSUME Types, Charges
    PROVE  /\ budget.allocations[KvGrowth] = 0 /\ budget.allocations[Scratch] = 0
           /\ \A w \in DOMAIN Weights : budget.allocations[Weight(w)] # 0 <=> w \in loaded
           /\ \A n \in {Hidden, LogitsBuffer, Forward} : budget.allocations[n] # 0 <=> n \in run.scopes
           /\ pc \notin Loading => \A i \in Layers : budget.allocations[LayerName(i)] = 0
<1>1. {KvGrowth, Scratch, Hidden, LogitsBuffer, Forward} \subseteq Own \ {KvCharge}
  BY EngineNames, NamesApart DEF Temps
<1>2. \A n \in Own \ {KvCharge} : budget.allocations[n] # 0 <=> n \in Held
  BY DEF Charges, Charged
<1>3. run.scopes \subseteq {Hidden, LogitsBuffer, Forward}
  BY DEF Types
<1>4. KvGrowth \notin Held /\ Scratch \notin Held
  BY <1>3, NamesApart DEF Held, Temps
<1>5. \A w : Weight(w) \in Held <=> w \in loaded
  BY <1>3, NamesApart DEF Held, Temps
<1>6. \A n \in {Hidden, LogitsBuffer, Forward} : n \in Held <=> n \in run.scopes
  BY <1>3, NamesApart DEF Held, Temps
<1>7. pc \notin Loading => \A i : LayerName(i) \notin Held
  BY <1>3, NamesApart DEF Held, Temps
<1>8. \A w \in DOMAIN Weights : Weight(w) \in Own \ {KvCharge}
  BY EngineNames, NamesApart
<1>9. \A i \in Layers : LayerName(i) \in Own \ {KvCharge}
  BY EngineNames, NamesApart
<1> HIDE DEF Held
<1>10. QED
  BY <1>1, <1>2, <1>4, <1>5, <1>6, <1>7, <1>8, <1>9

(* The charges in a state with other names held.                           *)
LEMMA ChargesNext ==
    ASSUME Consistent(cache', budget'),
           budget'.allocations[KvCharge] = KvBytes * kv'.capacity,
           \A n \in Own \ {KvCharge} : budget'.allocations[n] # 0 <=> n \in Held',
           pc' \in Loading =>
              budget'.allocations[LayerName(run'.layer)] = LayerResident[run'.layer]
    PROVE  Charges'
BY DEF Charges, Charged

(* A step that charges and releases nothing in the end.                    *)
LEMMA KeptCharges ==
    ASSUME Charges, Kept(cache', budget', budget), pc \notin Loading, pc' \notin Loading,
           kv'.capacity = kv.capacity, loaded' = loaded, run'.scopes = run.scopes
    PROVE  Charges'
<1>1. Held' = Held
  BY DEF Held
<1>2. KvCharge \in Own
  BY EngineNames
<1> HIDE DEF Held
<1>3. budget'.allocations[KvCharge] = KvBytes * kv'.capacity
  BY <1>2 DEF Kept, Charges
<1>4. \A n \in Own \ {KvCharge} : budget'.allocations[n] # 0 <=> n \in Held'
  BY <1>1 DEF Kept, Charges, Charged
<1>5. QED
  BY <1>3, <1>4, ChargesNext DEF Kept

\* Where a generation can fail.
Running == Opening \cup Pass \cup Loop

(* An error is on its way to the caller.                                   *)
LEMMA FailsShape ==
    ASSUME Inv, pc \in Running, NEW why \in Errors, NEW c, NEW b, Fails(why, c, b)
    PROVE  Types' /\ OpenScopes' /\ Endings' /\ Caching' /\ Positions'
<1>1. /\ pc' = "failing" /\ outcome' = why /\ loaded' = loaded /\ kv' = kv /\ run' = run
  BY DEF Fails
<1>2. Types'
  BY <1>1 DEF Inv, Types, Places
<1>3. OpenScopes' /\ Positions'
  BY <1>1 DEF OpenScopes, Positions, Stopped, Opening, Pass, Loop
<1>4. Endings'
  BY <1>1 DEF Endings, Opening, Pass, Loop
<1>5. Caching'
  BY <1>1 DEF Inv, Caching, Stopped, Opening, Pass, Loop, Loading
<1>6. QED
  BY <1>2, <1>3, <1>4, <1>5

(* An error of a step that charges and releases nothing in the end.        *)
LEMMA FailsKept ==
    ASSUME Inv, pc \in Running \ Loading, NEW why \in Errors, NEW c, NEW b,
           Kept(c, b, budget), Fails(why, c, b)
    PROVE  Inv'
<1>1. /\ pc' = "failing" /\ loaded' = loaded /\ kv' = kv /\ run' = run
      /\ cache' = c /\ budget' = b
  BY DEF Fails, Store
<1>2. Charges'
  BY <1>1, KeptCharges DEF Inv, Loading
<1>3. QED
  BY <1>2, FailsShape DEF Inv

(* A loaded layer is released on the way out of an error.                  *)
LEMMA FailsReleasing ==
    ASSUME Inv, pc \in Loading, NEW why \in Errors,
           Fails(why, cache, LayerReleased(budget, run.layer))
    PROVE  Inv'
<1> DEFINE n == LayerName(run.layer)
<1>1. /\ pc' = "failing" /\ loaded' = loaded /\ kv' = kv /\ run' = run
      /\ cache' = cache /\ budget' = LayerReleased(budget, run.layer)
  BY DEF Fails, Store
<1>2. run.layer \in Layers
  BY DEF Inv, Caching
<1>3. n \in Own /\ n # KvCharge /\ KvCharge \in Own
  BY <1>2, EngineNames, NamesApart
<1>4. Sets(cache, budget, budget', n, 0)
  BY <1>1, <1>2, LayerReleasedStep DEF Inv, Charges
<1>5. Held' = Held \ {n}
  <2>1. n \notin {Weight(w) : w \in loaded} \cup run.scopes
    BY NamesApart DEF Inv, Types, Temps
  <2>2. QED
    BY <1>1, <2>1 DEF Held, Loading
<1> HIDE DEF Held, n
<1>6. \A m \in Own \ {KvCharge} : budget'.allocations[m] # 0 <=> m \in Held'
  BY <1>4, <1>5 DEF Sets, Inv, Charges, Charged
<1>7. budget'.allocations[KvCharge] = KvBytes * kv'.capacity
  BY <1>1, <1>3, <1>4 DEF Sets, Inv, Charges
<1>8. Charges'
  BY <1>1, <1>4, <1>6, <1>7, ChargesNext DEF Sets, Loading
<1>9. pc \in Running
  BY DEF Running, Loading, Pass
<1>10. QED
  BY <1>8, <1>9, FailsShape DEF Inv
-----------------------------------------------------------------------------
(* Construction.                                                           *)
LEMMA InitEngine ==
    ASSUME Init
    PROVE  Inv
<1>1. PICK total \in Totals : budget = NewLedger(total)
  BY DEF Init
<1>2. /\ cache = NewCache(0) /\ loaded = {} /\ kv = NoKv /\ pc = "load" /\ run = NoRun
      /\ outcome = "None"
  BY DEF Init
<1>3. LedgerOK(budget) /\ \A n \in Names : budget.allocations[n] = 0
  <2>1. total \in 1..MaxU64
    BY Sizing
  <2>2. QED
    BY <1>1, <2>1, NewLedgerOK DEF NewLedger
<1>4. Consistent(cache, budget)
  <2>1. \A i \in Layers : ChargedUnder(budget, Resident(i)) = {}
    BY <1>3 DEF ChargedUnder, Charged
  <2>2. 0 \in 0..MaxU64
    BY Sizing
  <2>3. QED
    BY <1>2, <1>3, <2>1, <2>2, NewCacheConsistent
<1>5. Charges
  <2>1. Held = {}
    BY <1>2 DEF Held, NoRun, Loading
  <2>2. KvBytes * kv.capacity = 0
    BY <1>2, Sizing DEF NoKv
  <2>3. KvCharge \in Own /\ Own \subseteq Names
    BY EngineNames DEF Own
  <2>4. QED
    BY <1>2, <1>3, <1>4, <2>1, <2>2, <2>3 DEF Charges, Charged, Loading
<1>6. Types
  BY <1>2 DEF Types, Places, Stopped, NoKv, NoRun
<1>7. OpenScopes /\ Positions
  BY <1>2 DEF OpenScopes, Positions, NoRun, Stopped, Opening, Pass, Loop
<1>8. Endings
  BY <1>2 DEF Endings
<1>9. Caching
  BY <1>2 DEF Caching, NewCache, NoKv, Stopped, Opening, Pass, Loop, Loading
<1>10. QED
  BY <1>5, <1>6, <1>7, <1>8, <1>9 DEF Inv

-----------------------------------------------------------------------------
(* Two changes of the ledger in a row.                                     *)
LEMMA SetsTwice ==
    ASSUME NEW c, NEW b, NEW d, NEW e, NEW n, NEW bytes,
           Sets(c, b, d, n, bytes), Sets(c, d, e, n, 0), b.allocations[n] = 0
    PROVE  Kept(c, e, b)
BY DEF Sets, Kept

(* A construction that fails returns every weight.                         *)
LEMMA LoadFailsStep ==
    ASSUME Inv, pc = "load", NEW b, Kept(cache, b, budget), NEW why \in Errors, LoadFails(b, why)
    PROVE  Inv'
<1> DEFINE S == {Weight(w) : w \in loaded}
<1>1. /\ pc' = "rejected" /\ outcome' = why /\ loaded' = {} /\ kv' = kv /\ run' = run
      /\ cache' = cache /\ budget' = ReleasedAll(b, S)
  BY DEF LoadFails
<1>2. S \subseteq Own
  BY EngineNames DEF Inv, Types
<1>3. /\ Consistent(cache, budget')
      /\ \A m \in Own : budget'.allocations[m] = IF m \in S THEN 0 ELSE budget.allocations[m]
  <2> HIDE DEF S
  <2>1. Consistent(cache, b)
    BY DEF Kept
  <2>2. /\ Consistent(cache, budget')
        /\ \A m \in Own : budget'.allocations[m] = IF m \in S THEN 0 ELSE b.allocations[m]
    BY <1>1, <1>2, <2>1, ReleasedAllStep
  <2>3. QED
    BY <2>2 DEF Kept
<1>4. run.scopes = {} /\ kv = NoKv
  BY DEF Inv, OpenScopes, Caching, Stopped
<1>5. Held = S /\ Held' = {}
  BY <1>1, <1>4 DEF Held, Loading
<1>6. KvCharge \in Own /\ KvCharge \notin S
  BY EngineNames, NamesApart
<1> HIDE DEF Held, S
<1>7. \A m \in Own \ {KvCharge} : budget'.allocations[m] # 0 <=> m \in Held'
  BY <1>3, <1>5 DEF Inv, Charges, Charged
<1>8. Charges'
  <2>1. budget'.allocations[KvCharge] = KvBytes * kv'.capacity
    BY <1>1, <1>3, <1>6 DEF Inv, Charges
  <2>2. pc' \notin Loading
    BY <1>1 DEF Loading
  <2>3. QED
    BY <1>1, <1>3, <1>7, <2>1, <2>2, ChargesNext
<1>9. Types'
  BY <1>1 DEF Inv, Types, Places, Stopped
<1>10. OpenScopes' /\ Positions'
  BY <1>1, <1>4 DEF OpenScopes, Positions, Stopped, Opening, Pass, Loop
<1>11. Endings'
  BY <1>1 DEF Endings, Opening, Pass, Loop
<1>12. Caching'
  BY <1>1, <1>4 DEF Inv, Caching, Stopped, Opening, Pass, Loop, Loading
<1>13. QED
  BY <1>8, <1>9, <1>10, <1>11, <1>12 DEF Inv

(* A weight that is kept is charged, one that is streamed is not.          *)
LEMMA WeightLoadedStep ==
    ASSUME Inv, pc = "load", NEW b, NEW kept, kept \subseteq DOMAIN Weights, WeightLoaded(b, kept),
           Consistent(cache, b), b.allocations[KvCharge] = budget.allocations[KvCharge],
           \A m \in Own \ {KvCharge} : b.allocations[m] # 0 <=>
              budget.allocations[m] # 0 \/ m \in {Weight(w) : w \in kept}
    PROVE  Inv'
<1>1. /\ pc' = pc /\ outcome' = outcome /\ loaded' = loaded \cup kept /\ kv' = kv
      /\ run' = [run EXCEPT !.layer = run.layer + 1] /\ cache' = cache /\ budget' = b
  BY DEF WeightLoaded, NextWeight
<1>2. /\ run'.scopes = run.scopes
      /\ run' \in [prompt : Nat, max : Nat, pos : Nat, layer : Nat, tokens : Nat,
                   scopes : SUBSET {Hidden, LogitsBuffer, Forward}]
  BY <1>1 DEF Inv, Types
<1>3. Held' = Held \cup {Weight(w) : w \in kept}
  BY <1>1, <1>2 DEF Held, Loading
<1> HIDE DEF Held
<1>4. \A m \in Own \ {KvCharge} : budget'.allocations[m] # 0 <=> m \in Held'
  BY <1>1, <1>3 DEF Inv, Charges, Charged
<1>5. Charges'
  <2>1. budget'.allocations[KvCharge] = KvBytes * kv'.capacity
    BY <1>1 DEF Inv, Charges
  <2>2. pc' \notin Loading
    BY <1>1 DEF Loading
  <2>3. QED
    BY <1>1, <1>4, <2>1, <2>2, ChargesNext
<1>6. Types'
  BY <1>1, <1>2 DEF Inv, Types
<1>7. OpenScopes' /\ Positions'
  BY <1>1, <1>2 DEF Inv, OpenScopes, Positions, Stopped, Opening, Pass, Loop
<1>8. Endings'
  BY <1>1 DEF Inv, Endings, Opening, Pass, Loop
<1>9. Caching'
  BY <1>1 DEF Inv, Caching, Stopped, Opening, Pass, Loop, Loading
<1>10. QED
  BY <1>5, <1>6, <1>7, <1>8, <1>9 DEF Inv

(* The load of a weight: its peak is charged, then what is resident of it. *)
LEMMA LoadWeightStep ==
    ASSUME Inv, LoadWeight
    PROVE  Inv'
<1> DEFINE w == NextWeight
           n == Weight(w)
           load == Weights[w].load
           d == Allocated(budget, n, load)
<1>1. pc = "load" /\ w \in DOMAIN Weights /\ n \in Own /\ n # KvCharge
  BY EngineNames, NamesApart DEF LoadWeight
<1>2. load \in Nat /\ Weights[w].resident \in Nat /\ Weights[w].resident # 0
      /\ Weights[w].resident <= load
  BY <1>1, Sizing
<1>3. Consistent(cache, budget) /\ Kept(cache, budget, budget)
  BY DEF Inv, Charges, Kept
<1>4. \/ WeightLoaded(budget, {})
      \/ LoadFails(budget, "Short")
      \/ AllocateResult(budget, n, load) = "Ok" /\ LoadFails(Released(d, n), "Fault")
      \/ AllocateResult(budget, n, load) = "Ok"
         /\ WeightLoaded(Resized(d, n, Weights[w].resident), {w})
  BY Zenon DEF LoadWeight
<1> HIDE DEF w, n, load, d
<1>5. CASE WeightLoaded(budget, {})
  BY <1>1, <1>3, <1>5, WeightLoadedStep
<1>6. CASE LoadFails(budget, "Short")
  BY <1>1, <1>3, <1>6, LoadFailsStep DEF Errors
<1>7. ASSUME AllocateResult(budget, n, load) = "Ok"
      PROVE  Sets(cache, budget, d, n, load) /\ budget.allocations[n] = 0
  BY <1>1, <1>2, <1>3, <1>7, AllocatedStep DEF d
<1>8. CASE AllocateResult(budget, n, load) = "Ok" /\ LoadFails(Released(d, n), "Fault")
  <2>1. Sets(cache, d, Released(d, n), n, 0)
    BY <1>1, <1>7, <1>8, ReleasedStep DEF Sets
  <2>2. Kept(cache, Released(d, n), budget)
    BY <1>7, <1>8, <2>1, SetsTwice
  <2>3. QED
    BY <1>1, <1>8, <2>2, LoadFailsStep DEF Errors
<1>9. CASE AllocateResult(budget, n, load) = "Ok"
           /\ WeightLoaded(Resized(d, n, Weights[w].resident), {w})
  <2> DEFINE e == Resized(d, n, Weights[w].resident)
  <2>1. Consistent(cache, d) /\ d.allocations[n] = load
    BY <1>1, <1>7, <1>9 DEF Sets
  <2>2. Sets(cache, d, e, n, Weights[w].resident)
    BY <1>1, <1>2, <2>1, ResizedStep
  <2> HIDE DEF e
  <2>3. \A m \in Own : e.allocations[m] = IF m = n THEN Weights[w].resident ELSE budget.allocations[m]
    BY <1>7, <1>9, <2>2 DEF Sets
  <2>4. {Weight(v) : v \in {w}} = {n}
    BY DEF n
  <2>5. \A m \in Own \ {KvCharge} : e.allocations[m] # 0 <=>
           budget.allocations[m] # 0 \/ m \in {Weight(v) : v \in {w}}
    BY <1>2, <2>3, <2>4, <1>7, <1>9
  <2>6. e.allocations[KvCharge] = budget.allocations[KvCharge]
    BY <1>1, <2>3, EngineNames
  <2>7. Consistent(cache, e) /\ WeightLoaded(e, {w})
    BY <1>9, <2>2 DEF Sets, e
  <2>8. QED
    BY <1>1, <2>5, <2>6, <2>7, WeightLoadedStep
<1>10. QED
  BY <1>4, <1>5, <1>6, <1>8, <1>9

(* The construction ends with an empty cache, or fails.                    *)
LEMMA FinishLoadStep ==
    ASSUME Inv, NEW capacity \in 0..MaxU64, FinishLoad(capacity)
    PROVE  Inv'
<1>1. pc = "load" /\ Consistent(cache, budget) /\ Kept(cache, budget, budget)
  BY DEF FinishLoad, Inv, Charges, Kept
<1>2. CASE LoadFails(budget, "Short") \/ LoadFails(budget, "Rejected")
  BY <1>1, <1>2, LoadFailsStep DEF Errors
<1>3. CASE /\ cache' = NewCache(capacity) /\ run' = NoRun /\ pc' = "idle"
           /\ UNCHANGED <<budget, loaded, kv, outcome>>
  <2>1. cache.lru = <<>> /\ kv = NoKv /\ run.scopes = {} /\ outcome = "None"
    BY <1>1 DEF Inv, Caching, OpenScopes, Endings, Stopped
  <2>2. Consistent(cache', budget')
    <3>1. \A i \in Layers : ChargedUnder(budget, Resident(i)) = {}
      BY <1>1, <2>1, EmptyUncharged
    <3>2. QED
      BY <1>1, <1>3, <3>1, Ledger, NewCacheConsistent
  <2>3. Kept(cache', budget', budget)
    BY <1>3, <2>2 DEF Kept
  <2>4. Charges'
    BY <1>1, <1>3, <2>1, <2>3, KeptCharges DEF Inv, Loading, NoRun
  <2>5. Types'
    BY <1>3 DEF Inv, Types, Places, Stopped, NoRun
  <2>6. OpenScopes' /\ Positions' /\ Endings'
    BY <1>3, <2>1 DEF OpenScopes, Positions, Endings, Stopped, Opening, Pass, Loop, NoRun
  <2>7. Caching'
    BY <1>3, <2>1 DEF Inv, Caching, NewCache, Stopped, Opening, Pass, Loop, Loading, StopReasons
  <2>8. QED
    BY <2>4, <2>5, <2>6, <2>7 DEF Inv
<1>4. QED
  BY <1>2, <1>3, Zenon DEF FinishLoad

-----------------------------------------------------------------------------
(* A generation begins and opens its charges.                              *)
LEMMA GenerateStep ==
    ASSUME Inv, NEW prompt \in 0..MaxPrompt, NEW max \in 0..MaxNew, Generate(prompt, max)
    PROVE  Inv'
<1> DEFINE d == WithoutKv(budget)
<1>1. /\ pc = "idle" /\ cache' = EmptyCache /\ budget' = WithoutCache(d) /\ kv' = NoKv
      /\ run' = [NoRun EXCEPT !.prompt = prompt, !.max = max] /\ loaded' = loaded
      /\ \/ pc' = "failing" /\ outcome' = "Rejected"
         \/ prompt # 0 /\ ~(prompt + max > ContextLength) /\ pc' = "new_kv" /\ outcome' = "None"
  BY DEF Generate, Store
<1>2. /\ run'.prompt = prompt /\ run'.max = max /\ run'.pos = 0 /\ run'.tokens = 0
      /\ run'.layer = 0 /\ run'.scopes = {}
      /\ run' = [prompt |-> prompt, max |-> max, pos |-> 0, layer |-> 0, tokens |-> 0, scopes |-> {}]
  BY <1>1 DEF NoRun
<1>3. prompt \in Nat /\ max \in Nat
  BY Sizing
<1>4. Sets(cache, budget, d, KvCharge, 0)
  BY WithoutKvStep DEF Inv, Charges
<1> HIDE DEF d
<1>5. Kept(cache', budget', d) /\ cache'.lru = <<>>
  BY <1>1, <1>4, ClearedStep DEF Sets
<1>6. \A m \in Own : budget'.allocations[m] = IF m = KvCharge THEN 0 ELSE budget.allocations[m]
  BY <1>4, <1>5 DEF Sets, Kept
<1>7. Held' = Held
  BY <1>1, <1>2 DEF Held, Loading, Inv, OpenScopes, Stopped
<1> HIDE DEF Held
<1>8. \A m \in Own \ {KvCharge} : budget'.allocations[m] # 0 <=> m \in Held'
  BY <1>6, <1>7 DEF Inv, Charges, Charged
<1>9. budget'.allocations[KvCharge] = KvBytes * kv'.capacity
  BY <1>1, <1>6, EngineNames, Sizing DEF NoKv
<1>10. Charges'
  BY <1>1, <1>5, <1>8, <1>9, ChargesNext DEF Kept, Loading
<1>11. Types'
  BY <1>1, <1>2, <1>3 DEF Inv, Types, Places, Opening, NoKv
<1>12. OpenScopes' /\ Endings'
  BY <1>1, <1>2 DEF OpenScopes, Endings, Stopped, Opening, Pass, Loop, Errors
<1>13. Positions'
  <2>1. CASE pc' = "failing"
    BY <2>1 DEF Positions, Opening, Pass, Loop
  <2>2. CASE prompt # 0 /\ ~(prompt + max > ContextLength) /\ pc' = "new_kv"
    <3>1. run'.prompt >= 1 /\ run'.prompt + run'.max <= ContextLength /\ run'.tokens <= run'.max
      BY <1>2, <1>3, <2>2, Sizing
    <3>2. QED
      BY <1>2, <2>2, <3>1 DEF Positions, Pass, Loop
  <2>3. QED
    BY <1>1, <2>1, <2>2
<1>14. Caching'
  BY <1>1, <1>5 DEF Caching, Stopped, Opening, Pass, Loop, Loading, NoKv
<1>15. QED
  BY <1>10, <1>11, <1>12, <1>13, <1>14 DEF Inv

(* The KV cache of a request.                                              *)
LEMMA NewKvStep ==
    ASSUME Inv, NewKv
    PROVE  Inv'
<1> DEFINE bytes == KvBytes * run.prompt
           d == Allocated(budget, KvCharge, bytes)
<1>1. pc = "new_kv" /\ pc \in Running \ Loading /\ Consistent(cache, budget) /\ Kept(cache, budget, budget)
  BY DEF NewKv, Inv, Charges, Kept, Running, Opening, Loading
<1>2. run.prompt \in Nat /\ run.prompt >= 1 /\ run.max \in Nat /\ kv = NoKv
      /\ run.prompt + run.max <= ContextLength /\ run.pos = 0 /\ run.tokens = 0
  BY <1>1 DEF Inv, Types, Positions, Caching, Opening
<1>3. bytes \in Nat
  BY <1>2, Sizing
<1>4. \/ Fails("Short", cache, budget)
      \/ AllocateResult(budget, KvCharge, bytes) = "Ok" /\ Fails("Fault", cache, Released(d, KvCharge))
      \/ /\ AllocateResult(budget, KvCharge, bytes) = "Ok"
         /\ Continues("hidden", cache, d)
         /\ kv' = [capacity |-> run.prompt, seq_len |-> 0] /\ run' = run
  BY DEF NewKv
<1> HIDE DEF d, bytes
<1>5. CASE Fails("Short", cache, budget)
  BY <1>1, <1>5, FailsKept DEF Errors
<1>6. ASSUME AllocateResult(budget, KvCharge, bytes) = "Ok"
      PROVE  Sets(cache, budget, d, KvCharge, bytes) /\ budget.allocations[KvCharge] = 0
  BY <1>1, <1>3, <1>6, AllocatedStep, EngineNames DEF d
<1>7. CASE AllocateResult(budget, KvCharge, bytes) = "Ok" /\ Fails("Fault", cache, Released(d, KvCharge))
  <2>1. Sets(cache, d, Released(d, KvCharge), KvCharge, 0)
    BY <1>6, <1>7, ReleasedStep, EngineNames DEF Sets
  <2>2. Kept(cache, Released(d, KvCharge), budget)
    BY <1>6, <1>7, <2>1, SetsTwice
  <2>3. QED
    BY <1>1, <1>7, <2>2, FailsKept DEF Errors
<1>8. CASE /\ AllocateResult(budget, KvCharge, bytes) = "Ok"
           /\ Continues("hidden", cache, d)
           /\ kv' = [capacity |-> run.prompt, seq_len |-> 0] /\ run' = run
  <2>1. /\ pc' = "hidden" /\ cache' = cache /\ budget' = d /\ loaded' = loaded /\ outcome' = outcome
        /\ run' = run /\ kv'.capacity = run.prompt /\ kv'.seq_len = 0
        /\ kv' = [capacity |-> run.prompt, seq_len |-> 0]
    BY <1>8 DEF Continues, Store
  <2>2. Sets(cache, budget, budget', KvCharge, bytes)
    BY <1>6, <1>8, <2>1
  <2>3. Held' = Held
    BY <1>1, <2>1 DEF Held, Loading
  <2> HIDE DEF Held
  <2>4. Charges'
    <3>1. \A m \in Own \ {KvCharge} : budget'.allocations[m] # 0 <=> m \in Held'
      BY <2>2, <2>3 DEF Sets, Inv, Charges, Charged
    <3>2. budget'.allocations[KvCharge] = KvBytes * kv'.capacity
      BY <2>1, <2>2, EngineNames DEF Sets, bytes
    <3>3. QED
      BY <2>1, <2>2, <3>1, <3>2, ChargesNext DEF Sets, Loading
  <2>5. Types'
    BY <1>2, <2>1 DEF Inv, Types, Places, Opening
  <2>6. OpenScopes' /\ Endings'
    BY <1>1, <2>1 DEF Inv, OpenScopes, Endings, Stopped, Opening, Pass, Loop
  <2>7. Positions'
    BY <1>2, <2>1 DEF Positions, Stopped, Opening, Pass, Loop
  <2>8. Caching'
    BY <1>1, <1>2, <2>1 DEF Inv, Caching, Stopped, Opening, Pass, Loop, Loading
  <2>9. QED
    BY <2>4, <2>5, <2>6, <2>7, <2>8 DEF Inv
<1>9. QED
  BY <1>4, <1>5, <1>7, <1>8

-----------------------------------------------------------------------------
\* A step to another place that touches neither the KV cache nor the request.
Moves(place, scopes) ==
    /\ pc' = place /\ outcome' = outcome /\ loaded' = loaded /\ kv' = kv
    /\ run'.prompt = run.prompt /\ run'.max = run.max /\ run'.pos = run.pos
    /\ run'.layer = run.layer /\ run'.tokens = run.tokens /\ run'.scopes = scopes
    /\ run' \in [prompt : Nat, max : Nat, pos : Nat, layer : Nat, tokens : Nat,
                 scopes : SUBSET {Hidden, LogitsBuffer, Forward}]

(* Opening a scope.                                                        *)
LEMMA OpensStep ==
    ASSUME Inv, pc \in Running \ Loading, NEW n \in {Hidden, LogitsBuffer, Forward},
           n \notin run.scopes, NEW bytes \in Nat, NEW place, place \notin Loading,
           NEW c, NEW b, Kept(c, b, budget), Opens(n, bytes, place, c, b)
    PROVE  \/ Inv'
           \/ Charges' /\ Moves(place, run.scopes \cup {n}) /\ cache' = c
<1>1. CASE Fails("Short", c, b)
  BY <1>1, FailsKept DEF Errors
<1>2. CASE /\ AllocateResult(b, n, bytes) = "Ok"
           /\ Continues(place, c, Allocated(b, n, bytes))
           /\ run' = [run EXCEPT !.scopes = run.scopes \cup {n}]
           /\ kv' = kv
  <2> DEFINE d == Allocated(b, n, bytes)
  <2>1. n \in Own /\ n # KvCharge
    BY EngineNames, NamesApart DEF Temps
  <2>2. Sets(c, b, d, n, bytes) /\ bytes # 0
    BY <1>2, <2>1, AllocatedStep DEF Kept
  <2>3. /\ pc' = place /\ cache' = c /\ budget' = d /\ loaded' = loaded /\ outcome' = outcome
        /\ kv' = kv
    BY <1>2 DEF Continues, Store
  <2> HIDE DEF d
  <2>4. Moves(place, run.scopes \cup {n})
    <3>1. run \in [prompt : Nat, max : Nat, pos : Nat, layer : Nat, tokens : Nat,
                   scopes : SUBSET {Hidden, LogitsBuffer, Forward}]
      BY DEF Inv, Types
    <3>2. QED
      BY <1>2, <2>3, <3>1 DEF Moves
  <2>5. Held' = Held \cup {n}
    BY <2>3, <2>4 DEF Held, Moves
  <2> HIDE DEF Held
  <2>6. \A m \in Own : budget'.allocations[m] = IF m = n THEN bytes ELSE budget.allocations[m]
    BY <2>2, <2>3 DEF Sets, Kept
  <2>7. \A m \in Own \ {KvCharge} : budget'.allocations[m] # 0 <=> m \in Held'
    BY <2>2, <2>5, <2>6 DEF Inv, Charges, Charged
  <2>8. budget'.allocations[KvCharge] = KvBytes * kv'.capacity
    BY <2>1, <2>3, <2>6, EngineNames DEF Inv, Charges
  <2>9. Charges'
    BY <2>2, <2>3, <2>7, <2>8, ChargesNext DEF Sets
  <2>10. QED
    BY <2>3, <2>4, <2>9
<1>3. QED
  BY <1>1, <1>2 DEF Opens

(* The scope of the hidden state.                                          *)
LEMMA OpenHiddenStep ==
    ASSUME Inv, OpenHidden
    PROVE  Inv'
<1>1. /\ pc = "hidden" /\ pc \in Running \ Loading /\ Kept(cache, budget, budget)
      /\ Opens(Hidden, DecodedRow, "logits_buffer", cache, budget)
  BY DEF OpenHidden, Inv, Charges, Kept, Running, Opening, Loading
<1>2. run.scopes = {} /\ outcome = "None"
  BY <1>1 DEF Inv, OpenScopes, Endings, Opening
<1>3. \/ Inv'
      \/ Charges' /\ Moves("logits_buffer", run.scopes \cup {Hidden}) /\ cache' = cache
  BY <1>1, <1>2, OpensStep, Sizing DEF Loading
<1>4. CASE Charges' /\ Moves("logits_buffer", run.scopes \cup {Hidden}) /\ cache' = cache
  <2>1. Types'
    BY <1>4 DEF Moves, Inv, Types, Places, Opening
  <2>2. OpenScopes' /\ Endings'
    BY <1>2, <1>4 DEF Moves, OpenScopes, Endings, Stopped, Opening, Pass, Loop, Errors
  <2>3. Positions'
    BY <1>1, <1>4 DEF Moves, Inv, Positions, Stopped, Opening, Pass, Loop
  <2>4. Caching'
    BY <1>1, <1>4 DEF Moves, Inv, Caching, Stopped, Opening, Pass, Loop, Loading
  <2>5. QED
    BY <1>4, <2>1, <2>2, <2>3, <2>4 DEF Inv
<1>5. QED
  BY <1>3, <1>4

(* The scope of the logits.                                                *)
LEMMA OpenLogitsStep ==
    ASSUME Inv, OpenLogits
    PROVE  Inv'
<1>1. /\ pc = "logits_buffer" /\ pc \in Running \ Loading /\ Kept(cache, budget, budget)
      /\ \/ Fails("Fault", cache, budget)
         \/ Opens(LogitsBuffer, LogitsBytes, "forward", cache, budget)
  BY DEF OpenLogits, Inv, Charges, Kept, Running, Opening, Loading
<1>2. run.scopes = {Hidden} /\ outcome = "None" /\ LogitsBuffer \notin run.scopes
  BY <1>1, NamesApart DEF Inv, OpenScopes, Endings, Opening
<1>3. \/ Inv'
      \/ Charges' /\ Moves("forward", run.scopes \cup {LogitsBuffer}) /\ cache' = cache
  <2>1. CASE Fails("Fault", cache, budget)
    BY <1>1, <2>1, FailsKept DEF Errors
  <2>2. CASE Opens(LogitsBuffer, LogitsBytes, "forward", cache, budget)
    BY <1>1, <1>2, <2>2, OpensStep, Sizing DEF Loading
  <2>3. QED
    BY <1>1, <2>1, <2>2
<1>4. CASE Charges' /\ Moves("forward", run.scopes \cup {LogitsBuffer}) /\ cache' = cache
  <2>1. Types'
    BY <1>4 DEF Moves, Inv, Types, Places, Loop
  <2>2. OpenScopes' /\ Endings'
    BY <1>2, <1>4 DEF Moves, OpenScopes, Endings, Stopped, Opening, Pass, Loop, Errors
  <2>3. Positions'
    <3>1. /\ kv.capacity = run.prompt /\ kv.seq_len = 0 /\ run.pos = 0 /\ run.tokens = 0
          /\ run.prompt >= 1 /\ run.prompt + run.max <= ContextLength /\ run.tokens <= run.max
          /\ run.prompt \in Nat /\ run.max \in Nat
      BY <1>1 DEF Inv, Types, Positions, Opening
    <3>2. kv.capacity <= run.prompt + run.max /\ run.pos < run.prompt
      BY <3>1
    <3>3. QED
      BY <1>4, <3>1, <3>2 DEF Moves, Positions, Stopped, Opening, Pass, Loop
  <2>4. Caching'
    BY <1>1, <1>4 DEF Moves, Inv, Caching, Stopped, Opening, Pass, Loop, Loading
  <2>5. QED
    BY <1>4, <2>1, <2>2, <2>3, <2>4 DEF Inv
<1>5. QED
  BY <1>3, <1>4

-----------------------------------------------------------------------------
(* The forward pass.                                                       *)
LEMMA BeginForwardStep ==
    ASSUME Inv, BeginForward
    PROVE  Inv'
<1> DEFINE c == RoomyCache(ForwardCharge)
           b == RoomyBudget(ForwardCharge)
<1>1. pc = "forward" /\ pc \in Running \ Loading /\ Consistent(cache, budget)
  BY DEF BeginForward, Inv, Charges, Running, Loop, Loading
<1>2. /\ run.scopes = {Hidden, LogitsBuffer} /\ outcome = "None" /\ Forward \notin run.scopes
      /\ kv.seq_len = run.pos /\ run.pos \in Nat
  BY <1>1, NamesApart DEF Inv, OpenScopes, Endings, Positions, Types, Loop
<1>3. ForwardCharge \in Nat
  <2>1. run.pos + 1 \in Nat
    BY <1>2
  <2>2. ScoreBytes * (run.pos + 1) \in Nat
    BY <2>1, Sizing
  <2>3. QED
    BY <2>2, Sizing DEF ForwardCharge
<1>4. Kept(c, b, budget)
  BY <1>1, RoomyStep
<1>5. Opens(Forward, ForwardCharge, "embed", c, b)
  BY <1>2 DEF BeginForward
<1> HIDE DEF c, b
<1>6. \/ Inv'
      \/ Charges' /\ Moves("embed", run.scopes \cup {Forward}) /\ cache' = c
  BY <1>1, <1>2, <1>3, <1>4, <1>5, OpensStep DEF Loading
<1>7. CASE Charges' /\ Moves("embed", run.scopes \cup {Forward}) /\ cache' = c
  <2>1. Types'
    BY <1>7 DEF Moves, Inv, Types, Places, Pass
  <2>2. OpenScopes' /\ Endings'
    BY <1>2, <1>7 DEF Moves, OpenScopes, Endings, Stopped, Opening, Pass, Loop, Errors
  <2>3. Positions'
    BY <1>1, <1>7 DEF Moves, Inv, Positions, Stopped, Opening, Pass, Loop
  <2>4. Caching'
    BY <1>1, <1>7 DEF Moves, Inv, Caching, Stopped, Opening, Pass, Loop, Loading
  <2>5. QED
    BY <1>7, <2>1, <2>2, <2>3, <2>4 DEF Inv
<1>8. QED
  BY <1>6, <1>7

(* A step of the pass that leaves the charges as they are.                 *)
LEMMA PassStep ==
    ASSUME Inv, pc \in Pass \ Loading, pc' \in {"layer", "commit"}, Kept(cache', budget', budget),
           loaded' = loaded, outcome' = outcome, kv' = kv,
           NEW layer \in Nat, run' = [run EXCEPT !.layer = layer],
           pc' = "layer" => layer \in Layers
    PROVE  Inv'
<1>1. /\ run'.prompt = run.prompt /\ run'.max = run.max /\ run'.pos = run.pos
      /\ run'.layer = layer /\ run'.tokens = run.tokens /\ run'.scopes = run.scopes
      /\ run' \in [prompt : Nat, max : Nat, pos : Nat, layer : Nat, tokens : Nat,
                   scopes : SUBSET {Hidden, LogitsBuffer, Forward}]
  BY DEF Inv, Types
<1>2. Charges'
  BY <1>1, KeptCharges DEF Inv, Loading
<1>3. Types'
  BY <1>1 DEF Inv, Types, Places, Pass
<1>4. OpenScopes' /\ Endings'
  BY <1>1 DEF Inv, OpenScopes, Endings, Stopped, Opening, Pass, Loop, Errors
<1>5. Positions'
  BY <1>1 DEF Inv, Positions, Stopped, Opening, Pass, Loop
<1>6. Caching'
  BY <1>1 DEF Inv, Caching, Stopped, Opening, Pass, Loop, Loading
<1>7. QED
  BY <1>2, <1>3, <1>4, <1>5, <1>6 DEF Inv

(* The embedding of a position.                                            *)
LEMMA EmbedStep ==
    ASSUME Inv, Embed
    PROVE  Inv'
<1> DEFINE c == RoomyCache(EmbeddingBytes)
           b == RoomyBudget(EmbeddingBytes)
           d == Passing(b, EmbeddingBytes)
<1>1. pc = "embed" /\ pc \in Running \ Loading /\ pc \in Pass \ Loading /\ Consistent(cache, budget)
  BY DEF Embed, Inv, Charges, Running, Pass, Loading
<1>2. EmbeddingBytes \in Nat
  BY Sizing DEF EmbeddingBytes
<1>3. Kept(c, b, budget)
  BY <1>1, RoomyStep
<1>4. \/ Fails("Short", c, b)
      \/ PassingFits(b, EmbeddingBytes) /\ Fails("Fault", c, d)
      \/ /\ PassingFits(b, EmbeddingBytes)
         /\ Continues("layer", c, d) /\ run' = [run EXCEPT !.layer = 1] /\ kv' = kv
  BY DEF Embed
<1>5. PassingFits(b, EmbeddingBytes) => Kept(c, d, budget)
  <2> HIDE DEF c, b
  <2>1. PassingFits(b, EmbeddingBytes) => Kept(c, d, b)
    BY <1>2, <1>3, PassingStep DEF Kept
  <2> HIDE DEF d
  <2>2. QED
    BY <1>3, <2>1 DEF Kept
<1> HIDE DEF c, b, d
<1>6. CASE Fails("Short", c, b)
  BY <1>1, <1>3, <1>6, FailsKept DEF Errors
<1>7. CASE PassingFits(b, EmbeddingBytes) /\ Fails("Fault", c, d)
  BY <1>1, <1>5, <1>7, FailsKept DEF Errors
<1>8. CASE /\ PassingFits(b, EmbeddingBytes)
           /\ Continues("layer", c, d) /\ run' = [run EXCEPT !.layer = 1] /\ kv' = kv
  <2>1. pc' = "layer" /\ cache' = c /\ budget' = d /\ loaded' = loaded /\ outcome' = outcome
    BY <1>8 DEF Continues, Store
  <2>2. 1 \in Nat /\ 1 \in Layers
    BY Sizing
  <2>3. QED
    BY <1>1, <1>5, <1>8, <2>1, <2>2, PassStep
<1>9. QED
  BY <1>4, <1>6, <1>7, <1>8

-----------------------------------------------------------------------------
(* The layers of a pass.                                                   *)
LEMMA LayerAfter ==
    ASSUME NEW i \in Layers
    PROVE  i + 1 \in Nat /\ (i # NumLayers => i + 1 \in Layers)
BY Sizing

(* A layer found in the cache.                                             *)
LEMMA ExecuteCachedStep ==
    ASSUME Inv, ExecuteCached
    PROVE  Inv'
<1> DEFINE c == Touched(cache, run.layer)
<1>1. /\ pc = "layer" /\ pc \in Running \ Loading /\ pc \in Pass \ Loading
      /\ Cached(cache, run.layer) /\ run.layer \in Layers
      /\ Fails("Fault", c, budget) \/ NextLayer(c, budget)
  BY DEF ExecuteCached, Inv, Caching, Running, Pass, Loading
<1>2. Kept(c, budget, budget)
  BY <1>1, TouchedConsistent DEF Inv, Charges, Kept
<1> HIDE DEF c
<1>3. CASE Fails("Fault", c, budget)
  BY <1>1, <1>2, <1>3, FailsKept DEF Errors
<1>4. CASE NextLayer(c, budget)
  <2>1. /\ pc' = (IF run.layer = NumLayers THEN "commit" ELSE "layer")
        /\ cache' = c /\ budget' = budget /\ loaded' = loaded /\ outcome' = outcome /\ kv' = kv
        /\ run' = [run EXCEPT !.layer = run.layer + 1]
    BY <1>4 DEF NextLayer, Continues, Store
  <2>2. QED
    BY <1>1, <1>2, <2>1, LayerAfter, PassStep
<1>5. QED
  BY <1>1, <1>3, <1>4

(* A layer that has been loaded is charged its resident bytes.             *)
LEMMA LoadedStep ==
    ASSUME Inv, pc = "layer", run.layer \in Layers, NEW c, NEW b, NEW d,
           Kept(c, b, budget), Sets(c, b, d, LayerName(run.layer), LayerResident[run.layer]),
           ~Cached(c, run.layer), Continues("execute", c, d), kv' = kv, run' = run
    PROVE  Inv'
<1> DEFINE n == LayerName(run.layer)
<1>1. /\ pc' = "execute" /\ cache' = c /\ budget' = d /\ loaded' = loaded /\ outcome' = outcome
  BY DEF Continues, Store
<1>2. n \in Own /\ n # KvCharge /\ KvCharge \in Own /\ LayerResident[run.layer] # 0
  BY EngineNames, NamesApart, Sizing
<1>3. Held' = Held \cup {n}
  BY <1>1 DEF Held, Loading
<1> HIDE DEF Held, n
<1>4. \A m \in Own : budget'.allocations[m] =
                        IF m = n THEN LayerResident[run.layer] ELSE budget.allocations[m]
  BY <1>1 DEF Sets, Kept, n
<1>5. \A m \in Own \ {KvCharge} : budget'.allocations[m] # 0 <=> m \in Held'
  BY <1>2, <1>3, <1>4 DEF Inv, Charges, Charged
<1>6. budget'.allocations[KvCharge] = KvBytes * kv'.capacity
  BY <1>2, <1>4 DEF Inv, Charges
<1>7. budget'.allocations[LayerName(run'.layer)] = LayerResident[run'.layer]
  BY <1>2, <1>4 DEF n
<1>8. Charges'
  BY <1>1, <1>5, <1>6, <1>7, ChargesNext DEF Sets
<1>9. Types'
  BY <1>1 DEF Inv, Types, Places, Pass
<1>10. OpenScopes' /\ Endings'
  BY <1>1 DEF Inv, OpenScopes, Endings, Stopped, Opening, Pass, Loop, Errors
<1>11. Positions'
  BY <1>1 DEF Inv, Positions, Stopped, Opening, Pass, Loop
<1>12. Caching'
  BY <1>1 DEF Inv, Caching, Stopped, Opening, Pass, Loop, Loading
<1>13. QED
  BY <1>8, <1>9, <1>10, <1>11, <1>12 DEF Inv

(* A layer that is loaded: charged its peak, then what is resident of it.  *)
LEMMA LoadMissingStep ==
    ASSUME Inv, LoadMissing
    PROVE  Inv'
<1> DEFINE i == run.layer
           n == LayerName(i)
           c == RoomyCache(LayerPeak[i])
           b == RoomyBudget(LayerPeak[i])
           d == Allocated(b, n, LayerPeak[i])
           e == Resized(d, n, LayerResident[i])
<1>1. /\ pc = "layer" /\ pc \in Running \ Loading /\ ~Cached(cache, i) /\ i \in Layers
      /\ Consistent(cache, budget)
  BY DEF LoadMissing, Inv, Caching, Charges, Running, Pass, Loading
<1>2. /\ LayerPeak[i] \in Nat /\ LayerResident[i] \in Nat /\ LayerPeak[i] # 0
      /\ LayerResident[i] # 0 /\ LayerResident[i] <= LayerPeak[i] /\ n \in Own
  BY <1>1, Sizing, EngineNames
<1>3. Kept(c, b, budget) /\ ~Cached(c, i)
  BY <1>1, RoomyStep
<1>4. \/ Fails("Short", c, b)
      \/ CanAllocate(b, LayerPeak[i]) /\ Fails("Fault", c, LayerReleased(d, i))
      \/ CanAllocate(b, LayerPeak[i]) /\ Continues("execute", c, e) /\ kv' = kv /\ run' = run
  BY DEF LoadMissing
<1>5. budget.allocations[n] = 0
  BY <1>1, FreeNames DEF Inv, Loading
<1> HIDE DEF i, c, b
<1>6. ASSUME CanAllocate(b, LayerPeak[i])
      PROVE  Sets(c, b, d, n, LayerPeak[i]) /\ b.allocations[n] = 0
  <2>1. b.allocations[n] = 0 /\ Consistent(c, b)
    BY <1>2, <1>3, <1>5 DEF Kept
  <2> HIDE DEF n
  <2>2. AllocateResult(b, n, LayerPeak[i]) = "Ok"
    BY <1>2, <1>6, <2>1, AllocateFits
  <2>3. QED
    BY <1>2, <2>1, <2>2, AllocatedStep
<1>7. CASE Fails("Short", c, b)
  BY <1>1, <1>3, <1>7, FailsKept DEF Errors
<1> HIDE DEF d
<1>8. CASE CanAllocate(b, LayerPeak[i]) /\ Fails("Fault", c, LayerReleased(d, i))
  <2>1. Sets(c, d, LayerReleased(d, i), n, 0)
    BY <1>1, <1>6, <1>8, LayerReleasedStep DEF Sets
  <2> HIDE DEF n
  <2>2. Kept(c, LayerReleased(d, i), b)
    BY <1>6, <1>8, <2>1, SetsTwice
  <2>3. Kept(c, LayerReleased(d, i), budget)
    BY <1>3, <2>2 DEF Kept
  <2>4. QED
    BY <1>1, <1>8, <2>3, FailsKept DEF Errors
<1>9. CASE CanAllocate(b, LayerPeak[i]) /\ Continues("execute", c, e) /\ kv' = kv /\ run' = run
  <2> HIDE DEF n
  <2>1. Sets(c, b, d, n, LayerPeak[i]) /\ Consistent(c, d) /\ d.allocations[n] = LayerPeak[i]
    BY <1>2, <1>6, <1>9 DEF Sets
  <2>2. Sets(c, d, e, n, LayerResident[i])
    BY <1>2, <2>1, ResizedStep
  <2> HIDE DEF e
  <2>3. Sets(c, b, e, n, LayerResident[i])
    BY <2>1, <2>2 DEF Sets
  <2>4. QED
    BY <1>1, <1>3, <1>9, <2>3, LoadedStep DEF i, n
<1>10. QED
  BY <1>4, <1>7, <1>8, <1>9

(* A loaded layer is computed, or its failure releases it.                 *)
LEMMA ExecuteLoadedStep ==
    ASSUME Inv, ExecuteLoaded
    PROVE  Inv'
<1>1. pc = "execute" /\ pc \in Loading
  BY DEF ExecuteLoaded, Loading
<1>2. CASE Fails("Fault", cache, LayerReleased(budget, run.layer))
  BY <1>1, <1>2, FailsReleasing DEF Errors
<1>3. CASE Continues("insert", cache, budget) /\ UNCHANGED <<kv, run>>
  <2>1. /\ pc' = "insert" /\ cache' = cache /\ budget' = budget /\ loaded' = loaded
        /\ outcome' = outcome /\ kv' = kv /\ run' = run
    BY <1>3 DEF Continues, Store
  <2>2. Held' = Held
    BY <1>1, <2>1 DEF Held, Loading
  <2>3. Charges'
    BY <1>1, <2>1, <2>2, ChargesNext DEF Inv, Charges, Charged, Loading
  <2>4. Types'
    BY <2>1 DEF Inv, Types, Places, Pass
  <2>5. OpenScopes' /\ Endings'
    BY <1>1, <2>1 DEF Inv, OpenScopes, Endings, Stopped, Opening, Pass, Loop, Errors
  <2>6. Positions'
    BY <1>1, <2>1 DEF Inv, Positions, Stopped, Opening, Pass, Loop
  <2>7. Caching'
    BY <1>1, <2>1 DEF Inv, Caching, Stopped, Opening, Pass, Loop, Loading
  <2>8. QED
    BY <2>3, <2>4, <2>5, <2>6, <2>7 DEF Inv
<1>4. QED
  BY <1>2, <1>3 DEF ExecuteLoaded

(* A layer that leaves the hands of the pass, for the cache or for good.   *)
LEMMA LayerDone ==
    ASSUME Inv, pc = "insert", NEW c, NEW d, NextLayer(c, d),
           Consistent(c, d),
           \A m \in Own : d.allocations[m] =
                             IF m = LayerName(run.layer) THEN 0 ELSE budget.allocations[m]
    PROVE  Inv'
<1> DEFINE n == LayerName(run.layer)
<1>1. /\ pc' = (IF run.layer = NumLayers THEN "commit" ELSE "layer")
      /\ cache' = c /\ budget' = d /\ loaded' = loaded /\ outcome' = outcome /\ kv' = kv
      /\ run' = [run EXCEPT !.layer = run.layer + 1]
  BY DEF NextLayer, Continues, Store
<1>2. run.layer \in Layers
  BY DEF Inv, Caching, Loading
<1>3. run.layer + 1 \in Nat /\ (run.layer # NumLayers => run.layer + 1 \in Layers)
  BY <1>2, LayerAfter
<1>4. /\ run'.prompt = run.prompt /\ run'.max = run.max /\ run'.pos = run.pos
      /\ run'.layer = run.layer + 1 /\ run'.tokens = run.tokens /\ run'.scopes = run.scopes
      /\ run' \in [prompt : Nat, max : Nat, pos : Nat, layer : Nat, tokens : Nat,
                   scopes : SUBSET {Hidden, LogitsBuffer, Forward}]
  BY <1>1, <1>3 DEF Inv, Types
<1>5. n \in Own /\ n # KvCharge /\ KvCharge \in Own
  BY <1>2, EngineNames, NamesApart
<1>6. Held' = Held \ {n}
  <2>1. n \notin {Weight(w) : w \in loaded} \cup run.scopes
    BY NamesApart DEF Inv, Types, Temps
  <2>2. QED
    BY <1>1, <1>4, <2>1 DEF Held, Loading
<1> HIDE DEF Held, n
<1>7. \A m \in Own \ {KvCharge} : budget'.allocations[m] # 0 <=> m \in Held'
  BY <1>1, <1>6 DEF Inv, Charges, Charged, n
<1>8. budget'.allocations[KvCharge] = KvBytes * kv'.capacity
  BY <1>1, <1>5 DEF Inv, Charges, n
<1>9. Charges'
  BY <1>1, <1>7, <1>8, ChargesNext DEF Loading
<1>10. Types'
  BY <1>1, <1>4 DEF Inv, Types, Places, Pass
<1>11. OpenScopes' /\ Endings'
  BY <1>1, <1>4 DEF Inv, OpenScopes, Endings, Stopped, Opening, Pass, Loop, Errors
<1>12. Positions'
  BY <1>1, <1>4 DEF Inv, Positions, Stopped, Opening, Pass, Loop
<1>13. Caching'
  BY <1>1, <1>3, <1>4 DEF Inv, Caching, Stopped, Opening, Pass, Loop, Loading
<1>14. QED
  BY <1>9, <1>10, <1>11, <1>12, <1>13 DEF Inv

(* A loaded layer that the cache takes or declines.                        *)
LEMMA InsertLayerStep ==
    ASSUME Inv, InsertLayer
    PROVE  Inv'
<1> DEFINE i == run.layer
           n == LayerName(i)
           bytes == LayerResident[i]
           k == EvictionsToFit(cache, bytes)
           c == CacheEvicted(cache, k)
           b == BudgetEvicted(cache, budget, k)
<1>1. /\ pc = "insert" /\ ~Cached(cache, i) /\ i \in Layers /\ Consistent(cache, budget)
      /\ budget.allocations[n] = bytes /\ n \in Own
  BY EngineNames DEF InsertLayer, Inv, Caching, Charges, Pass, Loading
<1>2. bytes \in Nat /\ bytes # 0 /\ cache.capacity \in Nat
  <2>1. bytes \in Nat /\ bytes # 0
    BY <1>1, Sizing
  <2>2. cache.capacity \in 0..MaxU64
    BY <1>1, CacheParts
  <2>3. QED
    BY <2>1, <2>2, MaxU64Assumption
<1>3. \/ NextLayer(cache, LayerReleased(budget, i))
      \/ /\ bytes <= cache.capacity
         /\ NextLayer(EntryInserted(c, b, i, bytes), PrefixRenamed(b, Active(i), Resident(i)))
  BY <1>2 DEF InsertLayer
<1>4. CASE NextLayer(cache, LayerReleased(budget, i))
  <2>1. Sets(cache, budget, LayerReleased(budget, i), n, 0)
    BY <1>1, LayerReleasedStep
  <2>2. QED
    BY <1>1, <1>4, <2>1, LayerDone DEF Sets
<1>5. CASE /\ bytes <= cache.capacity
           /\ NextLayer(EntryInserted(c, b, i, bytes), PrefixRenamed(b, Active(i), Resident(i)))
  <2> HIDE DEF bytes
  <2>1. bytes \in 0..cache.capacity
    BY <1>2, <1>5
  <2>2. k \in 0..Len(cache.lru) /\ c.used + bytes <= cache.capacity
    BY <1>1, <2>1, FitMade
  <2> HIDE DEF k, i
  <2>3. Kept(c, b, budget) /\ c.capacity = cache.capacity /\ ~Cached(c, i)
    BY <1>1, <2>2, EvictedKept
  <2> HIDE DEF c, b, n
  <2>4. b.allocations[n] = bytes /\ Consistent(c, b)
    BY <1>1, <2>3 DEF Kept
  <2>5. Sets(EntryInserted(c, b, i, bytes), b, PrefixRenamed(b, Active(i), Resident(i)), n, 0)
    BY <1>1, <1>2, <2>2, <2>3, <2>4, InsertedStep DEF n
  <2>6. \A m \in Own : PrefixRenamed(b, Active(i), Resident(i)).allocations[m] =
                          IF m = n THEN 0 ELSE budget.allocations[m]
    BY <2>3, <2>5 DEF Sets, Kept
  <2>7. QED
    BY <1>1, <1>5, <2>5, <2>6, LayerDone DEF Sets, n, i
<1>6. QED
  BY <1>3, <1>4, <1>5

-----------------------------------------------------------------------------
(* The end of a pass and the generation loop.                              *)
LEMMA CommitStep ==
    ASSUME Inv, Commit
    PROVE  Inv'
<1>1. /\ pc = "commit" /\ pc \in Pass /\ Consistent(cache, budget)
      /\ kv.seq_len = run.pos /\ run.pos < kv.capacity /\ run.prompt <= kv.capacity
      /\ kv.capacity <= run.prompt + run.max /\ run.prompt >= 1
      /\ run.prompt + run.max <= ContextLength /\ run.tokens <= run.max
      /\ \/ run.tokens = 0 /\ run.pos < run.prompt
         \/ run.tokens >= 1 /\ run.tokens < run.max /\ run.pos + 1 = run.prompt + run.tokens
      /\ outcome = "None" /\ run.scopes = {Hidden, LogitsBuffer, Forward}
  BY DEF Commit, Inv, Charges, Positions, Endings, OpenScopes, Pass
<1>2. /\ run.prompt \in Nat /\ run.max \in Nat /\ run.pos \in Nat /\ run.tokens \in Nat
      /\ kv.capacity \in Nat /\ kv.seq_len \in Nat /\ ContextLength \in Nat
      /\ kv \in [capacity : Nat, seq_len : Nat]
      /\ run \in [prompt : Nat, max : Nat, pos : Nat, layer : Nat, tokens : Nat,
                  scopes : SUBSET {Hidden, LogitsBuffer, Forward}]
  BY Sizing DEF Inv, Types
<1>3. /\ kv' = [kv EXCEPT !.seq_len = kv.seq_len + 1] /\ cache' = cache /\ loaded' = loaded
      /\ \/ pc' = "failing" /\ outcome' = "Fault" /\ budget' = budget /\ run' = run
         \/ /\ budget' = Released(budget, Forward)
            /\ run' = [run EXCEPT !.pos = run.pos + 1, !.scopes = run.scopes \ {Forward}]
            /\ IF run.tokens > 0 /\ run.pos + 1 >= ContextLength
               THEN pc' = "finish" /\ outcome' = "ContextLength"
               ELSE pc' = AfterForward /\ outcome' = (IF AfterForward = "finish"
                                                      THEN "MaxTokens" ELSE outcome)
  <2>1. ~(kv.seq_len >= kv.capacity)
    BY <1>1, <1>2
  <2>2. QED
    BY <2>1 DEF Commit
<1>4. /\ kv'.capacity = kv.capacity /\ kv'.seq_len = run.pos + 1
      /\ kv' \in [capacity : Nat, seq_len : Nat]
  BY <1>1, <1>2, <1>3
<1>5. kv.capacity # 0
  BY <1>1, <1>2
<1>6. CASE pc' = "failing" /\ outcome' = "Fault" /\ budget' = budget /\ run' = run
  <2>1. Kept(cache', budget', budget)
    BY <1>1, <1>3, <1>6 DEF Kept
  <2>2. Charges'
    BY <1>1, <1>3, <1>4, <1>6, <2>1, KeptCharges DEF Inv, Loading
  <2>3. Types'
    BY <1>3, <1>4, <1>6 DEF Inv, Types, Places
  <2>4. OpenScopes' /\ Endings' /\ Positions'
    BY <1>6 DEF OpenScopes, Endings, Positions, Errors, Stopped, Opening, Pass, Loop
  <2>5. Caching'
    BY <1>4, <1>5, <1>6 DEF Caching, Stopped, Opening, Pass, Loop, Loading
  <2>6. QED
    BY <2>2, <2>3, <2>4, <2>5 DEF Inv
<1>7. CASE /\ budget' = Released(budget, Forward)
           /\ run' = [run EXCEPT !.pos = run.pos + 1, !.scopes = run.scopes \ {Forward}]
           /\ IF run.tokens > 0 /\ run.pos + 1 >= ContextLength
              THEN pc' = "finish" /\ outcome' = "ContextLength"
              ELSE pc' = AfterForward /\ outcome' = (IF AfterForward = "finish"
                                                     THEN "MaxTokens" ELSE outcome)
  <2>1. /\ run'.prompt = run.prompt /\ run'.max = run.max /\ run'.pos = run.pos + 1
        /\ run'.layer = run.layer /\ run'.tokens = run.tokens
        /\ run'.scopes = run.scopes \ {Forward}
        /\ run' \in [prompt : Nat, max : Nat, pos : Nat, layer : Nat, tokens : Nat,
                     scopes : SUBSET {Hidden, LogitsBuffer, Forward}]
    <3>1. run.pos + 1 \in Nat
      BY <1>2
    <3>2. run.scopes \ {Forward} \in SUBSET {Hidden, LogitsBuffer, Forward}
      BY <1>2
    <3>3. run' = [run EXCEPT !.pos = run.pos + 1, !.scopes = run.scopes \ {Forward}]
      BY <1>7
    <3>4. QED
      BY <1>2, <3>1, <3>2, <3>3
  <2>2. ~(run.tokens > 0 /\ run.pos + 1 >= ContextLength)
    BY <1>1, <1>2
  <2>3. \/ run.pos + 1 < run.prompt /\ pc' = "forward" /\ outcome' = "None"
        \/ run.pos + 1 >= run.prompt /\ run.tokens = run.max /\ pc' = "finish" /\ outcome' = "MaxTokens"
        \/ run.pos + 1 >= run.prompt /\ run.tokens < run.max /\ pc' = "logits" /\ outcome' = "None"
    <3>1. pc' = AfterForward /\ outcome' = (IF AfterForward = "finish" THEN "MaxTokens" ELSE "None")
      BY <1>1, <1>7, <2>2
    <3>2. CASE run.pos + 1 < run.prompt
      BY <3>1, <3>2 DEF AfterForward
    <3>3. CASE ~(run.pos + 1 < run.prompt) /\ run.tokens = run.max
      BY <1>2, <3>1, <3>3 DEF AfterForward
    <3>4. CASE ~(run.pos + 1 < run.prompt) /\ run.tokens # run.max
      BY <1>1, <1>2, <3>1, <3>4 DEF AfterForward
    <3>5. QED
      BY <3>2, <3>3, <3>4
  <2>4. Forward \in Own /\ Forward # KvCharge /\ KvCharge \in Own
    BY EngineNames, NamesApart DEF Temps
  <2>5. Sets(cache, budget, budget', Forward, 0)
    BY <1>1, <1>7, <2>4, ReleasedStep
  <2>6. Held' = Held \ {Forward}
    <3>1. Forward \notin {Weight(w) : w \in loaded} /\ pc \notin Loading /\ pc' \notin Loading
      BY <1>1, <2>3, NamesApart DEF Temps, Loading
    <3>2. QED
      BY <1>3, <2>1, <3>1 DEF Held
  <2> HIDE DEF Held
  <2>7. Charges'
    <3>1. \A m \in Own \ {KvCharge} : budget'.allocations[m] # 0 <=> m \in Held'
      BY <2>5, <2>6 DEF Sets, Inv, Charges, Charged
    <3>2. budget'.allocations[KvCharge] = KvBytes * kv'.capacity
      BY <1>4, <2>4, <2>5 DEF Sets, Inv, Charges
    <3>3. QED
      BY <1>3, <2>3, <2>5, <3>1, <3>2, ChargesNext DEF Sets, Loading
  <2>8. Types'
    BY <1>3, <1>4, <2>1, <2>3 DEF Inv, Types, Places, Loop
  <2>9. OpenScopes' /\ Endings'
    <3>1. run'.scopes = {Hidden, LogitsBuffer}
      BY <1>1, <2>1, NamesApart
    <3>2. QED
      BY <2>3, <3>1 DEF OpenScopes, Endings, Stopped, Opening, Pass, Loop, Errors
  <2>10. Caching'
    BY <1>4, <1>5, <2>3 DEF Caching, Stopped, Opening, Pass, Loop, Loading
  <2>11. /\ run'.prompt >= 1 /\ run'.prompt + run'.max <= ContextLength /\ run'.tokens <= run'.max
         /\ kv'.seq_len = run'.pos
         /\ run'.prompt <= kv'.capacity /\ kv'.capacity <= run'.prompt + run'.max
    BY <1>1, <1>4, <2>1
  <2>12. CASE run.pos + 1 < run.prompt /\ pc' = "forward" /\ outcome' = "None"
    <3>1. run'.tokens = 0 /\ run'.pos < run'.prompt /\ run'.pos < kv'.capacity
      BY <1>1, <1>2, <1>4, <2>1, <2>12
    <3>2. QED
      BY <2>7, <2>8, <2>9, <2>10, <2>11, <2>12, <3>1 DEF Inv, Positions, Opening, Pass, Loop
  <2>13. CASE run.pos + 1 >= run.prompt /\ run.tokens = run.max /\ pc' = "finish" /\ outcome' = "MaxTokens"
    BY <2>1, <2>7, <2>8, <2>9, <2>10, <2>11, <2>13 DEF Inv, Positions, Opening, Pass, Loop
  <2>14. CASE run.pos + 1 >= run.prompt /\ run.tokens < run.max /\ pc' = "logits" /\ outcome' = "None"
    <3>1. run'.pos <= kv'.capacity /\ run'.tokens < run'.max /\ run'.pos = run'.prompt + run'.tokens
      BY <1>1, <1>2, <1>4, <2>1, <2>14
    <3>2. QED
      BY <2>7, <2>8, <2>9, <2>10, <2>11, <2>14, <3>1 DEF Inv, Positions, Opening, Pass, Loop
  <2>15. QED
    BY <2>3, <2>12, <2>13, <2>14
<1>8. QED
  BY <1>3, <1>6, <1>7

(* A step of the loop that leaves the charges and the KV cache as they are.*)
LEMMA LoopStep ==
    ASSUME Inv, pc \in Loop, pc' \in Loop, Kept(cache', budget', budget),
           loaded' = loaded, kv' = kv,
           NEW tokens \in Nat, run' = [run EXCEPT !.tokens = tokens],
           tokens <= run.max,
           pc' # "finish" => outcome' = "None",
           pc' = "finish" => \/ outcome' = "MaxTokens" /\ tokens = run.max
                             \/ outcome' = "Eos" /\ tokens < run.max,
           pc' = "forward" => /\ run.pos < kv.capacity
                              /\ tokens >= 1 /\ tokens < run.max /\ run.pos + 1 = run.prompt + tokens,
           pc' \in {"logits", "sample"} =>
              run.pos <= kv.capacity /\ tokens < run.max /\ run.pos = run.prompt + tokens,
           pc' = "emit" =>
              run.pos <= kv.capacity /\ tokens >= 1 /\ run.pos + 1 = run.prompt + tokens,
           pc' = "grow" => /\ run.pos = kv.capacity /\ tokens >= 1 /\ tokens < run.max
                           /\ run.pos + 1 = run.prompt + tokens
    PROVE  Inv'
<1>1. /\ run'.prompt = run.prompt /\ run'.max = run.max /\ run'.pos = run.pos
      /\ run'.layer = run.layer /\ run'.tokens = tokens /\ run'.scopes = run.scopes
      /\ run' \in [prompt : Nat, max : Nat, pos : Nat, layer : Nat, tokens : Nat,
                   scopes : SUBSET {Hidden, LogitsBuffer, Forward}]
  BY DEF Inv, Types
<1>2. Charges'
  BY <1>1, KeptCharges DEF Inv, Loading, Loop
<1>3. Types'
  BY <1>1 DEF Inv, Types, Places
<1>4. OpenScopes' /\ Endings'
  BY <1>1 DEF Inv, OpenScopes, Endings, Stopped, Opening, Pass, Loop, Errors
<1>5. Positions'
  BY <1>1 DEF Inv, Positions, Opening, Pass, Loop
<1>6. Caching'
  BY <1>1 DEF Inv, Caching, Stopped, Opening, Pass, Loop, Loading
<1>7. QED
  BY <1>2, <1>3, <1>4, <1>5, <1>6 DEF Inv

(* Room for a passing charge, and what it can come to.                     *)
LEMMA PassingInRoom ==
    ASSUME Consistent(cache, budget), NEW room, NEW bytes \in Nat,
           PassingFits(RoomyBudget(room), bytes)
    PROVE  Kept(RoomyCache(room), Passing(RoomyBudget(room), bytes), budget)
<1> DEFINE c == RoomyCache(room)
           b == RoomyBudget(room)
           d == Passing(b, bytes)
<1>1. Kept(c, b, budget)
  BY RoomyStep
<1> HIDE DEF c, b
<1>2. Kept(c, d, b)
  BY <1>1, PassingStep DEF Kept, b
<1> HIDE DEF d
<1>3. Kept(c, d, budget)
  BY <1>1, <1>2 DEF Kept
<1>4. QED
  BY <1>3 DEF b, c, d

(* Division by a positive number.                                          *)
LEMMA DivisionParts ==
    ASSUME NEW a \in Nat, NEW d \in Nat, d >= 1
    PROVE  a \div d \in Nat /\ a % d \in 0..(d - 1) /\ a = d * (a \div d) + (a % d)
OBVIOUS

(* The streamed workspace is a number of bytes.                            *)
LEMMA MatvecNumber ==
    ASSUME NEW c, NEW b, Consistent(c, b)
    PROVE  MatvecBytes(b) \in Nat
<1> DEFINE target == Larger(Smaller(Available(b) \div Share, MaxStreamChunk), OutputRow)
           rows == Larger(1, target \div OutputRow)
<1>1. Available(b) \div Share \in Nat
  <2>1. Available(b) \in Nat /\ Share \in Nat /\ Share >= 1
    BY Ledger, Sizing
  <2>2. QED
    BY <2>1, DivisionParts
<1>2. target \in Nat
  BY <1>1, Sizing DEF Larger, Smaller
<1> HIDE DEF target
<1>3. target \div OutputRow \in Nat
  BY <1>2, Sizing, DivisionParts
<1>4. rows \in Nat
  BY <1>3 DEF Larger
<1> HIDE DEF rows
<1>5. rows * OutputRow \in Nat
  BY <1>4, Sizing
<1>6. MatvecBytes(b) = IF OutputResident THEN 0
                       ELSE rows * OutputRow + (IF DirectF32 THEN 0 ELSE DecodedRow)
  BY DEF MatvecBytes, rows, target
<1>7. QED
  BY <1>5, <1>6, Sizing

(* The output projection, in a workspace sized by what is available.       *)
LEMMA ComputeLogitsStep ==
    ASSUME Inv, ComputeLogits
    PROVE  Inv'
<1> DEFINE c == RoomyCache(OneRowBytes)
           b == RoomyBudget(OneRowBytes)
           d == Passing(b, MatvecBytes(b))
<1>1. /\ pc = "logits" /\ pc \in Running \ Loading /\ pc \in Loop /\ Consistent(cache, budget)
      /\ run.pos <= kv.capacity /\ run.tokens < run.max /\ run.pos = run.prompt + run.tokens
      /\ run.tokens <= run.max /\ run.tokens \in Nat /\ outcome = "None"
  BY DEF ComputeLogits, Inv, Types, Charges, Positions, Endings, Running, Loop, Loading
<1>2. Kept(c, b, budget)
  BY <1>1, RoomyStep
<1>3. MatvecBytes(b) \in Nat
  <2> HIDE DEF c, b
  <2>1. QED
    BY <1>2, MatvecNumber DEF Kept
<1>4. \/ Fails("Short", c, b)
      \/ PassingFits(b, MatvecBytes(b)) /\ Fails("Fault", c, d)
      \/ PassingFits(b, MatvecBytes(b)) /\ Continues("sample", c, d) /\ kv' = kv /\ run' = run
  BY DEF ComputeLogits
<1>5. PassingFits(b, MatvecBytes(b)) => Kept(c, d, budget)
  BY <1>1, <1>3, PassingInRoom
<1> HIDE DEF c, b, d
<1>6. CASE Fails("Short", c, b)
  BY <1>1, <1>2, <1>6, FailsKept DEF Errors
<1>7. CASE PassingFits(b, MatvecBytes(b)) /\ Fails("Fault", c, d)
  BY <1>1, <1>5, <1>7, FailsKept DEF Errors
<1>8. CASE PassingFits(b, MatvecBytes(b)) /\ Continues("sample", c, d) /\ kv' = kv /\ run' = run
  <2>1. pc' = "sample" /\ cache' = c /\ budget' = d /\ loaded' = loaded /\ outcome' = outcome
    BY <1>8 DEF Continues, Store
  <2>2. run' = [run EXCEPT !.tokens = run.tokens]
    BY <1>8 DEF Inv, Types
  <2>3. QED
    BY <1>1, <1>5, <1>8, <2>1, <2>2, LoopStep DEF Loop
<1>9. QED
  BY <1>4, <1>6, <1>7, <1>8

(* The next token, or the end of the sequence.                             *)
LEMMA SampleStep ==
    ASSUME Inv, Sample
    PROVE  Inv'
<1> DEFINE c == RoomyCache(SamplerBytes)
           b == RoomyBudget(SamplerBytes)
           d == Passing(b, SamplerBytes)
<1>1. /\ pc = "sample" /\ pc \in Running \ Loading /\ pc \in Loop /\ Consistent(cache, budget)
      /\ run.pos <= kv.capacity /\ run.tokens < run.max /\ run.pos = run.prompt + run.tokens
      /\ run.tokens \in Nat /\ run.max \in Nat /\ run.pos \in Nat /\ run.prompt \in Nat
      /\ kv.capacity \in Nat /\ outcome = "None"
  BY DEF Sample, Inv, Types, Charges, Positions, Endings, Running, Loop, Loading
<1>2. Kept(c, b, budget)
  BY <1>1, RoomyStep
<1>3. PassingFits(b, SamplerBytes) => Kept(c, d, budget)
  BY <1>1, Sizing, PassingInRoom
<1>4. \/ Fails("Short", c, b)
      \/ PassingFits(b, SamplerBytes) /\ Fails("Fault", c, d)
      \/ /\ PassingFits(b, SamplerBytes)
         /\ cache' = c /\ budget' = d /\ pc' = "finish" /\ outcome' = "Eos"
         /\ loaded' = loaded /\ kv' = kv /\ run' = run
      \/ /\ PassingFits(b, SamplerBytes)
         /\ Continues("emit", c, d) /\ run' = [run EXCEPT !.tokens = run.tokens + 1] /\ kv' = kv
  BY DEF Sample, Store
<1> HIDE DEF c, b, d
<1>5. CASE Fails("Short", c, b)
  BY <1>1, <1>2, <1>5, FailsKept DEF Errors
<1>6. CASE PassingFits(b, SamplerBytes) /\ Fails("Fault", c, d)
  BY <1>1, <1>3, <1>6, FailsKept DEF Errors
<1>7. CASE /\ PassingFits(b, SamplerBytes)
           /\ cache' = c /\ budget' = d /\ pc' = "finish" /\ outcome' = "Eos"
           /\ loaded' = loaded /\ kv' = kv /\ run' = run
  <2>1. run' = [run EXCEPT !.tokens = run.tokens]
    BY <1>7 DEF Inv, Types
  <2>2. pc' = "finish" /\ pc' \in Loop /\ outcome' = "Eos" /\ run.tokens <= run.max
    BY <1>1, <1>7 DEF Loop
  <2>3. Kept(cache', budget', budget) /\ loaded' = loaded /\ kv' = kv
    BY <1>3, <1>7
  <2>4. QED
    BY <1>1, <2>1, <2>2, <2>3, LoopStep
<1>8. CASE /\ PassingFits(b, SamplerBytes)
           /\ Continues("emit", c, d) /\ run' = [run EXCEPT !.tokens = run.tokens + 1] /\ kv' = kv
  <2>1. pc' = "emit" /\ cache' = c /\ budget' = d /\ loaded' = loaded /\ outcome' = outcome
    BY <1>8 DEF Continues, Store
  <2>2. /\ run.tokens + 1 \in Nat /\ run.tokens + 1 <= run.max /\ run.tokens + 1 >= 1
        /\ run.pos + 1 = run.prompt + (run.tokens + 1)
    BY <1>1
  <2>3. QED
    BY <1>1, <1>3, <1>8, <2>1, <2>2, LoopStep DEF Loop
<1>9. QED
  BY <1>4, <1>5, <1>6, <1>7, <1>8

(* A token is delivered and the generation ends, grows or goes on.         *)
LEMMA EmitStep ==
    ASSUME Inv, Emit
    PROVE  Inv'
<1>1. /\ pc = "emit" /\ pc \in Running \ Loading /\ pc \in Loop /\ Kept(cache, budget, budget)
      /\ run.pos <= kv.capacity /\ run.tokens >= 1 /\ run.pos + 1 = run.prompt + run.tokens
      /\ run.tokens <= run.max /\ run.prompt + run.max <= ContextLength
      /\ run.tokens \in Nat /\ run.max \in Nat /\ run.pos \in Nat /\ run.prompt \in Nat
      /\ kv.capacity \in Nat /\ outcome = "None" /\ ContextLength \in Nat
  BY Sizing DEF Emit, Inv, Types, Charges, Kept, Positions, Endings, Running, Loop, Loading
<1>2. CASE Fails("Callback", cache, budget)
  BY <1>1, <1>2, FailsKept DEF Errors
<1>3. CASE /\ IF run.tokens = run.max THEN pc' = "finish" /\ outcome' = "MaxTokens"
              ELSE IF run.pos + 1 >= ContextLength THEN pc' = "finish" /\ outcome' = "ContextLength"
              ELSE /\ pc' = IF run.pos + 1 > kv.capacity THEN "grow" ELSE "forward"
                   /\ UNCHANGED outcome
           /\ UNCHANGED <<budget, cache, loaded, kv, run>>
  <2>1. /\ budget' = budget /\ cache' = cache /\ loaded' = loaded /\ kv' = kv
        /\ run' = [run EXCEPT !.tokens = run.tokens]
    BY <1>3 DEF Inv, Types
  <2>2. CASE run.tokens = run.max
    BY <1>1, <1>3, <2>1, <2>2, LoopStep DEF Loop
  <2>3. CASE run.tokens # run.max
    <3>1. run.tokens < run.max /\ ~(run.pos + 1 >= ContextLength)
      BY <1>1, <2>3
    <3>2. CASE run.pos + 1 > kv.capacity
      <4>1. pc' = "grow" /\ outcome' = outcome /\ run.pos = kv.capacity
        BY <1>1, <1>3, <2>3, <3>1, <3>2
      <4>2. QED
        BY <1>1, <2>1, <3>1, <4>1, LoopStep DEF Loop
    <3>3. CASE ~(run.pos + 1 > kv.capacity)
      <4>1. pc' = "forward" /\ outcome' = outcome /\ run.pos < kv.capacity
        BY <1>1, <1>3, <2>3, <3>1, <3>3
      <4>2. QED
        BY <1>1, <2>1, <3>1, <4>1, LoopStep DEF Loop
    <3>4. QED
      BY <3>2, <3>3
  <2>4. QED
    BY <2>2, <2>3
<1>4. QED
  BY <1>2, <1>3 DEF Emit

-----------------------------------------------------------------------------
(* Growing the KV cache.                                                   *)

(* The chunks that hold n positions hold at least n.                       *)
LEMMA AlignedUp ==
    ASSUME NEW n \in Nat
    PROVE  ChunkAligned(n) \in Nat /\ ChunkAligned(n) >= n
<1> DEFINE q == (n + Chunk - 1) \div Chunk
           r == (n + Chunk - 1) % Chunk
<1>1. Chunk \in Nat /\ Chunk >= 1 /\ n + Chunk - 1 \in Nat
  BY Sizing
<1>2. q \in Nat /\ r \in 0..(Chunk - 1) /\ n + Chunk - 1 = Chunk * q + r
  BY <1>1, DivisionParts
<1> HIDE DEF q, r
<1>3. q * Chunk = Chunk * q /\ q * Chunk \in Nat
  BY <1>1, <1>2
<1>4. q * Chunk >= n
  BY <1>1, <1>2, <1>3
<1>5. QED
  BY <1>3, <1>4 DEF ChunkAligned, q

(* Growth always gains a position and never goes beyond the request.       *)
LEMMA GrowthGains ==
    ASSUME Inv, pc = "grow"
    PROVE  /\ GrowthTarget \in Nat /\ GrowthTarget > kv.capacity /\ GrowthTarget <= Needed
           /\ run.pos < GrowthTarget /\ run.prompt <= GrowthTarget
<1>1. /\ run.pos = kv.capacity /\ run.tokens < run.max /\ run.pos + 1 = run.prompt + run.tokens
      /\ run.tokens \in Nat /\ run.max \in Nat /\ run.pos \in Nat /\ run.prompt \in Nat
      /\ run.prompt <= kv.capacity
  BY DEF Inv, Types, Positions, Loop
<1>2. ChunkAligned(run.pos + 1) \in Nat /\ ChunkAligned(run.pos + 1) >= run.pos + 1
  BY <1>1, AlignedUp
<1> DEFINE a == ChunkAligned(run.pos + 1)
<1>3. a \in Nat /\ a >= run.pos + 1 /\ Needed \in Nat /\ run.pos + 1 < Needed
  BY <1>1, <1>2 DEF Needed
<1> HIDE DEF a
<1>4. GrowthTarget \in {a, Needed} /\ GrowthTarget <= Needed
  BY <1>3 DEF GrowthTarget, Smaller, a
<1>5. QED
  BY <1>1, <1>3, <1>4

(* The KV cache grows: both buffers are charged, then the old one is gone. *)
LEMMA GrowStep ==
    ASSUME Inv, Grow
    PROVE  Inv'
<1> DEFINE new == GrowthTarget
           bytes == KvBytes * new
           c == RoomyCache(bytes)
           b == RoomyBudget(bytes)
           both == Allocated(b, KvGrowth, bytes)
           d == ResizeCommitted(both, KvCharge, KvGrowth, bytes)
<1>1. /\ pc = "grow" /\ pc \in Running \ Loading /\ pc \in Loop /\ Consistent(cache, budget)
      /\ run.tokens >= 1 /\ run.tokens < run.max /\ run.pos + 1 = run.prompt + run.tokens
      /\ run.prompt >= 1 /\ run.prompt + run.max <= ContextLength /\ run.tokens <= run.max
      /\ kv.seq_len = run.pos /\ outcome = "None" /\ run.scopes = {Hidden, LogitsBuffer}
  BY DEF Grow, Inv, Types, Charges, Positions, Endings, OpenScopes, Running, Loop, Loading
<1>2. /\ new \in Nat /\ new > kv.capacity /\ new <= run.prompt + run.max /\ run.pos < new
      /\ run.prompt <= new /\ kv.capacity \in Nat /\ kv.capacity # 0
  BY <1>1, GrowthGains DEF Needed, Inv, Types, Caching
<1>3. /\ bytes \in Nat /\ KvBytes * kv.capacity \in Nat /\ KvBytes * kv.capacity # 0
  <2>1. KvBytes \in Nat /\ KvBytes >= 1
    BY Sizing
  <2>2. KvBytes * kv.capacity \in Nat /\ KvBytes * kv.capacity >= kv.capacity
    BY <1>2, <2>1
  <2>3. QED
    BY <1>2, <2>1, <2>2
<1>4. Kept(c, b, budget)
  BY <1>1, RoomyStep
<1>5. /\ budget.allocations[KvGrowth] = 0
      /\ budget.allocations[KvCharge] = KvBytes * kv.capacity
      /\ KvGrowth \in Own /\ KvCharge \in Own /\ KvCharge # KvGrowth
  BY FreeNames, EngineNames, NamesApart DEF Inv, Charges
<1>6. ~(new <= kv.capacity)
  BY <1>2
<1>7. \/ Fails("Short", c, b)
      \/ /\ AllocateResult(b, KvGrowth, bytes) = "Ok"
         /\ \/ /\ both.allocations[KvCharge] # KvBytes * kv.capacity
               /\ Fails("KvMismatch", c, Released(both, KvGrowth))
            \/ Fails("Fault", c, Released(both, KvGrowth))
            \/ /\ CommitResizeResult(both, KvCharge, KvGrowth, bytes) # "Ok"
               /\ Fails("KvCommit", c, both)
            \/ Continues("forward", c, d) /\ kv' = [kv EXCEPT !.capacity = new] /\ run' = run
  BY <1>6 DEF Grow
<1> HIDE DEF new, bytes, c, b
<1>8. CASE Fails("Short", c, b)
  BY <1>1, <1>4, <1>8, FailsKept DEF Errors
<1>9. ASSUME AllocateResult(b, KvGrowth, bytes) = "Ok"
      PROVE  /\ Sets(c, b, both, KvGrowth, bytes) /\ b.allocations[KvGrowth] = 0 /\ bytes # 0
             /\ both.allocations[KvCharge] = KvBytes * kv.capacity
  <2>1. Sets(c, b, both, KvGrowth, bytes) /\ b.allocations[KvGrowth] = 0 /\ bytes # 0
    BY <1>3, <1>4, <1>5, <1>9, AllocatedStep DEF Kept
  <2> HIDE DEF both
  <2>2. QED
    BY <1>4, <1>5, <2>1 DEF Sets, Kept
<1> HIDE DEF both
<1>10. CASE AllocateResult(b, KvGrowth, bytes) = "Ok" /\ Fails("Fault", c, Released(both, KvGrowth))
  <2>1. Sets(c, both, Released(both, KvGrowth), KvGrowth, 0)
    BY <1>5, <1>9, <1>10, ReleasedStep DEF Sets
  <2>2. Kept(c, Released(both, KvGrowth), b)
    BY <1>9, <1>10, <2>1, SetsTwice
  <2>3. Kept(c, Released(both, KvGrowth), budget)
    BY <1>4, <2>2 DEF Kept
  <2>4. QED
    BY <1>1, <1>10, <2>3, FailsKept DEF Errors
<1>11. ASSUME AllocateResult(b, KvGrowth, bytes) = "Ok"
       PROVE  /\ CommitResizeResult(both, KvCharge, KvGrowth, bytes) = "Ok"
              /\ Consistent(c, d)
              /\ \A m \in Own : d.allocations[m] = IF m = KvCharge THEN bytes ELSE budget.allocations[m]
  <2>1. /\ Consistent(c, both) /\ both.allocations[KvCharge] # 0
        /\ both.allocations[KvGrowth] = bytes /\ bytes # 0
    BY <1>3, <1>5, <1>9, <1>11 DEF Sets
  <2>2. /\ CommitResizeResult(both, KvCharge, KvGrowth, bytes) = "Ok"
        /\ Consistent(c, d)
        /\ \A m \in Own : d.allocations[m] = IF m = KvCharge THEN bytes
                                             ELSE IF m = KvGrowth THEN 0 ELSE both.allocations[m]
    BY <1>3, <1>5, <2>1, CommittedStep
  <2> HIDE DEF d
  <2>3. QED
    BY <1>4, <1>5, <1>9, <1>11, <2>2 DEF Sets, Kept
<1>12. CASE /\ AllocateResult(b, KvGrowth, bytes) = "Ok"
            /\ Continues("forward", c, d) /\ kv' = [kv EXCEPT !.capacity = new] /\ run' = run
  <2>1. /\ pc' = "forward" /\ cache' = c /\ budget' = d /\ loaded' = loaded /\ outcome' = outcome
        /\ run' = run
    BY <1>12 DEF Continues, Store
  <2>2. /\ kv'.capacity = new /\ kv'.seq_len = kv.seq_len /\ kv' \in [capacity : Nat, seq_len : Nat]
    BY <1>2, <1>12 DEF Inv, Types
  <2>3. Held' = Held
    BY <1>1, <2>1 DEF Held, Loading
  <2> HIDE DEF Held, d
  <2>4. Charges'
    <3>1. \A m \in Own \ {KvCharge} : budget'.allocations[m] # 0 <=> m \in Held'
      BY <1>11, <1>12, <2>1, <2>3 DEF Inv, Charges, Charged
    <3>2. budget'.allocations[KvCharge] = KvBytes * kv'.capacity
      BY <1>5, <1>11, <1>12, <2>1, <2>2 DEF bytes
    <3>3. QED
      BY <1>11, <1>12, <2>1, <3>1, <3>2, ChargesNext DEF Loading
  <2>5. Types'
    BY <2>1, <2>2 DEF Inv, Types, Places, Loop
  <2>6. OpenScopes' /\ Endings'
    BY <1>1, <2>1 DEF OpenScopes, Endings, Stopped, Opening, Pass, Loop, Errors
  <2>7. Positions'
    BY <1>1, <1>2, <2>1, <2>2 DEF Positions, Opening, Pass, Loop
  <2>8. Caching'
    <3>1. kv'.capacity # 0
      BY <1>2, <2>2
    <3>2. QED
      BY <2>1, <3>1 DEF Caching, Stopped, Opening, Pass, Loop, Loading
  <2>9. QED
    BY <2>4, <2>5, <2>6, <2>7, <2>8 DEF Inv
<1>13. QED
  BY <1>7, <1>8, <1>9, <1>10, <1>11, <1>12

-----------------------------------------------------------------------------
(* The end of a generation and of the engine.                              *)

(* The open scopes close.                                                  *)
LEMMA ScopesClosed ==
    ASSUME Inv
    PROVE  /\ Consistent(cache, ReleasedAll(budget, run.scopes))
           /\ \A m \in Own : ReleasedAll(budget, run.scopes).allocations[m] =
                                IF m \in run.scopes THEN 0 ELSE budget.allocations[m]
           /\ run.scopes \subseteq Own /\ KvCharge \notin run.scopes
<1>1. run.scopes \subseteq {Hidden, LogitsBuffer, Forward} /\ Consistent(cache, budget)
  BY DEF Inv, Types, Charges
<1>2. run.scopes \subseteq Own /\ KvCharge \notin run.scopes
  BY <1>1, EngineNames, NamesApart DEF Temps
<1>3. QED
  BY <1>1, <1>2, ReleasedAllStep

(* With no scope open and no layer loaded only the weights are held.       *)
LEMMA OnlyWeightsHeld ==
    ASSUME Inv, pc \notin Loading, pc' \notin Loading, loaded' = loaded, run'.scopes = {},
           Consistent(cache', budget'),
           budget'.allocations[KvCharge] = KvBytes * kv'.capacity,
           \A m \in Own \ {KvCharge} : budget'.allocations[m] =
              IF m \in run.scopes THEN 0 ELSE budget.allocations[m]
    PROVE  Charges'
<1>1. Held' = Held \ run.scopes
  <2>1. run.scopes \cap {Weight(w) : w \in loaded} = {}
    BY NamesApart DEF Inv, Types, Temps
  <2>2. QED
    BY <2>1 DEF Held
<1> HIDE DEF Held
<1>2. \A m \in Own \ {KvCharge} : budget'.allocations[m] # 0 <=> m \in Held'
  BY <1>1 DEF Inv, Charges, Charged
<1>3. QED
  BY <1>2, ChargesNext

(* A generation that ends keeps its KV cache; the layer cache is cleared.  *)
LEMMA FinishStep ==
    ASSUME Inv, Finish
    PROVE  Inv'
<1> DEFINE closed == ReleasedAll(budget, run.scopes)
<1>1. /\ pc = "finish" /\ pc \notin Loading /\ outcome \in {"Eos", "MaxTokens"}
      /\ kv.capacity # 0 /\ loaded \subseteq DOMAIN Weights
      /\ kv \in [capacity : Nat, seq_len : Nat]
      /\ budget.allocations[KvCharge] = KvBytes * kv.capacity /\ KvCharge \in Own
  BY EngineNames DEF Finish, Inv, Types, Charges, Endings, Caching, Loop, Loading
<1>2. /\ \/ /\ cache' = cache /\ budget' = closed /\ pc' = "failing" /\ outcome' = "Callback"
            /\ run' = [run EXCEPT !.scopes = {}]
         \/ /\ cache' = EmptyCache /\ budget' = WithoutCache(closed) /\ pc' = "idle"
            /\ run' = NoRun /\ outcome' = outcome
      /\ loaded' = loaded /\ kv' = kv
  BY DEF Finish, Store
<1>3. /\ Consistent(cache, closed)
      /\ \A m \in Own : closed.allocations[m] = IF m \in run.scopes THEN 0 ELSE budget.allocations[m]
      /\ KvCharge \notin run.scopes
  BY ScopesClosed
<1> HIDE DEF closed
<1>4. Kept(EmptyCache, WithoutCache(closed), closed) /\ EmptyCache.lru = <<>>
  BY <1>3, ClearedStep
<1>5. /\ Consistent(cache', budget')
      /\ \A m \in Own : budget'.allocations[m] = IF m \in run.scopes THEN 0 ELSE budget.allocations[m]
  BY <1>2, <1>3, <1>4 DEF Kept
<1>6. /\ run'.scopes = {}
      /\ run' \in [prompt : Nat, max : Nat, pos : Nat, layer : Nat, tokens : Nat,
                   scopes : SUBSET {Hidden, LogitsBuffer, Forward}]
  <2>1. run \in [prompt : Nat, max : Nat, pos : Nat, layer : Nat, tokens : Nat,
                 scopes : SUBSET {Hidden, LogitsBuffer, Forward}]
    BY DEF Inv, Types
  <2>2. CASE run' = NoRun
    BY <2>2 DEF NoRun
  <2>3. CASE run' = [run EXCEPT !.scopes = {}]
    BY <2>1, <2>3
  <2>4. QED
    BY <1>2, <2>2, <2>3
<1>7. Charges'
  BY <1>1, <1>2, <1>3, <1>5, <1>6, OnlyWeightsHeld DEF Loading
<1>8. Types'
  BY <1>1, <1>2, <1>6 DEF Types, Places, Stopped
<1>9. OpenScopes' /\ Endings' /\ Positions'
  BY <1>1, <1>2, <1>6 DEF OpenScopes, Endings, Positions, Errors, Stopped, Opening, Pass, Loop
<1>10. Caching'
  <2>1. kv # NoKv
    BY <1>1 DEF NoKv
  <2>2. QED
    BY <1>1, <1>2, <1>4, <2>1 DEF Caching, StopReasons, Stopped, Opening, Pass, Loop, Loading
<1>11. QED
  BY <1>7, <1>8, <1>9, <1>10 DEF Inv

(* An error leaves the engine with its weights only.                       *)
LEMMA CleanUpStep ==
    ASSUME Inv, CleanUp
    PROVE  Inv'
<1> DEFINE closed == ReleasedAll(budget, run.scopes)
           d == WithoutKv(closed)
<1>1. /\ pc = "failing" /\ pc \notin Loading /\ outcome \in Errors
      /\ loaded \subseteq DOMAIN Weights /\ KvCharge \in Own
  BY EngineNames DEF CleanUp, Inv, Types, Endings, Loading
<1>2. /\ cache' = EmptyCache /\ budget' = WithoutCache(d) /\ pc' = "idle" /\ run' = NoRun
      /\ kv' = NoKv /\ loaded' = loaded /\ outcome' = outcome
  BY DEF CleanUp, Store
<1>3. /\ Consistent(cache, closed)
      /\ \A m \in Own : closed.allocations[m] = IF m \in run.scopes THEN 0 ELSE budget.allocations[m]
      /\ KvCharge \notin run.scopes
  BY ScopesClosed
<1> HIDE DEF closed
<1>4. Sets(cache, closed, d, KvCharge, 0)
  BY <1>3, WithoutKvStep
<1> HIDE DEF d
<1>5. Kept(EmptyCache, WithoutCache(d), d) /\ EmptyCache.lru = <<>>
  BY <1>4, ClearedStep DEF Sets
<1>6. /\ Consistent(cache', budget') /\ budget'.allocations[KvCharge] = 0
      /\ \A m \in Own \ {KvCharge} :
            budget'.allocations[m] = IF m \in run.scopes THEN 0 ELSE budget.allocations[m]
  BY <1>1, <1>2, <1>3, <1>4, <1>5 DEF Kept, Sets
<1>7. KvBytes * kv'.capacity = 0 /\ run'.scopes = {}
  BY <1>2, Sizing DEF NoKv, NoRun
<1>8. Charges'
  BY <1>1, <1>2, <1>6, <1>7, OnlyWeightsHeld DEF Loading
<1>9. Types'
  BY <1>1, <1>2 DEF Types, Places, Stopped, NoRun, NoKv
<1>10. OpenScopes' /\ Endings' /\ Positions'
  BY <1>1, <1>2, <1>7 DEF OpenScopes, Endings, Positions, Errors, Stopped, Opening, Pass, Loop
<1>11. Caching'
  BY <1>1, <1>2, <1>5 DEF Caching, StopReasons, Errors, NoKv, Stopped, Opening, Pass, Loop, Loading
<1>12. QED
  BY <1>8, <1>9, <1>10, <1>11 DEF Inv

(* An engine that is dropped leaves nothing.                               *)
LEMMA DropStep ==
    ASSUME Inv, Drop
    PROVE  Inv'
<1> DEFINE S == {Weight(w) : w \in loaded}
           d == WithoutKv(budget)
           e == WithoutCache(d)
<1>1. /\ pc = "idle" /\ loaded \subseteq DOMAIN Weights /\ KvCharge \in Own
      /\ run.scopes = {} /\ Consistent(cache, budget)
      /\ outcome \in Errors \cup {"None", "Eos", "MaxTokens"}
  BY EngineNames DEF Drop, Inv, Types, Charges, OpenScopes, Endings, Stopped
<1>2. /\ cache' = EmptyCache /\ budget' = ReleasedAll(e, S) /\ pc' = "dropped" /\ run' = run
      /\ kv' = NoKv /\ loaded' = {} /\ outcome' = outcome
  BY DEF Drop, Store
<1>3. S \subseteq Own /\ KvCharge \notin S
  BY <1>1, EngineNames, NamesApart
<1>4. Held = S /\ Held' = {}
  BY <1>1, <1>2 DEF Held, Loading
<1> HIDE DEF Held, S
<1>5. Sets(cache, budget, d, KvCharge, 0)
  BY <1>1, WithoutKvStep
<1> HIDE DEF d
<1>6. Kept(EmptyCache, e, d) /\ EmptyCache.lru = <<>>
  BY <1>5, ClearedStep DEF Sets
<1> HIDE DEF e
<1>7. /\ Consistent(cache', budget')
      /\ \A m \in Own : budget'.allocations[m] = IF m \in S THEN 0 ELSE e.allocations[m]
  BY <1>2, <1>3, <1>6, ReleasedAllStep DEF Kept
<1>8. \A m \in Own : budget'.allocations[m] =
                        IF m \in S \/ m = KvCharge THEN 0 ELSE budget.allocations[m]
  BY <1>5, <1>6, <1>7 DEF Kept, Sets
<1>9. Charges'
  <2>1. \A m \in Own \ {KvCharge} : budget'.allocations[m] # 0 <=> m \in Held'
    BY <1>4, <1>8 DEF Inv, Charges, Charged
  <2>2. budget'.allocations[KvCharge] = KvBytes * kv'.capacity
    BY <1>1, <1>2, <1>8, Sizing DEF NoKv
  <2>3. QED
    BY <1>2, <1>7, <2>1, <2>2, ChargesNext DEF Loading
<1>10. Types'
  BY <1>2 DEF Inv, Types, Places, Stopped, NoKv
<1>11. OpenScopes' /\ Endings' /\ Positions'
  BY <1>1, <1>2 DEF OpenScopes, Endings, Positions, Errors, Stopped, Opening, Pass, Loop
<1>12. Caching'
  BY <1>2, <1>6 DEF Caching, NoKv, Stopped, Opening, Pass, Loop, Loading
<1>13. QED
  BY <1>9, <1>10, <1>11, <1>12 DEF Inv

-----------------------------------------------------------------------------
(* The invariant of the specification.                                     *)
LEMMA InvStep ==
    ASSUME Inv, [Next]_vars
    PROVE  Inv'
<1>1. CASE LoadWeight
  BY <1>1, LoadWeightStep
<1>2. CASE \E capacity \in 0..MaxU64 : FinishLoad(capacity)
  BY <1>2, FinishLoadStep
<1>3. CASE \E prompt \in 0..MaxPrompt, max \in 0..MaxNew : Generate(prompt, max)
  BY <1>3, GenerateStep
<1>4. CASE GenerationStep
  <2>1. CASE NewKv \/ OpenHidden \/ OpenLogits
    BY <2>1, NewKvStep, OpenHiddenStep, OpenLogitsStep
  <2>2. CASE BeginForward \/ Embed \/ ExecuteCached \/ LoadMissing
    BY <2>2, BeginForwardStep, EmbedStep, ExecuteCachedStep, LoadMissingStep
  <2>3. CASE ExecuteLoaded \/ InsertLayer \/ Commit
    BY <2>3, ExecuteLoadedStep, InsertLayerStep, CommitStep
  <2>4. CASE ComputeLogits \/ Sample \/ Emit \/ Grow
    BY <2>4, ComputeLogitsStep, SampleStep, EmitStep, GrowStep
  <2>5. CASE Finish \/ CleanUp
    BY <2>5, FinishStep, CleanUpStep
  <2>6. QED
    BY <1>4, <2>1, <2>2, <2>3, <2>4, <2>5 DEF GenerationStep
<1>5. CASE Drop
  BY <1>5, DropStep
<1>6. CASE UNCHANGED vars
  <2>1. /\ budget' = budget /\ cache' = cache /\ loaded' = loaded /\ kv' = kv /\ pc' = pc
        /\ run' = run /\ outcome' = outcome
    BY <1>6 DEF vars
  <2>2. Types' /\ OpenScopes' /\ Endings' /\ Caching' /\ Positions'
    BY <2>1 DEF Inv, Types, OpenScopes, Endings, Caching, Positions
  <2>3. Charges'
    BY <2>1, ChargesNext DEF Inv, Charges, Charged, Held
  <2>4. QED
    BY <2>2, <2>3 DEF Inv
<1>7. QED
  BY <1>1, <1>2, <1>3, <1>4, <1>5, <1>6 DEF Next

(* Every name that is charged is the engine's or the cache's.              *)
LEMMA ChargedAtRest ==
    ASSUME Inv, cache.lru = <<>>, run.scopes = {}, pc \notin Loading
    PROVE  ChargedNames = {Weight(w) : w \in loaded} \cup (IF kv = NoKv THEN {} ELSE {KvCharge})
<1> DEFINE S == {Weight(w) : w \in loaded}
<1>1. Held = S /\ S \subseteq Own /\ KvCharge \in Own /\ KvCharge \notin S /\ Own \subseteq Names
  BY EngineNames, NamesApart DEF Held, Inv, Types, Own
<1>2. \A n \in Own \ {KvCharge} : Charged(budget, n) <=> n \in S
  BY <1>1 DEF Inv, Charges
<1>3. Charged(budget, KvCharge) <=> kv # NoKv
  <2>1. kv.capacity \in Nat /\ budget.allocations[KvCharge] = KvBytes * kv.capacity
    BY DEF Inv, Types, Charges
  <2>2. CASE kv.capacity = 0
    <3>1. KvBytes * kv.capacity = 0
      BY <2>2, Sizing
    <3>2. QED
      BY <2>1, <2>2, <3>1 DEF Inv, Caching, Charged
  <2>3. CASE kv.capacity # 0
    <3>1. KvBytes * kv.capacity >= 1
      <4>1. KvBytes \in Nat /\ KvBytes >= 1 /\ kv.capacity >= 1
        BY <2>1, <2>3, Sizing
      <4>2. QED
        BY <2>1, <4>1
    <3>2. kv # NoKv
      BY <2>3 DEF NoKv
    <3>3. KvBytes * kv.capacity # 0
      BY <2>1, <3>1, Sizing
    <3>4. QED
      BY <2>1, <3>2, <3>3 DEF Charged
  <2>4. QED
    BY <2>2, <2>3
<1>4. \A n \in Names \ Own : ~Charged(budget, n)
  <2>1. \A i \in Layers : ChargedUnder(budget, Resident(i)) = {}
    BY EmptyUncharged DEF Inv, Charges
  <2>2. QED
    BY <2>1 DEF ChargedUnder, Own
<1> HIDE DEF S
<1>5. \A n \in Names : Charged(budget, n) <=> n \in S \/ (n = KvCharge /\ kv # NoKv)
  <2>1. SUFFICES ASSUME NEW n \in Names
                 PROVE  Charged(budget, n) <=> n \in S \/ (n = KvCharge /\ kv # NoKv)
    OBVIOUS
  <2>2. CASE n = KvCharge
    BY <1>1, <1>3, <2>2
  <2>3. CASE n \in Own \ {KvCharge}
    BY <1>2, <2>3
  <2>4. CASE n \notin Own
    BY <1>1, <1>4, <2>4
  <2>5. QED
    BY <2>2, <2>3, <2>4
<1>6. ChargedNames = S \cup (IF kv = NoKv THEN {} ELSE {KvCharge})
  <2>1. CASE kv = NoKv
    <3>1. \A n \in Names : Charged(budget, n) <=> n \in S
      BY <1>5, <2>1
    <3>2. S \subseteq Names
      BY <1>1
    <3>3. ChargedNames = S
      BY <3>1, <3>2 DEF ChargedNames
    <3>4. QED
      BY <2>1, <3>3
  <2>2. CASE kv # NoKv
    <3>1. ChargedNames = S \cup {KvCharge}
      BY <1>1, <1>5, <2>2 DEF ChargedNames, Charged
    <3>2. QED
      BY <2>2, <3>1
  <2>3. QED
    BY <2>1, <2>2
<1>7. QED
  BY <1>6 DEF S

(* What the invariant says of the charges at rest and during a run.        *)
LEMMA InvCharges ==
    ASSUME Inv
    PROVE  ChargesMatchState
<1>1. ASSUME AtRest
      PROVE  /\ ChargedNames = {Weight(w) : w \in loaded} \cup (IF kv = NoKv THEN {} ELSE {KvCharge})
             /\ pc = "idle" => (kv # NoKv <=> outcome \in StopReasons)
             /\ pc # "idle" => loaded = {} /\ kv = NoKv
  <2>1. pc \in Stopped /\ pc \notin Loading
    BY <1>1 DEF AtRest, Stopped, Loading
  <2>2. cache.lru = <<>> /\ run.scopes = {}
    BY <2>1 DEF Inv, Caching, OpenScopes
  <2>3. pc = "idle" => (kv # NoKv <=> outcome \in StopReasons)
    BY DEF Inv, Caching
  <2>4. pc # "idle" => loaded = {} /\ kv = NoKv
    BY <1>1 DEF AtRest, Inv, Caching
  <2>5. QED
    BY <2>1, <2>2, <2>3, <2>4, ChargedAtRest
<1>2. KvChargeMatchesBuffers
  <2>1. budget.allocations[KvCharge] = KvBytes * kv.capacity
    BY DEF Inv, Charges
  <2>2. budget.allocations[KvGrowth] = 0
    BY FreeNames DEF Inv
  <2>3. kv = NoKv => KvBytes * kv.capacity = 0
    BY Sizing DEF NoKv
  <2>4. QED
    BY <2>1, <2>2, <2>3 DEF KvChargeMatchesBuffers, Charged
<1>3. QED
  BY <1>1, <1>2 DEF ChargesMatchState, NothingLeaksAtRest

(* What the invariant says of a generation.                                *)
LEMMA InvGeneration ==
    ASSUME Inv
    PROVE  GenerationSound
<1>1. HistoryInSync
  <2>1. SUFFICES ASSUME pc \in {"forward", "embed", "layer", "execute", "insert", "commit"}
                 PROVE  /\ kv.seq_len = run.pos /\ run.pos < kv.capacity
                        /\ kv.capacity <= Needed /\ Needed <= ContextLength
    BY DEF HistoryInSync
  <2>2. pc \in Pass \cup Loop /\ pc \in Pass \cup {"forward"}
    BY <2>1 DEF Pass, Loop
  <2>3. QED
    BY <2>2 DEF Inv, Positions, Needed
<1>2. outcome \in Errors \cup {"None", "Eos", "MaxTokens"}
  BY DEF Inv, Endings
<1>3. InternalErrorsUnreachable
  BY <1>2 DEF InternalErrorsUnreachable, Errors
<1>4. DeliversMaxTokens
  BY <1>2 DEF DeliversMaxTokens, Errors, Inv, Positions
<1>5. QED
  BY <1>1, <1>3, <1>4 DEF GenerationSound

(***************************************************************************)
(* Between calls exactly the resident weights and, after a successful run, *)
(* the KV cache are charged, and a KV cache is charged the size of its     *)
(* buffers throughout (with_temp, release_layer, clear_layer_cache,        *)
(* clear_kv_cache and the roll-back of load_internal, on every error path). *)
(***************************************************************************)
THEOREM ChargesMatchStateTheorem == Spec => []ChargesMatchState
<1>1. Init => Inv
  BY InitEngine
<1>2. Inv /\ [Next]_vars => Inv'
  BY InvStep
<1>3. Inv => ChargesMatchState
  BY InvCharges
<1>4. QED
  BY <1>1, <1>2, <1>3, PTL DEF Spec

(***************************************************************************)
(* Every pass attends to the committed history of its position and has     *)
(* room for it; the internal errors of the forward pass and of the growth of *)
(* the KV cache are unreachable; and a generation that is not ended by the *)
(* end-of-sequence token delivers max_tokens tokens (generate_impl,        *)
(* forward_single_streaming, grow_to_with_budget).                         *)
(***************************************************************************)
THEOREM GenerationSoundTheorem == Spec => []GenerationSound
<1>1. Init => Inv
  BY InitEngine
<1>2. Inv /\ [Next]_vars => Inv'
  BY InvStep
<1>3. Inv => GenerationSound
  BY InvGeneration
<1>4. QED
  BY <1>1, <1>2, <1>3, PTL DEF Spec

-----------------------------------------------------------------------------
(* Memory runs out only once the cache is empty.                           *)

\* No shortage that an eviction could have helped.
NoNeedlessShortage == pc' = "failing" /\ outcome' = "Short" => cache'.lru = <<>>

(* A shortage after room was made.                                         *)
LEMMA RoomyShortage ==
    ASSUME Inv, NEW bytes \in Nat, NEW n \in Own, n # KvCharge, n \notin Held
    PROVE  \/ RoomyCache(bytes).lru = <<>>
           \/ /\ CanAllocate(RoomyBudget(bytes), bytes)
              /\ bytes # 0 => AllocateResult(RoomyBudget(bytes), n, bytes) = "Ok"
<1> DEFINE c == RoomyCache(bytes)
           b == RoomyBudget(bytes)
<1>1. Kept(c, b, budget) /\ (CanAllocate(b, bytes) \/ c.lru = <<>>)
  BY RoomyStep DEF Inv, Charges
<1> HIDE DEF b, c
<1>2. Consistent(c, b) /\ b.allocations[n] = 0
  BY <1>1 DEF Kept, Inv, Charges, Charged
<1>3. CanAllocate(b, bytes) /\ bytes # 0 => AllocateResult(b, n, bytes) = "Ok"
  BY <1>2, AllocateFits
<1>4. QED
  BY <1>1, <1>3 DEF b, c

(* A passing charge for which room was made.                               *)
LEMMA PassingShortage ==
    ASSUME Inv, pc \notin Loading, NEW bytes \in Nat
    PROVE  RoomyCache(bytes).lru = <<>> \/ PassingFits(RoomyBudget(bytes), bytes)
<1>1. Scratch \in Own /\ Scratch # KvCharge /\ Scratch \notin Held
  BY EngineNames, NamesApart DEF Temps, Held, Inv, Types
<1>2. QED
  BY <1>1, RoomyShortage DEF PassingFits

(* No step runs short while the cache holds a layer.                       *)
LEMMA ShortageStep ==
    ASSUME Inv, [Next]_vars, MatvecNeedsOneRow, ShortOnlyWhenCacheEmpty
    PROVE  ShortOnlyWhenCacheEmpty'
<1>1. CASE LoadWeight \/ \E capacity \in 0..MaxU64 : FinishLoad(capacity)
  <2>1. pc' # "failing"
    BY <1>1 DEF LoadWeight, FinishLoad, LoadFails, WeightLoaded
  <2>2. QED
    BY <2>1 DEF ShortOnlyWhenCacheEmpty
<1>2. CASE \E prompt \in 0..MaxPrompt, max \in 0..MaxNew : Generate(prompt, max)
  BY <1>2 DEF ShortOnlyWhenCacheEmpty, Generate
<1>3. CASE NewKv \/ OpenHidden \/ OpenLogits
  <2>1. pc \in Opening
    BY <1>3 DEF NewKv, OpenHidden, OpenLogits, Opening
  <2>2. cache.lru = <<>>
    BY <2>1 DEF Inv, Caching
  <2>3. cache' = cache
    BY <1>3 DEF NewKv, OpenHidden, OpenLogits, Opens, Fails, Continues, Store
  <2>4. QED
    BY <2>2, <2>3 DEF ShortOnlyWhenCacheEmpty
<1>4. CASE BeginForward
  <2>1. pc = "forward" /\ kv.seq_len = run.pos /\ run.pos \in Nat /\ Forward \notin run.scopes
    BY <1>4, NamesApart DEF BeginForward, Inv, Types, OpenScopes, Positions, Loop
  <2>2. ForwardCharge \in Nat /\ ForwardCharge # 0
    <3>1. ScoreBytes * (run.pos + 1) \in Nat
      <4>1. run.pos + 1 \in Nat
        BY <2>1
      <4>2. QED
        BY <4>1, Sizing
    <3>2. QED
      BY <3>1, Sizing DEF ForwardCharge
  <2>3. Forward \in Own /\ Forward # KvCharge /\ Forward \notin Held
    BY <2>1, EngineNames, NamesApart DEF Temps, Held, Loading
  <2>4. \/ RoomyCache(ForwardCharge).lru = <<>>
        \/ AllocateResult(RoomyBudget(ForwardCharge), Forward, ForwardCharge) = "Ok"
    BY <2>2, <2>3, RoomyShortage
  <2>5. cache' = RoomyCache(ForwardCharge)
    BY <1>4, <2>1 DEF BeginForward, Opens, Fails, Continues, Store
  <2>6. AllocateResult(RoomyBudget(ForwardCharge), Forward, ForwardCharge) = "Ok" => pc' = "embed"
    BY <1>4, <2>1 DEF BeginForward, Opens, Continues
  <2>7. QED
    BY <2>4, <2>5, <2>6 DEF ShortOnlyWhenCacheEmpty
<1>5. CASE Embed
  <2>1. pc \notin Loading /\ EmbeddingBytes \in Nat
    BY <1>5, Sizing DEF Embed, Loading, EmbeddingBytes
  <2>2. \/ RoomyCache(EmbeddingBytes).lru = <<>>
        \/ PassingFits(RoomyBudget(EmbeddingBytes), EmbeddingBytes)
    BY <2>1, PassingShortage
  <2>3. cache' = RoomyCache(EmbeddingBytes)
    BY <1>5 DEF Embed, Fails, Continues, Store
  <2>4. PassingFits(RoomyBudget(EmbeddingBytes), EmbeddingBytes) =>
           pc' = "layer" \/ outcome' = "Fault"
    BY <1>5 DEF Embed, Fails, Continues
  <2>5. QED
    BY <2>2, <2>3, <2>4 DEF ShortOnlyWhenCacheEmpty
<1>6. CASE LoadMissing
  <2> DEFINE peak == LayerPeak[run.layer]
  <2>1. CanAllocate(RoomyBudget(peak), peak) \/ RoomyCache(peak).lru = <<>>
    BY RoomyStep DEF Inv, Charges
  <2>2. cache' = RoomyCache(peak)
    BY <1>6 DEF LoadMissing, Fails, Continues, Store
  <2>3. CanAllocate(RoomyBudget(peak), peak) => pc' = "execute" \/ outcome' = "Fault"
    BY <1>6 DEF LoadMissing, Fails, Continues
  <2>4. QED
    BY <2>1, <2>2, <2>3 DEF ShortOnlyWhenCacheEmpty
<1>7. CASE ExecuteCached \/ ExecuteLoaded \/ InsertLayer
  <2>1. outcome' = "Fault" \/ pc' # "failing"
    BY <1>7 DEF ExecuteCached, ExecuteLoaded, InsertLayer, NextLayer, Fails, Continues
  <2>2. QED
    BY <2>1 DEF ShortOnlyWhenCacheEmpty
<1>8. CASE Commit
  <2>1. kv.seq_len = run.pos /\ run.pos < kv.capacity /\ run.pos \in Nat /\ kv.capacity \in Nat
    BY <1>8 DEF Commit, Inv, Types, Positions, Pass
  <2>2. ~(kv.seq_len >= kv.capacity)
    BY <2>1
  <2>3. outcome' = "Fault" \/ pc' # "failing"
    BY <1>8, <2>2 DEF Commit, AfterForward
  <2>4. QED
    BY <2>3 DEF ShortOnlyWhenCacheEmpty
<1>9. CASE ComputeLogits
  <2>1. pc = "logits" /\ pc \notin Loading /\ OneRowBytes \in Nat
    BY <1>9, Sizing DEF ComputeLogits, Loading, OneRowBytes
  <2> DEFINE b == RoomyBudget(OneRowBytes)
  <2>2. RoomyCache(OneRowBytes).lru = <<>> \/ PassingFits(b, OneRowBytes)
    BY <2>1, PassingShortage
  <2>3. PassingFits(b, OneRowBytes) => PassingFits(b, MatvecBytes(b))
    BY <2>1 DEF MatvecNeedsOneRow
  <2>4. cache' = RoomyCache(OneRowBytes)
    BY <1>9 DEF ComputeLogits, Fails, Continues, Store
  <2>5. PassingFits(b, MatvecBytes(b)) => pc' = "sample" \/ outcome' = "Fault"
    BY <1>9 DEF ComputeLogits, Fails, Continues
  <2>6. QED
    BY <2>2, <2>3, <2>4, <2>5 DEF ShortOnlyWhenCacheEmpty
<1>10. CASE Sample
  <2>1. pc \notin Loading /\ SamplerBytes \in Nat
    BY <1>10, Sizing DEF Sample, Loading
  <2>2. \/ RoomyCache(SamplerBytes).lru = <<>>
        \/ PassingFits(RoomyBudget(SamplerBytes), SamplerBytes)
    BY <2>1, PassingShortage
  <2>3. cache' = RoomyCache(SamplerBytes)
    BY <1>10 DEF Sample, Fails, Continues, Store
  <2>4. PassingFits(RoomyBudget(SamplerBytes), SamplerBytes) =>
           pc' # "failing" \/ outcome' = "Fault"
    BY <1>10 DEF Sample, Fails, Continues
  <2>5. QED
    BY <2>2, <2>3, <2>4 DEF ShortOnlyWhenCacheEmpty
<1>11. CASE Emit
  <2>1. outcome' = "Callback" \/ pc' # "failing"
    BY <1>11 DEF Emit, Fails
  <2>2. QED
    BY <2>1 DEF ShortOnlyWhenCacheEmpty
<1>12. CASE Grow
  <2> DEFINE bytes == KvBytes * GrowthTarget
             b == RoomyBudget(bytes)
  <2>1. pc = "grow" /\ pc \notin Loading
    BY <1>12 DEF Grow, Loading
  <2>2. bytes \in Nat /\ bytes # 0 /\ ~(GrowthTarget <= kv.capacity)
    <3>1. GrowthTarget \in Nat /\ GrowthTarget > kv.capacity /\ kv.capacity \in Nat
      BY <2>1, GrowthGains DEF Inv, Types
    <3>2. KvBytes \in Nat /\ KvBytes >= 1 /\ GrowthTarget >= 1
      BY <3>1, Sizing
    <3>3. bytes \in Nat /\ bytes >= 1
      BY <3>1, <3>2
    <3>4. QED
      BY <3>1, <3>3
  <2>3. KvGrowth \in Own /\ KvGrowth # KvCharge /\ KvGrowth \notin Held
    BY <2>1, EngineNames, NamesApart DEF Temps, Held, Inv, Types
  <2>4. cache' = RoomyCache(bytes)
    BY <1>12 DEF Grow, Fails, Continues, Store
  <2>5. AllocateResult(b, KvGrowth, bytes) = "Ok" => pc' # "failing" \/ outcome' # "Short"
    BY <1>12, <2>2 DEF Grow, Fails, Continues
  <2> HIDE DEF bytes
  <2>6. RoomyCache(bytes).lru = <<>> \/ AllocateResult(b, KvGrowth, bytes) = "Ok"
    BY <2>2, <2>3, RoomyShortage
  <2>7. QED
    BY <2>4, <2>5, <2>6 DEF ShortOnlyWhenCacheEmpty
<1>13. CASE Finish \/ CleanUp \/ Drop
  <2>1. outcome' = "Callback" \/ pc' # "failing"
    BY <1>13 DEF Finish, CleanUp, Drop
  <2>2. QED
    BY <2>1 DEF ShortOnlyWhenCacheEmpty
<1>14. CASE UNCHANGED vars
  BY <1>14 DEF ShortOnlyWhenCacheEmpty, vars
<1>15. QED
  BY <1>1, <1>2, <1>3, <1>4, <1>5, <1>6, <1>7, <1>8, <1>9, <1>10, <1>11, <1>12, <1>13, <1>14
     DEF Next, GenerationStep

(* A streamed projection of stored f32 rows sizes its workspace within     *)
(* what is available.                                                      *)
LEMMA DirectRows ==
    ASSUME Inv, DirectF32
    PROVE  MatvecNeedsOneRow
<1> DEFINE c == RoomyCache(OneRowBytes)
           b == RoomyBudget(OneRowBytes)
           target == Larger(Smaller(Available(b) \div Share, MaxStreamChunk), OutputRow)
           rows == Larger(1, target \div OutputRow)
<1>1. SUFFICES ASSUME PassingFits(b, OneRowBytes), ~OutputResident
               PROVE  PassingFits(b, MatvecBytes(b))
  BY DEF MatvecNeedsOneRow, PassingFits, MatvecBytes, OneRowBytes
<1>2. OneRowBytes = OutputRow /\ OutputRow \in Nat /\ OutputRow >= 1
  BY <1>1, Sizing DEF OneRowBytes
<1>3. MatvecBytes(b) = rows * OutputRow
  <2>1. rows \in Nat
    <3>1. Kept(c, b, budget)
      BY RoomyStep DEF Inv, Charges
    <3> HIDE DEF c, b
    <3>2. Available(b) \in Nat
      BY <3>1, Ledger DEF Kept
    <3>3. Available(b) \div Share \in Nat
      BY <3>2, Sizing, DivisionParts
    <3>4. target \in Nat
      BY <1>2, <3>3, Sizing DEF Larger, Smaller
    <3> HIDE DEF target
    <3>5. target \div OutputRow \in Nat
      BY <1>2, <3>4, DivisionParts
    <3>6. QED
      BY <3>5 DEF Larger
  <2>2. MatvecBytes(b) = rows * OutputRow + 0
    BY <1>1 DEF MatvecBytes
  <2> HIDE DEF rows
  <2>3. rows * OutputRow \in Nat
    BY <1>2, <2>1
  <2> DEFINE bytes == rows * OutputRow
  <2> HIDE DEF bytes
  <2>4. bytes + 0 = bytes
    BY <2>3 DEF bytes
  <2>5. QED
    BY <2>2, <2>4 DEF bytes
<1>4. Kept(c, b, budget)
  BY RoomyStep DEF Inv, Charges
<1>5. budget.allocations[Scratch] = 0 /\ Scratch \in Own
  BY FreeNames, EngineNames DEF Inv, Temps
<1>6. CanAllocate(b, OneRowBytes)
  BY <1>1, <1>2 DEF PassingFits, AllocateResult
<1> HIDE DEF b, c
<1>7. Consistent(c, b) /\ b.allocations[Scratch] = 0 /\ Available(b) \in Nat
  BY <1>4, <1>5, Ledger DEF Kept
<1>8. OutputRow <= Available(b)
  BY <1>2, <1>6 DEF CanAllocate
<1>9. Available(b) \div Share \in Nat /\ Available(b) \div Share <= Available(b)
  <2> DEFINE q == Available(b) \div Share
             r == Available(b) % Share
  <2>1. Share \in Nat /\ Share >= 1
    BY Sizing
  <2>2. q \in Nat /\ r \in 0..(Share - 1) /\ Available(b) = Share * q + r
    BY <1>7, <2>1, DivisionParts
  <2> HIDE DEF q, r
  <2>3. Share * q >= q /\ Share * q \in Nat
    BY <2>1, <2>2
  <2>4. q <= Available(b)
    BY <1>7, <2>1, <2>2, <2>3
  <2>5. QED
    BY <2>2, <2>4 DEF q
<1>10. target \in Nat /\ target >= OutputRow /\ target <= Available(b)
  BY <1>2, <1>7, <1>8, <1>9, Sizing DEF Larger, Smaller
<1> HIDE DEF target
<1>11. rows * OutputRow \in Nat /\ rows * OutputRow <= Available(b)
  <2> DEFINE q == target \div OutputRow
             r == target % OutputRow
  <2>1. q \in Nat /\ r \in 0..(OutputRow - 1) /\ target = OutputRow * q + r
    BY <1>2, <1>10, DivisionParts
  <2>2. rows = Larger(1, q)
    OBVIOUS
  <2> HIDE DEF q, r, rows
  <2>3. OutputRow * q = q * OutputRow /\ q * OutputRow \in Nat
    BY <1>2, <2>1
  <2>4. q * OutputRow <= target
    BY <1>2, <1>10, <2>1, <2>3
  <2>5. CASE q >= 1
    <3>1. rows = q
      BY <2>1, <2>2, <2>5 DEF Larger
    <3>2. QED
      BY <1>7, <1>10, <2>3, <2>4, <3>1
  <2>6. CASE ~(q >= 1)
    <3>1. rows = 1
      BY <2>1, <2>2, <2>6 DEF Larger
    <3>2. QED
      BY <1>2, <1>8, <3>1
  <2>7. QED
    BY <2>5, <2>6
<1>12. CanAllocate(b, MatvecBytes(b)) /\ MatvecBytes(b) \in Nat
  BY <1>3, <1>11 DEF CanAllocate
<1>13. QED
  BY <1>7, <1>12, PassingRoom

(***************************************************************************)
(* A generation runs short of memory only once no cached layer is left to  *)
(* evict (ensure_layer_cache_headroom before every charge), provided that a *)
(* streamed output projection which has room for one row has room for the  *)
(* workspace it sizes.  The code does not give that for every model: the   *)
(* decoded row comes on top of a workspace sized by what is available (run *)
(* engine_streamed_output).                                                *)
(***************************************************************************)
THEOREM ShortOnlyTheorem ==
    Spec /\ []MatvecNeedsOneRow => []ShortOnlyWhenCacheEmpty
<1>1. Init => Inv /\ ShortOnlyWhenCacheEmpty
  <2>1. Init => ShortOnlyWhenCacheEmpty
    BY DEF Init, ShortOnlyWhenCacheEmpty
  <2>2. QED
    BY <2>1, InitEngine
<1>2. Inv /\ [Next]_vars => Inv'
  BY InvStep
<1>3. Inv /\ ShortOnlyWhenCacheEmpty /\ MatvecNeedsOneRow /\ [Next]_vars => ShortOnlyWhenCacheEmpty'
  BY ShortageStep
<1>4. QED
  BY <1>1, <1>2, <1>3, PTL DEF Spec

(***************************************************************************)
(* An output matrix stored as f32 rows needs no decoded row, and then the  *)
(* proviso holds: every shortage is a shortage with an empty cache         *)
(* (streamed_matvec_into).                                                 *)
(***************************************************************************)
THEOREM DirectShortOnlyTheorem ==
    ASSUME DirectF32
    PROVE  Spec => []ShortOnlyWhenCacheEmpty
<1>1. Init => Inv
  BY InitEngine
<1>2. Inv /\ [Next]_vars => Inv'
  BY InvStep
<1>3. Inv => MatvecNeedsOneRow
  BY DirectRows
<1>4. Spec => []MatvecNeedsOneRow
  BY <1>1, <1>2, <1>3, PTL DEF Spec
<1>5. QED
  BY <1>4, ShortOnlyTheorem, PTL
=============================================================================
