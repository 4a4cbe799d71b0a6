-------------------------- MODULE LayerCacheProofs --------------------------
(***************************************************************************)
(* The layer cache, for every set of layers and names, every capacity and  *)
(* counter width, and every order of calls with other clients between; and *)
(* the data source that layers are read from, for every directory, every   *)
(* number of readers and every order of their reads and failures.  And the *)
(* terminal session that shows the program's screens, for every screen and *)
(* every size of the window.  And the simulation of a prefetch, for every  *)
(* scenario.                                                               *)
(***************************************************************************)
EXTENDS LayerCache, GgufSource, Terminal, PredictionSim, LayerStoreProofs

\* What insert_loaded has checked before its eviction loop stays true in it:
\* the layer is charged as many bytes as it asks for, and has no entry.
Insertable ==
    call.op = "insert" =>
       /\ call.layer \in Layers
       /\ ~Cached(cache, call.layer)
       /\ call.bytes # 0
       /\ ChargedUnder(budget, Active(call.layer)) # {}
       /\ SumOf(budget, ChargedUnder(budget, Active(call.layer))) = call.bytes

Calls ==
    /\ call.op \in Ops
    /\ call # Idle => call.bytes \in 0..MaxU64
    /\ result \in {"None", "Cached", "Skipped", "Hit", "Miss", "Ok"}

CacheInv == Consistent(cache, budget) /\ Calls /\ Insertable

-----------------------------------------------------------------------------
(* The invariant.                                                          *)

(* What the invariant says of the properties the runs check.               *)
LEMMA InvImplies ==
    ASSUME CacheInv
    PROVE  CacheConsistent
<1>1. TypeOK
  BY DEF CacheInv, Consistent, LedgerOK, Calls, Insertable, TypeOK
<1>2. CacheAccounting
  <2>1. EntryBytes(cache, Layers) = Cardinality(BytesOf(Sizes(cache), Layers))
    <3>1. BytesOf(Sizes(cache), Layers) = UNION {{i} \X (1..cache.entries[i].bytes) : i \in Layers}
      BY DEF BytesOf, Sizes
    <3>2. QED
      BY <3>1 DEF EntryBytes
  <2>2. QED
    BY <2>1 DEF CacheInv, Consistent, CacheAccounting
<1>3. ChargesMatchEntries
  BY DEF CacheInv, Consistent, EntriesCharged, ChargesMatchEntries
<1>4. LruMatchesEntries
  BY DEF CacheInv, Consistent, LruExact, LruMatchesEntries
<1>5. AccountingNeverFails
  BY DEF CacheInv, Calls, AccountingNeverFails
<1>6. QED
  BY <1>1, <1>2, <1>3, <1>4, <1>5 DEF CacheConsistent

(* A new cache holds nothing and is charged nothing.                       *)
LEMMA InitInv ==
    ASSUME Init
    PROVE  CacheInv
<1>0. PICK total \in 1..MaxU64 :
        budget = NewLedger(total) /\ \E capacity \in 0..total : cache = NewCache(capacity)
  BY DEF Init
<1>1. PICK capacity \in 0..total : budget = NewLedger(total) /\ cache = NewCache(capacity)
  BY <1>0
<1>2. LedgerOK(budget)
  BY <1>1, NewLedgerOK
<1>3. \A i \in Layers : ChargedUnder(budget, Resident(i)) = {}
  BY <1>1 DEF NewLedger, ChargedUnder, Charged
<1>4. capacity \in 0..MaxU64
  BY MaxU64Assumption
<1>5. Consistent(cache, budget)
  BY <1>1, <1>2, <1>3, <1>4, NewCacheConsistent
<1>6. Calls /\ Insertable
  BY DEF Init, Calls, Insertable, Idle, Ops
<1>7. QED
  BY <1>5, <1>6 DEF CacheInv

(* One eviction, whichever loop makes it.                                  *)
LEMMA EvictLruStep ==
    ASSUME CacheInv, cache.lru # <<>>, call # Idle, EvictLru
    PROVE  /\ CacheInv'
           /\ \A n \in Names : (\A i \in Layers : n[1] # Resident(i)) =>
                 budget'.allocations[n] = budget.allocations[n]
           /\ UNCHANGED <<call, result>>
           /\ cache' = EntryReleased(cache, Victim(cache), Popped(cache))
           /\ budget' = EntryChargesReleased(cache, budget, Victim(cache))
           /\ Victim(cache) \in Layers /\ Cached(cache, Victim(cache))
<1> DEFINE v == Victim(cache)
<1>1. Consistent(cache, budget)
  BY DEF CacheInv
<1>2. /\ v \in Layers /\ Cached(cache, v)
      /\ ReleaseEntryResult(cache, budget, v) = "Ok"
      /\ Consistent(EntryReleased(cache, v, Popped(cache)), EntryChargesReleased(cache, budget, v))
      /\ \A n \in Names : n[1] # Resident(v) =>
            EntryChargesReleased(cache, budget, v).allocations[n] = budget.allocations[n]
  BY <1>1, OldestGone
<1>3. /\ cache' = EntryReleased(cache, v, Popped(cache))
      /\ budget' = EntryChargesReleased(cache, budget, v)
      /\ call' = call /\ result' = result
  BY <1>2 DEF EvictLru, v
<1>4. Consistent(cache', budget')
  BY <1>2, <1>3
<1>5. \A n \in Names : (\A i \in Layers : n[1] # Resident(i)) =>
        budget'.allocations[n] = budget.allocations[n]
  BY <1>2, <1>3
<1>6. Calls'
  BY <1>3 DEF CacheInv, Calls
<1>7. ASSUME call.op = "insert"
       PROVE  /\ ~Cached(cache', call.layer)
              /\ ChargedUnder(budget', Active(call.layer)) = ChargedUnder(budget, Active(call.layer))
              /\ SumOf(budget', ChargedUnder(budget', Active(call.layer))) =
                   SumOf(budget, ChargedUnder(budget, Active(call.layer)))
  <2> DEFINE l == call.layer
             S == ChargedUnder(budget, Active(l))
  <2>1. l \in Layers /\ ~Cached(cache, l)
    BY <1>7 DEF CacheInv, Insertable
  <2>2. l # v /\ \A j \in Layers : Active(l) # Resident(j)
    BY <1>2, <2>1, PrefixesDiffer
  <2>3. \A n \in Names : n[1] = Active(l) => budget'.allocations[n] = budget.allocations[n]
    BY <1>5, <2>2
  <2>4. ChargedUnder(budget', Active(l)) = S
    BY <2>3 DEF ChargedUnder, Charged
  <2>5. \A n \in S : budget'.allocations[n] = budget.allocations[n]
    BY <2>3 DEF ChargedUnder
  <2> HIDE DEF S, l
  <2>6. SumOf(budget', S) = SumOf(budget, S)
    BY <2>5 DEF SumOf
  <2>7. cache \in Caches
    BY <1>1 DEF Consistent
  <2>8. cache'.entries[l] = cache.entries[l]
    BY <1>2, <1>3, <2>1, <2>2, <2>7 DEF EntryReleased, Caches
  <2>9. QED
    BY <2>1, <2>4, <2>6, <2>8 DEF l, S, Cached
<1>8. Insertable'
  BY <1>3, <1>7 DEF CacheInv, Insertable
<1>9. QED
  BY <1>2, <1>3, <1>4, <1>5, <1>6, <1>8 DEF CacheInv, v

(* A client that charges or releases names that are not the cache's.       *)
LEMMA ClientStep ==
    ASSUME CacheInv, call = Idle, UNCHANGED <<cache, call, result>>, LedgerOK(budget'),
           \A n \in Names : (\E i \in Layers : n[1] = Resident(i)) =>
                               budget'.allocations[n] = budget.allocations[n]
    PROVE  CacheInv'
<1>1. Consistent(cache, budget')
  BY LedgerElsewhere DEF CacheInv
<1>2. cache' = cache /\ call' = call /\ result' = result
  OBVIOUS
<1>3. Consistent(cache', budget')
  BY <1>1, <1>2
<1>4. Calls'
  BY <1>2 DEF CacheInv, Calls
<1>5. Insertable'
  BY <1>2 DEF Insertable, Idle
<1>6. QED
  BY <1>3, <1>4, <1>5 DEF CacheInv

(* A call that returns without an error, or begins without inserting, with *)
(* a cache and a ledger that agree.                                        *)
LEMMA AgreeingStep ==
    ASSUME CacheInv, Consistent(cache', budget'),
           result' \in {"None", "Cached", "Skipped", "Hit", "Miss", "Ok"},
           \/ call' = Idle
           \/ call'.op \in {"headroom", "clear"} /\ call'.bytes \in 0..MaxU64
    PROVE  CacheInv'
<1>1. Calls'
  BY DEF Calls, Ops, Idle
<1>2. Insertable'
  BY DEF Insertable, Idle
<1>3. QED
  BY <1>1, <1>2 DEF CacheInv

(* insert_loaded up to its eviction loop.                                  *)
LEMMA InsertLoadedStep ==
    ASSUME CacheInv, NEW i \in Layers, NEW bytes \in 0..MaxU64, InsertLoaded(i, bytes)
    PROVE  CacheInv'
<1> DEFINE loaded == ChargedUnder(budget, Active(i))
<1>1. Consistent(cache, budget) /\ loaded # {}
  BY DEF CacheInv, InsertLoaded
<1>2. CASE InsertSkipped(i, bytes) /\ Return("Skipped") /\ UNCHANGED <<budget, cache>>
  <2>1. Consistent(cache', budget') /\ call' = Idle /\ result' = "Skipped"
    BY <1>1, <1>2 DEF Return
  <2>2. QED
    BY <2>1, AgreeingStep
<1>3. CASE /\ ~InsertSkipped(i, bytes) /\ ~Cached(cache, i)
           /\ call' = Inserting(i, bytes, cache, budget)
           /\ UNCHANGED <<budget, cache, result>>
  <2>1. call'.op = "insert" /\ call'.layer = i /\ call'.bytes = bytes
    BY <1>3 DEF Inserting
  <2>2. cache' = cache /\ budget' = budget /\ result' = result
    BY <1>3
  <2>3. bytes # 0 /\ SumOf(budget, loaded) = bytes
    BY <1>3 DEF InsertSkipped
  <2>4. Consistent(cache', budget')
    BY <1>1, <2>2
  <2>5. Calls'
    BY <2>1, <2>2 DEF CacheInv, Calls, Ops, Idle
  <2>6. Insertable'
    BY <1>1, <1>3, <2>1, <2>2, <2>3 DEF Insertable
  <2>7. QED
    BY <2>4, <2>5, <2>6 DEF CacheInv
<1>4. CASE ~InsertSkipped(i, bytes) /\ Cached(cache, i)
  <2> DEFINE c2 == EntryReleased(cache, i, Without(cache.lru, i))
             b2 == EntryChargesReleased(cache, budget, i)
             held == {j \in Layers : Cached(cache, j)}
  <2>1. LruExact(Layers, cache.lru, held) /\ i \in held
    BY <1>1, <1>4 DEF Consistent
  <2>2. LruExact(Layers, Without(cache.lru, i), {j \in Layers : Cached(cache, j)} \ {i})
    <3> HIDE DEF held
    <3>1. LruExact(Layers, Without(cache.lru, i), held \ {i})
      BY <2>1, TakeOut
    <3>2. QED
      BY <3>1 DEF held
  <2>3. /\ ReleaseEntryResult(cache, budget, i) = "Ok"
        /\ Consistent(c2, b2) /\ ~Cached(c2, i)
        /\ \A n \in Names : n[1] # Resident(i) => b2.allocations[n] = budget.allocations[n]
    BY <1>1, <1>4, <2>2, EntryGone
  <2>4. /\ cache' = c2 /\ budget' = b2
        /\ call' = Inserting(i, bytes, cache', budget')
        /\ result' = result
    BY <1>4, <2>3 DEF InsertLoaded
  <2>5. call'.op = "insert" /\ call'.layer = i /\ call'.bytes = bytes
    BY <2>4 DEF Inserting
  <2>6. bytes # 0 /\ SumOf(budget, loaded) = bytes
    BY <1>4 DEF InsertSkipped
  <2>7. \A n \in Names : n[1] = Active(i) => budget'.allocations[n] = budget.allocations[n]
    BY <2>3, <2>4, PrefixesDiffer
  <2>8. ChargedUnder(budget', Active(i)) = loaded
    BY <2>7 DEF ChargedUnder, Charged
  <2>9. \A n \in loaded : budget'.allocations[n] = budget.allocations[n]
    BY <2>7 DEF ChargedUnder
  <2> HIDE DEF c2, b2, held, loaded
  <2>10. SumOf(budget', loaded) = bytes
    BY <2>6, <2>9 DEF SumOf
  <2>11. Calls'
    BY <2>4, <2>5 DEF CacheInv, Calls, Ops, Idle
  <2>12. Insertable'
    BY <1>1, <2>3, <2>4, <2>5, <2>6, <2>8, <2>10 DEF Insertable
  <2>13. QED
    BY <2>3, <2>4, <2>11, <2>12 DEF CacheInv
<1>5. QED
  BY <1>2, <1>3, <1>4 DEF InsertLoaded

(* The end of insert_loaded, whose rename always succeeds.                 *)
LEMMA InsertConvertsStep ==
    ASSUME CacheInv, InsertConverts
    PROVE  /\ CacheInv'
           /\ \A n \in Names :
                 \/ \E i \in Layers : n[1] = Resident(i)
                 \/ n[1] = Active(call.layer)
                 \/ budget'.allocations[n] = budget.allocations[n]
<1> DEFINE i == call.layer
           bytes == call.bytes
           c2 == EntryInserted(cache, budget, i, bytes)
           b2 == PrefixRenamed(budget, Active(i), Resident(i))
<1>1. /\ i \in Layers /\ ~Cached(cache, i) /\ bytes # 0
      /\ ChargedUnder(budget, Active(i)) # {}
      /\ SumOf(budget, ChargedUnder(budget, Active(i))) = bytes
      /\ cache.used + bytes <= cache.capacity
      /\ Consistent(cache, budget)
  BY DEF CacheInv, Insertable, InsertConverts
<1>2. bytes \in 0..MaxU64
  BY DEF CacheInv, Calls, InsertConverts, Idle
<1> HIDE DEF i, bytes
<1>3. /\ RenamePrefixResult(budget, Active(i), Resident(i)) = "Ok"
      /\ Consistent(c2, b2)
      /\ \A n \in Names : n[1] # Resident(i) /\ n[1] # Active(i) =>
            b2.allocations[n] = budget.allocations[n]
  BY <1>1, <1>2, Converted
<1>4. budget' = b2 /\ cache' = c2 /\ call' = Idle /\ result' = "Cached"
  BY <1>3 DEF InsertConverts, Return, i, bytes
<1>5. CacheInv'
  BY <1>3, <1>4, AgreeingStep
<1>6. QED
  BY <1>1, <1>3, <1>4, <1>5 DEF i

LEMMA NextInv ==
    ASSUME CacheInv, [Next]_vars
    PROVE  CacheInv'
<1>1. Consistent(cache, budget) /\ LedgerOK(budget)
  BY DEF CacheInv, Consistent
<1>2. \A i, j \in Layers : Active(i) # Resident(j)
  BY PrefixesDiffer
<1>3. ASSUME NEW i \in Layers, NEW rest \in Rests, NEW bytes \in 1..MaxU64,
             LoadTensor(i, rest, bytes)
      PROVE  CacheInv'
  <2> DEFINE n == <<Active(i), rest>>
  <2>1. n \in Names /\ n[1] = Active(i) /\ bytes \in 0..MaxU64
    BY MaxU64Assumption, PrefixesDiffer DEF Names
  <2> HIDE DEF n
  <2>2. AllocateResult(budget, n, bytes) = "Ok" /\ budget' = Allocated(budget, n, bytes)
    BY <1>3 DEF LoadTensor, n
  <2>3. LedgerOK(budget')
    BY <1>1, <2>1, <2>2, AllocatedOK
  <2>4. budget'.allocations = [budget.allocations EXCEPT ![n] = bytes]
    BY <2>2 DEF Allocated, Recharged
  <2>5. \A m \in Names : m # n => budget'.allocations[m] = budget.allocations[m]
    BY <1>1, <2>4, LedgerParts
  <2>6. \A m \in Names : (\E j \in Layers : m[1] = Resident(j)) =>
                            budget'.allocations[m] = budget.allocations[m]
    BY <1>2, <2>1, <2>5
  <2>7. QED
    BY <1>3, <2>3, <2>6, ClientStep DEF LoadTensor
<1>4. ASSUME NEW i \in Layers, ReleaseLayer(i)
      PROVE  CacheInv'
  <2> DEFINE S == ChargedUnder(budget, Active(i))
  <2>1. S \in SUBSET Names /\ \A n \in S : n[1] = Active(i)
    BY DEF ChargedUnder
  <2>2. budget' = ReleasedAll(budget, S)
    BY <1>4 DEF ReleaseLayer, LayerReleased
  <2> HIDE DEF S
  <2>3. budget' = [total |-> budget.total,
             allocations |-> [n \in Names |-> IF n \in S THEN 0 ELSE budget.allocations[n]],
             used |-> budget.used - Cardinality(BytesOf(budget.allocations, S)),
             peak_used |-> budget.peak_used]
    BY <2>2, Zenon DEF ReleasedAll, SumOf, BytesOf
  <2>4. LedgerOK(budget')
    BY <1>1, <2>1, <2>3, DischargeSet
  <2>5. \A m \in Names : (\E j \in Layers : m[1] = Resident(j)) =>
                            budget'.allocations[m] = budget.allocations[m]
    BY <1>2, <2>1, <2>3
  <2>6. QED
    BY <1>4, <2>4, <2>5, ClientStep DEF ReleaseLayer
<1>5. ASSUME NEW bytes \in 1..MaxU64, ChargeOther(bytes)
      PROVE  CacheInv'
  <2>1. Other \in Names /\ bytes \in 0..MaxU64 /\ \A j \in Layers : Other[1] # Resident(j)
    BY OtherAssumption, MaxU64Assumption
  <2>2. AllocateResult(budget, Other, bytes) = "Ok" /\ budget' = Allocated(budget, Other, bytes)
    BY <1>5 DEF ChargeOther
  <2>3. LedgerOK(budget')
    BY <1>1, <2>1, <2>2, AllocatedOK
  <2>4. budget'.allocations = [budget.allocations EXCEPT ![Other] = bytes]
    BY <2>2 DEF Allocated, Recharged
  <2>5. \A m \in Names : (\E j \in Layers : m[1] = Resident(j)) =>
                            budget'.allocations[m] = budget.allocations[m]
    BY <1>1, <2>1, <2>4, LedgerParts
  <2>6. QED
    BY <1>5, <2>3, <2>5, ClientStep DEF ChargeOther
<1>6. ASSUME ReleaseOther
      PROVE  CacheInv'
  <2>1. Other \in Names /\ \A j \in Layers : Other[1] # Resident(j)
    BY OtherAssumption
  <2>2. budget' = Released(budget, Other)
    BY <1>6 DEF ReleaseOther
  <2>3. LedgerOK(budget')
    BY <1>1, <2>1, <2>2, ReleasedOK
  <2>4. budget'.allocations = [budget.allocations EXCEPT ![Other] = 0]
    BY <2>2 DEF Released
  <2>5. \A m \in Names : (\E j \in Layers : m[1] = Resident(j)) =>
                            budget'.allocations[m] = budget.allocations[m]
    BY <1>1, <2>1, <2>4, LedgerParts
  <2>6. QED
    BY <1>6, <2>3, <2>5, ClientStep DEF ReleaseOther
<1>7. ASSUME NEW i \in Layers, WithEntry(i)
      PROVE  CacheInv'
  <2>1. /\ call' = Idle /\ result' \in {"Hit", "Miss"} /\ budget' = budget
        /\ cache' = IF Cached(cache, i) THEN Touched(cache, i) ELSE cache
    BY <1>7 DEF WithEntry
  <2>2. Consistent(cache', budget')
    BY <1>1, <2>1, TouchedConsistent
  <2>3. QED
    BY <2>1, <2>2, AgreeingStep
<1>8. ASSUME NEW i \in Layers, NEW bytes \in 0..MaxU64, InsertLoaded(i, bytes)
      PROVE  CacheInv'
  BY <1>8, InsertLoadedStep
<1>9. ASSUME NEW bytes \in 0..MaxU64, EvictUntilAvailable(bytes)
      PROVE  CacheInv'
  <2>1. /\ call'.op = "headroom" /\ call'.bytes = bytes /\ result' = result
        /\ cache' = cache /\ budget' = budget
    BY <1>9 DEF EvictUntilAvailable, Called
  <2>2. Consistent(cache', budget') /\ result' \in {"None", "Cached", "Skipped", "Hit", "Miss", "Ok"}
    BY <1>1, <2>1 DEF CacheInv, Calls
  <2>3. QED
    BY <2>1, <2>2, AgreeingStep
<1>10. ASSUME Clear
       PROVE  CacheInv'
  <2>1. /\ call'.op = "clear" /\ call'.bytes = 0 /\ result' = result
        /\ cache' = cache /\ budget' = budget
    BY <1>10 DEF Clear, Called
  <2>2. Consistent(cache', budget') /\ result' \in {"None", "Cached", "Skipped", "Hit", "Miss", "Ok"}
    BY <1>1, <2>1 DEF CacheInv, Calls
  <2>3. QED
    BY <2>1, <2>2, AgreeingStep, MaxU64Assumption
<1>11. ASSUME NEW r \in {"Skipped", "Ok"}, Return(r), UNCHANGED <<budget, cache>>
       PROVE  CacheInv'
  <2>1. Consistent(cache', budget') /\ call' = Idle /\ result' = r
    BY <1>1, <1>11 DEF Return
  <2>2. QED
    BY <2>1, AgreeingStep
<1>12. ASSUME cache.lru # <<>>, call.op \in {"insert", "headroom", "clear"}, EvictLru
       PROVE  CacheInv'
  <2>1. call # Idle
    BY <1>12 DEF Idle
  <2>2. QED
    BY <1>12, <2>1, EvictLruStep
<1>13. ASSUME InsertEvicts
       PROVE  CacheInv'
  BY <1>11, <1>12, <1>13 DEF InsertEvicts
<1>14. ASSUME InsertConverts
       PROVE  CacheInv'
  BY <1>14, InsertConvertsStep
<1>15. ASSUME HeadroomEvicts
       PROVE  CacheInv'
  BY <1>11, <1>12, <1>15 DEF HeadroomEvicts
<1>16. ASSUME ClearEvicts
       PROVE  CacheInv'
  BY <1>11, <1>12, <1>16 DEF ClearEvicts
<1>17. ASSUME UNCHANGED vars
       PROVE  CacheInv'
  <2>1. cache' = cache /\ budget' = budget /\ call' = call /\ result' = result
    BY <1>17 DEF vars
  <2>2. Consistent(cache', budget') /\ Calls' /\ Insertable'
    BY <1>1, <2>1 DEF CacheInv, Calls, Insertable
  <2>3. QED
    BY <2>2 DEF CacheInv
<1>18. QED
  BY <1>3, <1>4, <1>5, <1>6, <1>7, <1>8, <1>9, <1>10, <1>13, <1>14, <1>15, <1>16, <1>17
     DEF Next, CacheStep
-----------------------------------------------------------------------------
(***************************************************************************)
(* The cache, its recency list and the ledger agree at every step of every *)
(* call, inside the eviction loops too, and no accounting error that       *)
(* insert_loaded, evict_until_available or clear can return is reachable.  *)
(***************************************************************************)
THEOREM CacheConsistentTheorem == Spec => []CacheConsistent
<1>1. Init => CacheInv
  BY InitInv
<1>2. CacheInv /\ [Next]_vars => CacheInv'
  BY NextInv
<1>3. CacheInv => CacheConsistent
  BY InvImplies
<1>4. QED
  BY <1>1, <1>2, <1>3, PTL DEF Spec
-----------------------------------------------------------------------------
(***************************************************************************)
(* The evictions of a call.  What a call in progress has reached is the    *)
(* closed form of the evictions it has made, none of which was one too     *)
(* many.                                                                   *)
(***************************************************************************)
Enough(cl, k) ==
    \/ cl.op = "headroom" /\ CanAllocate(BudgetEvicted(cl.cache, cl.budget, k), cl.bytes)
    \/ cl.op = "insert" /\ CacheEvicted(cl.cache, k).used + cl.bytes <= cl.cache.capacity

Evictions(cl, c) == Len(cl.cache.lru) - Len(c.lru)

Reached(cl, c, b) ==
    /\ Consistent(cl.cache, cl.budget)
    /\ Evictions(cl, c) \in 0..Len(cl.cache.lru)
    /\ c = CacheEvicted(cl.cache, Evictions(cl, c))
    /\ b = BudgetEvicted(cl.cache, cl.budget, Evictions(cl, c))
    /\ \A j \in 0..(Evictions(cl, c) - 1) : ~Enough(cl, j)

Progress ==
    call # Idle => call.op \in {"insert", "headroom", "clear"} /\ Reached(call, cache, budget)

(* A call that has not evicted anything yet.                               *)
LEMMA ReachedFirst ==
    ASSUME NEW cl, Consistent(cl.cache, cl.budget)
    PROVE  Reached(cl, cl.cache, cl.budget)
<1>1. Len(cl.cache.lru) \in Nat
  <2>1. cl.cache.lru \in Seq(Layers)
    BY DEF Consistent, LruExact
  <2>2. QED
    BY <2>1
<1>2. Evictions(cl, cl.cache) = 0
  BY <1>1 DEF Evictions
<1>3. CacheEvicted(cl.cache, 0) = cl.cache /\ BudgetEvicted(cl.cache, cl.budget, 0) = cl.budget
  BY NoEvictions
<1>4. QED
  BY <1>1, <1>2, <1>3 DEF Reached

(* The facts about a call in progress that the loops use.                  *)
LEMMA ReachedParts ==
    ASSUME NEW cl, NEW c, NEW b, Reached(cl, c, b)
    PROVE  /\ Evictions(cl, c) \in Nat /\ Len(cl.cache.lru) \in Nat
           /\ Evictions(cl, c) <= Len(cl.cache.lru)
           /\ Len(c.lru) = Len(cl.cache.lru) - Evictions(cl, c)
           /\ c.capacity = cl.cache.capacity
           /\ c.lru = <<>> => Evictions(cl, c) = Len(cl.cache.lru)
           /\ c.lru # <<>> => Evictions(cl, c) < Len(cl.cache.lru)
           /\ c.lru \in Seq(Layers)
<1> DEFINE n == Len(cl.cache.lru)
           k == Evictions(cl, c)
<1>1. cl.cache.lru \in Seq(Layers) /\ k \in 0..n /\ c = CacheEvicted(cl.cache, k)
  BY DEF Reached, Consistent, LruExact
<1>2. n \in Nat
  BY <1>1
<1>3. c.lru = SubSeq(cl.cache.lru, 1, n - k) /\ c.capacity = cl.cache.capacity
  BY <1>1 DEF CacheEvicted, Newest
<1> HIDE DEF k
<1>4. n - k \in 0..n
  BY <1>1, <1>2
<1>5. c.lru \in Seq(Layers) /\ Len(c.lru) = n - k
  BY <1>1, <1>3, <1>4, FirstElements
<1>6. c.lru = <<>> <=> n - k = 0
  BY <1>5
<1> HIDE DEF n
<1>7. k \in Nat /\ k <= n /\ (n - k = 0 => k = n) /\ (n - k # 0 => k < n)
  BY <1>1, <1>2
<1>8. c.lru = <<>> => k = n
  BY <1>6, <1>7
<1>9. c.lru # <<>> => k < n
  BY <1>6, <1>7
<1>10. QED
  BY <1>2, <1>3, <1>5, <1>7, <1>8, <1>9, Zenon DEF k, n

(* An eviction that was needed.                                            *)
LEMMA ReachedNext ==
    ASSUME CacheInv, Progress, cache.lru # <<>>, call # Idle, EvictLru,
           ~Enough(call, Evictions(call, cache))
    PROVE  Progress'
<1> DEFINE c == call.cache
           b == call.budget
           n == Len(c.lru)
           k == Evictions(call, cache)
<1>1. /\ call' = call
      /\ cache' = EntryReleased(cache, Victim(cache), Popped(cache))
      /\ budget' = EntryChargesReleased(cache, budget, Victim(cache))
  BY EvictLruStep
<1>2. /\ Consistent(c, b) /\ cache = CacheEvicted(c, k) /\ budget = BudgetEvicted(c, b, k)
      /\ \A j \in 0..(k - 1) : ~Enough(call, j)
      /\ call.op \in {"insert", "headroom", "clear"}
      /\ Reached(call, cache, budget)
  BY DEF Progress, Reached
<1>3. k \in Nat /\ n \in Nat /\ k < n
  BY <1>2, ReachedParts
<1> HIDE DEF k, c, b, n
<1>4. cache' = CacheEvicted(c, k + 1) /\ budget' = BudgetEvicted(c, b, k + 1)
  <2>1. k < Len(c.lru)
    BY <1>3 DEF n
  <2>2. /\ EntryReleased(cache, Victim(cache), Popped(cache)) = CacheEvicted(c, k + 1)
        /\ EntryChargesReleased(cache, budget, Victim(cache)) = BudgetEvicted(c, b, k + 1)
    BY <1>2, <1>3, <2>1, OneMoreEviction
  <2>3. QED
    BY <1>1, <2>2
<1>5. cache'.lru = SubSeq(c.lru, 1, n - (k + 1))
  BY <1>4 DEF CacheEvicted, Newest, n
<1>6. n - (k + 1) \in 0..n /\ n - (n - (k + 1)) = k + 1 /\ k + 1 \in 0..n
  BY <1>3
<1>7. c.lru \in Seq(Layers)
  BY <1>2 DEF Consistent, LruExact
<1>8. Len(cache'.lru) = n - (k + 1)
  BY <1>5, <1>6, <1>7, FirstElements DEF n
<1>9. Evictions(call, cache') = k + 1
  BY <1>6, <1>8 DEF Evictions, c, n
<1>10. \A j \in 0..((k + 1) - 1) : ~Enough(call, j)
  <2>1. \A j \in 0..((k + 1) - 1) : j = k \/ j \in 0..(k - 1)
    BY <1>3
  <2>2. ~Enough(call, k)
    BY DEF k
  <2>3. QED
    BY <1>2, <2>1, <2>2
<1>11. Reached(call, cache', budget')
  BY <1>2, <1>4, <1>6, <1>9, <1>10 DEF Reached, c, b, n
<1>12. QED
  BY <1>1, <1>2, <1>11 DEF Progress

(* A call that returns after as many evictions as it needed.               *)
LEMMA ReturnsExact ==
    ASSUME Progress, call # Idle,
           cache.lru = <<>> \/ Enough(call, Evictions(call, cache))
    PROVE  ReturnsWithFewestEvictions
<1> DEFINE c == call.cache
           k == Evictions(call, cache)
<1>1. /\ cache = CacheEvicted(c, k) /\ budget = BudgetEvicted(c, call.budget, k)
      /\ \A j \in 0..(k - 1) : ~Enough(call, j)
      /\ call.op \in {"insert", "headroom", "clear"}
      /\ Reached(call, cache, budget)
  BY DEF Progress, Reached
<1>2. /\ k \in Nat /\ Len(c.lru) \in Nat /\ k <= Len(c.lru)
      /\ k = Len(c.lru) \/ Enough(call, k)
  BY <1>1, ReachedParts
<1> HIDE DEF k
<1>3. CASE call.op = "headroom"
  <2>1. k = Len(c.lru) \/ CanAllocate(BudgetEvicted(c, call.budget, k), call.bytes)
    BY <1>2, <1>3 DEF Enough
  <2>2. \A j \in 0..(k - 1) : ~CanAllocate(BudgetEvicted(c, call.budget, j), call.bytes)
    BY <1>1, <1>3 DEF Enough
  <2> HIDE DEF c
  <2>3. EvictionsFor(c, call.budget, call.bytes) = k
    BY <1>2, <2>1, <2>2, FewestFor
  <2>4. QED
    BY <1>1, <1>3, <2>3 DEF ReturnsWithFewestEvictions, c
<1>4. CASE call.op = "insert"
  <2>1. k = Len(c.lru) \/ CacheEvicted(c, k).used + call.bytes <= c.capacity
    BY <1>2, <1>4 DEF Enough
  <2>2. \A j \in 0..(k - 1) : ~(CacheEvicted(c, j).used + call.bytes <= c.capacity)
    BY <1>1, <1>4 DEF Enough
  <2> HIDE DEF c
  <2>3. EvictionsToFit(c, call.bytes) = k
    BY <1>2, <2>1, <2>2, FewestToFit
  <2>4. QED
    BY <1>1, <1>4, <2>3 DEF ReturnsWithFewestEvictions, c
<1>5. CASE call.op = "clear"
  <2>1. k = Len(c.lru)
    BY <1>2, <1>5 DEF Enough
  <2>2. QED
    BY <1>1, <1>5, <2>1 DEF ReturnsWithFewestEvictions
<1>6. QED
  BY <1>1, <1>3, <1>4, <1>5

EvictionStep == Progress' /\ ReturnsWithFewestEvictions /\ KeepsOtherCharges

(* One turn of a loop that evicts.                                         *)
LEMMA EvictLruExact ==
    ASSUME CacheInv, Progress, cache.lru # <<>>, call # Idle, EvictLru,
           ~Enough(call, Evictions(call, cache))
    PROVE  EvictionStep
<1>1. Progress'
  BY ReachedNext
<1>2. /\ call' = call
      /\ \A n \in Names : (\A i \in Layers : n[1] # Resident(i)) =>
            budget'.allocations[n] = budget.allocations[n]
  BY EvictLruStep
<1>3. ReturnsWithFewestEvictions /\ KeepsOtherCharges
  BY <1>2 DEF ReturnsWithFewestEvictions, KeepsOtherCharges
<1>4. QED
  BY <1>1, <1>3 DEF EvictionStep

(* A call that returns with nothing left to change.                        *)
LEMMA ReturnExact ==
    ASSUME Progress, call # Idle, NEW r, Return(r), UNCHANGED <<budget, cache>>,
           cache.lru = <<>> \/ Enough(call, Evictions(call, cache))
    PROVE  EvictionStep
<1>1. Progress'
  BY DEF Progress, Return
<1>2. ReturnsWithFewestEvictions
  BY ReturnsExact
<1>3. QED
  BY <1>1, <1>2 DEF EvictionStep, KeepsOtherCharges

(* Between calls there is nothing to show, and a call begins where it is.  *)
LEMMA IdleExact ==
    ASSUME call = Idle, CacheInv', Consistent(cache', budget'),
           \/ call' = Idle
           \/ /\ call'.op \in {"insert", "headroom", "clear"}
              /\ call'.cache = cache' /\ call'.budget = budget'
    PROVE  EvictionStep
<1>1. Progress'
  BY ReachedFirst DEF Progress
<1>2. QED
  BY <1>1 DEF EvictionStep, ReturnsWithFewestEvictions, KeepsOtherCharges

LEMMA NextExact ==
    ASSUME CacheInv, Progress, [Next]_vars
    PROVE  EvictionStep
<1>1. CacheInv' /\ Consistent(cache', budget')
  <2>1. CacheInv'
    BY NextInv
  <2>2. QED
    BY <2>1 DEF CacheInv
<1>2. ASSUME call = Idle, UNCHANGED call PROVE EvictionStep
  BY <1>1, <1>2, IdleExact
<1>3. ASSUME NEW i \in Layers, NEW bytes \in 0..MaxU64, InsertLoaded(i, bytes)
      PROVE  EvictionStep
  <2>1. call = Idle
    BY <1>3 DEF InsertLoaded
  <2>2. \/ call' = Idle
        \/ call' = Inserting(i, bytes, cache', budget')
    <3>1. CASE Return("Skipped") \/ Return("Err")
      BY <3>1 DEF Return
    <3>2. CASE call' = Inserting(i, bytes, cache, budget) /\ UNCHANGED <<budget, cache, result>>
      <4>1. cache' = cache /\ budget' = budget
        BY <3>2
      <4>2. QED
        BY <3>2, <4>1
    <3>3. CASE call' = Inserting(i, bytes, cache', budget')
      BY <3>3
    <3>4. QED
      BY <1>3, <3>1, <3>2, <3>3 DEF InsertLoaded
  <2>3. call' = Idle \/ /\ call'.op = "insert"
                        /\ call'.cache = cache' /\ call'.budget = budget'
    BY <2>2 DEF Inserting
  <2>4. QED
    BY <1>1, <2>1, <2>3, IdleExact
<1>4. ASSUME NEW op \in {"headroom", "clear"}, NEW bytes, call = Idle,
             call' = Called(op, bytes), UNCHANGED <<budget, cache, result>>
      PROVE  EvictionStep
  <2>1. call'.op = op /\ call'.cache = cache' /\ call'.budget = budget'
    BY <1>4 DEF Called
  <2>2. QED
    BY <1>1, <1>4, <2>1, IdleExact
<1>5. ASSUME call # Idle PROVE Reached(call, cache, budget)
  BY <1>5 DEF Progress
<1>6. ASSUME InsertEvicts PROVE EvictionStep
  <2>1. call # Idle /\ call.op = "insert" /\ cache.used + call.bytes > cache.capacity
    BY <1>6 DEF InsertEvicts, Idle
  <2>2. ~Enough(call, Evictions(call, cache))
    <3>1. /\ cache = CacheEvicted(call.cache, Evictions(call, cache))
          /\ cache.capacity = call.cache.capacity
      BY <1>5, <2>1, ReachedParts DEF Reached
    <3>2. cache.used \in Nat /\ cache.capacity \in Nat /\ call.bytes \in Nat
      <4>1. cache.used \in Nat /\ cache.capacity \in 0..MaxU64
        BY CacheParts DEF CacheInv
      <4>2. call.bytes \in 0..MaxU64
        BY <2>1 DEF CacheInv, Calls
      <4>3. QED
        BY <4>1, <4>2, MaxU64Assumption
    <3> DEFINE k == Evictions(call, cache)
    <3> HIDE DEF k
    <3>3. CacheEvicted(call.cache, k).used = cache.used
      BY <3>1 DEF k
    <3>4. ~(CacheEvicted(call.cache, k).used + call.bytes <= call.cache.capacity)
      BY <2>1, <3>1, <3>2, <3>3
    <3>5. QED
      BY <2>1, <3>4 DEF Enough, k
  <2>3. CASE cache.lru = <<>>
    BY <1>6, <2>1, <2>3, ReturnExact DEF InsertEvicts
  <2>4. CASE cache.lru # <<>>
    BY <1>6, <2>1, <2>2, <2>4, EvictLruExact DEF InsertEvicts
  <2>5. QED
    BY <2>3, <2>4
<1>7. ASSUME InsertConverts PROVE EvictionStep
  <2>1. call # Idle /\ call.op = "insert" /\ cache.used + call.bytes <= cache.capacity
    BY <1>7 DEF InsertConverts, Idle
  <2>2. Enough(call, Evictions(call, cache))
    <3>1. /\ cache = CacheEvicted(call.cache, Evictions(call, cache))
          /\ cache.capacity = call.cache.capacity
      BY <1>5, <2>1, ReachedParts DEF Reached
    <3> DEFINE k == Evictions(call, cache)
    <3> HIDE DEF k
    <3>2. CacheEvicted(call.cache, k).used = cache.used
      BY <3>1 DEF k
    <3>3. QED
      BY <2>1, <3>1, <3>2 DEF Enough, k
  <2>3. ReturnsWithFewestEvictions
    BY <2>1, <2>2, ReturnsExact
  <2>4. call' = Idle
    BY <1>7 DEF InsertConverts, Return
  <2>5. KeepsOtherCharges
    <3>1. \A n \in Names :
             \/ \E i \in Layers : n[1] = Resident(i)
             \/ n[1] = Active(call.layer)
             \/ budget'.allocations[n] = budget.allocations[n]
      BY <1>7, InsertConvertsStep
    <3>2. QED
      BY <2>1, <3>1 DEF KeepsOtherCharges
  <2>6. QED
    BY <2>3, <2>4, <2>5 DEF EvictionStep, Progress
<1>8. ASSUME HeadroomEvicts PROVE EvictionStep
  <2>1. call # Idle /\ call.op = "headroom"
    BY <1>8 DEF HeadroomEvicts, Idle
  <2>2. Enough(call, Evictions(call, cache)) <=> CanAllocate(budget, call.bytes)
    <3>1. budget = BudgetEvicted(call.cache, call.budget, Evictions(call, cache))
      BY <1>5, <2>1 DEF Reached
    <3> DEFINE k == Evictions(call, cache)
    <3> HIDE DEF k
    <3>2. BudgetEvicted(call.cache, call.budget, k) = budget
      BY <3>1 DEF k
    <3>3. QED
      BY <2>1, <3>2 DEF Enough, k
  <2>3. CASE CanAllocate(budget, call.bytes) \/ cache.lru = <<>>
    BY <1>8, <2>1, <2>2, <2>3, ReturnExact DEF HeadroomEvicts
  <2>4. CASE ~(CanAllocate(budget, call.bytes) \/ cache.lru = <<>>)
    BY <1>8, <2>1, <2>2, <2>4, EvictLruExact DEF HeadroomEvicts
  <2>5. QED
    BY <2>3, <2>4
<1>9. ASSUME ClearEvicts PROVE EvictionStep
  <2>1. call # Idle /\ call.op = "clear"
    BY <1>9 DEF ClearEvicts, Idle
  <2>2. ~Enough(call, Evictions(call, cache))
    BY <2>1 DEF Enough
  <2>3. CASE cache.lru = <<>>
    BY <1>9, <2>1, <2>3, ReturnExact DEF ClearEvicts
  <2>4. CASE cache.lru # <<>>
    BY <1>9, <2>1, <2>2, <2>4, EvictLruExact DEF ClearEvicts
  <2>5. QED
    BY <2>3, <2>4
<1>10. ASSUME UNCHANGED vars PROVE EvictionStep
  <2>1. cache' = cache /\ budget' = budget /\ call' = call
    BY <1>10 DEF vars
  <2>2. Progress'
    BY <2>1 DEF Progress
  <2>3. QED
    BY <2>1, <2>2 DEF EvictionStep, ReturnsWithFewestEvictions, KeepsOtherCharges
<1>11. ASSUME NEW i \in Layers, NEW rest \in Rests, NEW bytes \in 1..MaxU64, LoadTensor(i, rest, bytes)
       PROVE  EvictionStep
  BY <1>2, <1>11 DEF LoadTensor
<1>12. ASSUME NEW bytes \in 1..MaxU64, ChargeOther(bytes) PROVE EvictionStep
  BY <1>2, <1>12 DEF ChargeOther
<1>13. ASSUME ReleaseOther PROVE EvictionStep
  BY <1>2, <1>13 DEF ReleaseOther
<1>14. ASSUME NEW i \in Layers, ReleaseLayer(i) PROVE EvictionStep
  BY <1>2, <1>14 DEF ReleaseLayer
<1>15. ASSUME NEW i \in Layers, WithEntry(i) PROVE EvictionStep
  BY <1>2, <1>15 DEF WithEntry
<1>16. ASSUME NEW bytes \in 0..MaxU64, EvictUntilAvailable(bytes) PROVE EvictionStep
  BY <1>4, <1>16 DEF EvictUntilAvailable
<1>17. ASSUME Clear PROVE EvictionStep
  BY <1>4, <1>17 DEF Clear
<1>18. QED
  BY <1>3, <1>6, <1>7, <1>8, <1>9, <1>10, <1>11, <1>12, <1>13, <1>14, <1>15, <1>16, <1>17
     DEF Next, CacheStep

(***************************************************************************)
(* Every call of the cache that evicts returns with the fewest evictions,  *)
(* oldest first, that satisfy it, and touches no charge of anyone else on  *)
(* the way (evict_until_available, insert_loaded, clear).                  *)
(***************************************************************************)
THEOREM EvictionsExactTheorem == Spec => EvictionsExact
<1> DEFINE Inv == CacheInv /\ Progress
<1>1. Init => Inv
  <2>1. Init => Progress
    BY DEF Init, Progress
  <2>2. QED
    BY <2>1, InitInv
<1>2. Inv /\ [Next]_vars => Inv' /\ ReturnsWithFewestEvictions /\ KeepsOtherCharges
  BY NextInv, NextExact DEF EvictionStep
<1>3. Spec => EvictsOnlyWhatIsNeeded
  <2>1. Inv /\ [Next]_vars => Inv' /\ [ReturnsWithFewestEvictions]_vars
    BY <1>2
  <2> HIDE DEF Inv
  <2>2. QED
    BY <1>1, <2>1, PTL DEF Spec, EvictsOnlyWhatIsNeeded
<1>4. Spec => OthersUntouched
  <2>1. Inv /\ [Next]_vars => Inv' /\ [KeepsOtherCharges]_vars
    BY <1>2
  <2> HIDE DEF Inv
  <2>2. QED
    BY <1>1, <2>1, PTL DEF Spec, OthersUntouched
<1>5. QED
  BY <1>3, <1>4 DEF EvictionsExact
-----------------------------------------------------------------------------
(* Parts one after the other.  Where part i starts is the sum of the       *)
(* lengths of those before it.                                             *)
StartOfPart(length, i) == SumOver(length, 1..(i - 1))

LEMMA PartsStart ==
    ASSUME NEW n \in Nat, NEW length, \A i \in 1..n : length[i] \in Nat
    PROVE  /\ StartOfPart(length, 1) = 0
           /\ \A i \in 1..(n + 1) : StartOfPart(length, i) \in Nat
           /\ \A i \in 1..n : StartOfPart(length, i + 1) = StartOfPart(length, i) + length[i]
           /\ \A i, j \in 1..n : i < j => StartOfPart(length, i) + length[i] <= StartOfPart(length, j)
<1>1. StartOfPart(length, 1) = 0
  <2>1. 1..(1 - 1) = {}
    OBVIOUS
  <2> QED BY <2>1, SumEmpty DEF StartOfPart
<1>2. ASSUME NEW i \in 1..(n + 1) PROVE StartOfPart(length, i) \in Nat
  <2>1. IsFiniteSet(1..(i - 1)) /\ \A k \in 1..(i - 1) : length[k] \in Nat
    <3>1. 1 \in Int /\ i - 1 \in Int /\ \A k \in 1..(i - 1) : k \in 1..n
      OBVIOUS
    <3> QED BY <3>1, FS_Interval
  <2> QED BY <2>1, SumNat DEF StartOfPart
<1>3. ASSUME NEW i \in 1..n PROVE StartOfPart(length, i + 1) = StartOfPart(length, i) + length[i]
  <2>1. i \in 1..i /\ (1..i) \ {i} = 1..(i - 1) /\ i + 1 - 1 = i
    OBVIOUS
  <2>2. IsFiniteSet(1..i) /\ \A k \in 1..i : length[k] \in Int
    <3>1. 1 \in Int /\ i \in Int /\ \A k \in 1..i : k \in 1..n
      OBVIOUS
    <3> QED BY <3>1, FS_Interval
  <2>3. SumOver(length, 1..i) = length[i] + SumOver(length, (1..i) \ {i})
    BY <2>1, <2>2, SumRemove
  <2>4. StartOfPart(length, i) \in Nat /\ length[i] \in Nat
    BY <1>2
  <2>5. SumOver(length, 1..i) = length[i] + StartOfPart(length, i)
    BY <2>1, <2>3 DEF StartOfPart
  <2>6. StartOfPart(length, i + 1) = SumOver(length, 1..i)
    BY <2>1 DEF StartOfPart
  <2> QED BY <2>4, <2>5, <2>6
<1>4. ASSUME NEW i \in 1..n, NEW j \in 1..n, i < j
      PROVE  StartOfPart(length, i) + length[i] <= StartOfPart(length, j)
  <2> DEFINE A == 1..i
             B == (i + 1)..(j - 1)
  <2>1. A \cup B = 1..(j - 1) /\ A \cap B = {} /\ \A k \in A \cup B : k \in 1..n
    BY <1>4
  <2>2. IsFiniteSet(A) /\ IsFiniteSet(B)
    <3>1. 1 \in Int /\ i \in Int /\ i + 1 \in Int /\ j - 1 \in Int
      OBVIOUS
    <3> QED BY <3>1, FS_Interval
  <2>3. StartOfPart(length, i) + length[i] = SumOver(length, A)
    <3>1. i + 1 - 1 = i
      OBVIOUS
    <3> QED BY <1>3, <3>1 DEF StartOfPart
  <2>4. StartOfPart(length, j) = SumOver(length, A \cup B)
    BY <2>1 DEF StartOfPart
  <2> HIDE DEF A, B
  <2>5. SumOver(length, A \cup B) = SumOver(length, A) + SumOver(length, B)
    BY <2>1, <2>2, SumJoin2
  <2>6. SumOver(length, A) \in Nat /\ SumOver(length, B) \in Nat
    BY <2>1, <2>2, SumNat
  <2> QED BY <2>3, <2>4, <2>5, <2>6
<1> QED BY <1>1, <1>2, <1>3, <1>4

\* Every position before the end lies in a part.
LEMMA PartAt ==
    ASSUME NEW n \in Nat, NEW length, \A i \in 1..n : length[i] \in Nat,
           NEW v \in Nat, v < StartOfPart(length, n + 1)
    PROVE  \E i \in 1..n : StartOfPart(length, i) <= v /\ v < StartOfPart(length, i) + length[i]
<1> DEFINE T == {i \in 1..(n + 1) : v < StartOfPart(length, i)}
<1>1. n + 1 \in T /\ T \subseteq Nat /\ T # {}
  OBVIOUS
<1> HIDE DEF T
<1>2. PICK m \in T : \A k \in T : m <= k
  BY <1>1, LeastNumber
<1>3. m \in 1..(n + 1) /\ v < StartOfPart(length, m)
  BY <1>2 DEF T
<1>4. m # 1
  BY <1>3, PartsStart
<1>5. m - 1 \in 1..n /\ m - 1 + 1 = m /\ m - 1 \notin T
  BY <1>2, <1>3, <1>4, <1>1
<1>6. StartOfPart(length, m) = StartOfPart(length, m - 1) + length[m - 1] /\ StartOfPart(length, m - 1) \in Nat
  <2>1. m - 1 \in 1..(n + 1)
    BY <1>5
  <2> QED BY <1>5, <2>1, PartsStart
<1>7. ~(v < StartOfPart(length, m - 1))
  BY <1>5 DEF T
<1> QED BY <1>3, <1>5, <1>6, <1>7

\* A position lies in one part only.
LEMMA PartOnce ==
    ASSUME NEW n \in Nat, NEW length, \A i \in 1..n : length[i] \in Nat,
           NEW i \in 1..n, NEW j \in 1..n, NEW v \in Int,
           StartOfPart(length, i) <= v, v < StartOfPart(length, i) + length[i],
           StartOfPart(length, j) <= v, v < StartOfPart(length, j) + length[j]
    PROVE  i = j
<1>1. /\ StartOfPart(length, i) \in Nat /\ StartOfPart(length, j) \in Nat
      /\ length[i] \in Nat /\ length[j] \in Nat
  <2>1. i \in 1..(n + 1) /\ j \in 1..(n + 1)
    OBVIOUS
  <2> QED BY <2>1, PartsStart
<1>2. /\ i < j => StartOfPart(length, i) + length[i] <= StartOfPart(length, j)
      /\ j < i => StartOfPart(length, j) + length[j] <= StartOfPart(length, i)
  BY PartsStart
<1> QED BY <1>1, <1>2

\* Two sequences, one after the other.
LEMMA TwoPlaces ==
    ASSUME NEW T, NEW s \in Seq(T), NEW t \in Seq(T), NEW l, l = Len(s), NEW m, m = Len(t)
    PROVE  /\ s \o t \in Seq(T) /\ l \in Nat /\ m \in Nat /\ Len(s \o t) = l + m
           /\ \A k \in 1..l : (s \o t)[k] = s[k]
           /\ \A k \in 1..m : (s \o t)[l + k] = t[k]
<1> DEFINE c == s \o t
<1>1. l \in Nat /\ m \in Nat
  BY LenProperties
<1>2. /\ c \in Seq(T) /\ Len(c) = Len(s) + Len(t)
      /\ \A i \in 1..(Len(s) + Len(t)) : c[i] = IF i <= Len(s) THEN s[i] ELSE t[i - Len(s)]
  BY ConcatProperties
<1> HIDE DEF c
<1>3. /\ Len(c) = l + m
      /\ \A i \in 1..(l + m) : c[i] = IF i <= l THEN s[i] ELSE t[i - l]
  BY <1>2
<1>4. ASSUME NEW k \in 1..l PROVE c[k] = s[k]
  <2>1. k \in 1..(l + m) /\ k <= l
    BY <1>1
  <2> QED BY <1>3, <2>1
<1>5. ASSUME NEW k \in 1..m PROVE c[l + k] = t[k]
  <2>1. l + k \in 1..(l + m) /\ ~(l + k <= l) /\ l + k - l = k
    BY <1>1
  <2>2. c[l + k] = t[l + k - l]
    BY <1>3, <2>1
  <2> QED BY <2>1, <2>2
<1>6. c \in Seq(T)
  BY <1>2
<1> QED BY <1>1, <1>3, <1>4, <1>5, <1>6, Zenon DEF c

\* A sequence made of parts: each element of a part has its place, and each
\* place is in a part.
MadeOf(all, n, parts, length) ==
    /\ Len(all) \in Nat /\ DOMAIN all = 1..Len(all)
    /\ \A i \in 1..n : length[i] \in Nat
    /\ \A i \in 1..n : \A k \in 1..length[i] :
          StartOfPart(length, i) + k \in 1..Len(all) /\ all[StartOfPart(length, i) + k] = parts[i][k]
    /\ \A p \in 1..Len(all) : \E i \in 1..n : \E k \in 1..length[i] : p = StartOfPart(length, i) + k

\* Sequences one after the other.
LEMMA FlattenMade ==
    ASSUME NEW T, NEW n \in Nat, NEW seqs \in [1..n -> Seq(T)],
           NEW length, \A i \in 1..n : length[i] = Len(seqs[i])
    PROVE  MadeOf(FlattenSeq(seqs), n, seqs, length)
<1> DEFINE Flat(h) == h = [i \in 1..n |-> IF i = 1 THEN seqs[i] ELSE h[i - 1] \o seqs[i]]
           step == [z \in Seq(T) \X (1..n) |-> z[1] \o seqs[z[2]]]
<1>0. \A i \in 1..n : length[i] \in Nat /\ seqs[i] \in Seq(T)
  <2> TAKE i \in 1..n
  <2>1. seqs[i] \in Seq(T)
    OBVIOUS
  <2> QED BY <2>1, LenProperties
<1>17. \A i \in 1..n : length[i] \in Nat
  BY <1>0, Zenon
<1>18. /\ StartOfPart(length, 1) = 0
       /\ \A i \in 1..(n + 1) : StartOfPart(length, i) \in Nat
       /\ \A i \in 1..n : StartOfPart(length, i + 1) = StartOfPart(length, i) + length[i]
  BY <1>17, PartsStart, Zenon
<1>1. step \in [Seq(T) \X (1..n) -> Seq(T)]
  <2> SUFFICES ASSUME NEW z \in Seq(T) \X (1..n) PROVE z[1] \o seqs[z[2]] \in Seq(T)
    OBVIOUS
  <2>1. z[1] \in Seq(T) /\ seqs[z[2]] \in Seq(T)
    OBVIOUS
  <2> QED BY <2>1, ConcatProperties
<1>2. \A a \in Seq(T), i \in 1..n : step[<<a, i>>] = a \o seqs[i]
  OBVIOUS
<1>3. <<>> \in Seq(T) /\ Len(<<>>) = 0
  BY EmptySeq
<1> HIDE DEF step
<1>4. PICK g \in [SUBSET (1..n) -> Seq(T)] : StepsBy(g, step, <<>>, n)
  BY <1>1, <1>3, FoldRuns
<1> DEFINE w == [i \in 1..n |-> g[1..i]]
<1>5. g[{}] = <<>> /\ \A i \in 1..n : g[1..i] = g[1..(i - 1)] \o seqs[i] /\ g[1..(i - 1)] \in Seq(T)
  <2>1. g[{}] = <<>>
    BY <1>4 DEF StepsBy
  <2>2. ASSUME NEW i \in 1..n PROVE g[1..i] = g[1..(i - 1)] \o seqs[i] /\ g[1..(i - 1)] \in Seq(T)
    <3>1. Max(1..i) = i /\ (1..i) \ {i} = 1..(i - 1) /\ 1..i # {} /\ 1..i \in SUBSET (1..n)
      BY GreatestOfFirst
    <3>2. g[1..i] = step[<<g[(1..i) \ {Max(1..i)}], Max(1..i)>>]
      BY <1>4, <3>1 DEF StepsBy
    <3>3. 1..(i - 1) \in SUBSET (1..n)
      OBVIOUS
    <3>4. g[1..(i - 1)] \in Seq(T)
      BY <1>4, <3>3
    <3> QED BY <1>2, <3>1, <3>2, <3>4
  <2> QED BY <2>1, <2>2
<1>6. Flat(w)
  <2>1. \A i \in 1..n : w[i] = IF i = 1 THEN seqs[i] ELSE w[i - 1] \o seqs[i]
    <3> TAKE i \in 1..n
    <3>1. CASE i = 1
      <4>1. g[1..(i - 1)] = <<>>
        <5>1. 1..(i - 1) = {}
          BY <3>1
        <5> QED BY <1>5, <5>1
      <4>2. w[i] = <<>> \o seqs[i]
        BY <1>5, <4>1
      <4> QED BY <1>0, <3>1, <4>2, ConcatEmptySeq
    <3>2. CASE i # 1
      <4>1. i - 1 \in 1..n
        BY <3>2
      <4> QED BY <1>5, <3>2, <4>1
    <3> QED BY <3>1, <3>2
  <2>2. w = [i \in 1..n |-> w[i]]
    OBVIOUS
  <2> HIDE DEF w
  <2> QED BY <2>1, <2>2
<1> DEFINE H == CHOOSE h : Flat(h)
<1>7. Flat(H)
  <2> HIDE DEF Flat
  <2> QED BY <1>6
<1>8. Len(seqs) = n
  <2>1. seqs \in Seq(Seq(T))
    OBVIOUS
  <2> QED BY <2>1, LenProperties
<1>9. n # 0 => FlattenSeq(seqs) = H[n]
  BY <1>8 DEF FlattenSeq
<1>10. n = 0 => FlattenSeq(seqs) = <<>>
  <2> SUFFICES ASSUME n = 0 PROVE FlattenSeq(seqs) = <<>>
    OBVIOUS
  <2>1. FlattenSeq(seqs) = seqs
    BY <1>8 DEF FlattenSeq
  <2>2. seqs \in Seq(Seq(T)) /\ <<>> \in Seq(Seq(T)) /\ Len(<<>>) = 0
    BY EmptySeq
  <2>3. seqs = <<>>
    BY <1>8, <2>2, SeqEqual
  <2> QED BY <2>1, <2>3
<1> HIDE DEF H
<1> DEFINE F == [i \in 0..n |-> IF i = 0 THEN <<>> ELSE H[i]]
<1>11. F[0] = <<>> /\ FlattenSeq(seqs) = F[n]
  BY <1>9, <1>10
<1>12. \A i \in 1..n : F[i] = F[i - 1] \o seqs[i]
  <2> TAKE i \in 1..n
  <2>1. F[i] = H[i] /\ H[i] = IF i = 1 THEN seqs[i] ELSE H[i - 1] \o seqs[i]
    <3>1. H[i] = IF i = 1 THEN seqs[i] ELSE H[i - 1] \o seqs[i]
      BY <1>7
    <3> HIDE DEF Flat
    <3>2. F[i] = H[i]
      OBVIOUS
    <3> QED BY <3>1, <3>2
  <2> HIDE DEF Flat
  <2>2. CASE i = 1
    <3>1. F[i - 1] = <<>> /\ <<>> \o seqs[i] = seqs[i]
      <4>1. i - 1 = 0
        BY <2>2
      <4> QED BY <1>0, <1>11, <4>1, ConcatEmptySeq
    <3> QED BY <2>1, <2>2, <3>1
  <2>3. CASE i # 1
    <3>1. F[i - 1] = H[i - 1]
      BY <2>3
    <3> QED BY <2>1, <2>3, <3>1
  <2> QED BY <2>2, <2>3
<1> HIDE DEF Flat, F, w
<1> DEFINE S(i) == StartOfPart(length, i)
           Right(m) == /\ F[m] \in Seq(T) /\ Len(F[m]) = S(m + 1)
                       /\ \A i \in 1..m : \A k \in 1..length[i] :
                             S(i) + k \in 1..Len(F[m]) /\ F[m][S(i) + k] = seqs[i][k]
           wrong == {m \in 0..n : ~Right(m)}
<1>13. Right(0)
  <2>1. S(0 + 1) = 0
    BY <1>18
  <2>2. 1..0 = {}
    OBVIOUS
  <2> QED BY <1>3, <1>11, <2>1, <2>2
<1>14. ASSUME NEW m \in 1..n, Right(m - 1) PROVE Right(m)
  <2> DEFINE a == F[m - 1]
  <2>1. S(m) \in Nat /\ S(m + 1) = S(m) + length[m] /\ length[m] \in Nat /\ m - 1 + 1 = m
    <3>1. m \in 1..(n + 1)
      OBVIOUS
    <3> QED BY <1>17, <1>18, <3>1
  <2>2. a \in Seq(T) /\ Len(a) = S(m) /\ seqs[m] \in Seq(T) /\ Len(seqs[m]) = length[m]
    BY <1>0, <1>14, <2>1
  <2>3. F[m] = a \o seqs[m]
    BY <1>12
  <2> HIDE DEF a, S
  <2>4. /\ F[m] \in Seq(T) /\ Len(F[m]) = S(m) + length[m]
        /\ \A k \in 1..S(m) : F[m][k] = a[k]
        /\ \A k \in 1..length[m] : F[m][S(m) + k] = seqs[m][k]
    <3> DEFINE t == seqs[m]
               e == length[m]
               b == S(m)
    <3>1. a \in Seq(T) /\ t \in Seq(T) /\ b = Len(a) /\ e = Len(t)
      BY <2>2
    <3> HIDE DEF t, e, b
    <3>2. /\ a \o t \in Seq(T) /\ Len(a \o t) = b + e
          /\ \A k \in 1..b : (a \o t)[k] = a[k]
          /\ \A k \in 1..e : (a \o t)[b + k] = t[k]
      BY <3>1, TwoPlaces
    <3>3. F[m] = a \o t
      BY <2>3 DEF t
    <3>4. /\ F[m] \in Seq(T) /\ Len(F[m]) = b + e
          /\ \A k \in 1..b : F[m][k] = a[k]
          /\ \A k \in 1..e : F[m][b + k] = t[k]
      BY <3>2, <3>3
    <3> QED BY <3>4 DEF t, e, b
  <2>5. ASSUME NEW i \in 1..m, NEW k \in 1..length[i]
        PROVE  S(i) + k \in 1..Len(F[m]) /\ F[m][S(i) + k] = seqs[i][k]
    <3>1. CASE i = m
      <4>1. S(m) + k \in 1..(S(m) + length[m])
        BY <2>1, <2>5, <3>1
      <4> QED BY <2>4, <2>5, <3>1, <4>1
    <3>2. CASE i # m
      <4>1. i \in 1..(m - 1)
        BY <3>2
      <4>2. S(i) + k \in 1..Len(a) /\ a[S(i) + k] = seqs[i][k]
        BY <1>14, <2>5, <4>1 DEF a
      <4>3. S(i) + k \in 1..(S(m) + length[m]) /\ S(i) + k \in 1..S(m)
        BY <2>1, <2>2, <4>2
      <4> QED BY <2>4, <4>2, <4>3
    <3> QED BY <3>1, <3>2
  <2> QED BY <2>1, <2>4, <2>5
<1>15. ASSUME wrong # {} PROVE FALSE
  <2>1. wrong \subseteq Nat
    OBVIOUS
  <2>2. \A m \in wrong : m \in 0..n /\ ~Right(m)
    OBVIOUS
  <2>3. \A m \in 0..n : m \notin wrong => Right(m)
    OBVIOUS
  <2> HIDE DEF wrong, Right
  <2>4. PICK m \in wrong : \A k \in wrong : m <= k
    BY <1>15, <2>1, LeastNumber
  <2>5. m \in 1..n /\ m - 1 \in 0..n
    <3>1. m # 0
      BY <1>13, <2>2, <2>4
    <3> QED BY <2>2, <2>4, <3>1
  <2>6. m - 1 \notin wrong
    BY <2>4, <2>5
  <2> QED BY <1>14, <2>2, <2>3, <2>4, <2>5, <2>6
<1>16. Right(n)
  <2>1. n \in 0..n /\ (n \notin wrong => Right(n))
    OBVIOUS
  <2> QED BY <1>15, <2>1
<1> HIDE DEF Right, S, wrong
<1> DEFINE all == FlattenSeq(seqs)
<1>19. /\ all \in Seq(T) /\ Len(all) = StartOfPart(length, n + 1)
       /\ \A i \in 1..n : \A k \in 1..length[i] :
             StartOfPart(length, i) + k \in 1..Len(all) /\ all[StartOfPart(length, i) + k] = seqs[i][k]
  BY <1>11, <1>16 DEF Right, S
<1> HIDE DEF all
<1>20. Len(all) \in Nat /\ DOMAIN all = 1..Len(all)
  BY <1>19, LenProperties
<1>21. ASSUME NEW p \in 1..Len(all) PROVE \E i \in 1..n : \E k \in 1..length[i] : p = StartOfPart(length, i) + k
  <2>1. p - 1 \in Nat /\ p - 1 < StartOfPart(length, n + 1)
    BY <1>19, <1>20
  <2>2. PICK i \in 1..n : StartOfPart(length, i) <= p - 1 /\ p - 1 < StartOfPart(length, i) + length[i]
    BY <1>17, <2>1, PartAt
  <2>3. StartOfPart(length, i) \in Nat /\ length[i] \in Nat
    <3>1. i \in 1..(n + 1)
      OBVIOUS
    <3> QED BY <1>17, <1>18, <3>1
  <2>4. p - StartOfPart(length, i) \in 1..length[i] /\ p = StartOfPart(length, i) + (p - StartOfPart(length, i))
    BY <2>2, <2>3
  <2> QED BY <2>4
<1>22. MadeOf(all, n, seqs, length)
  BY <1>17, <1>19, <1>20, <1>21 DEF MadeOf
<1> QED BY <1>22 DEF all
-----------------------------------------------------------------------------
(* Model files *)

LEMMA DivModNat ==
    ASSUME NEW a \in Nat, NEW d \in Nat \ {0}
    PROVE  a \div d \in Nat /\ a % d \in 0..(d - 1)
OBVIOUS

\* What the parser makes of a file of a directory.
TensorHeld(m, t) ==
    /\ t.elements \in Nat /\ t.bytes \in Nat \union {Absent} /\ t.at \in Nat /\ t.at >= m.data_start
    /\ t.byte0 = <<m.name, t.at>>
    /\ t = [name |-> t.name, elements |-> t.elements, f32 |-> t.f32, bytes |-> t.bytes, at |-> t.at,
            byte0 |-> t.byte0]

ModelHeld(m) ==
    /\ m.size \in Nat /\ m.data_start \in Nat
    /\ m.split_count \in Nat \union {Absent, NotANumber}
    /\ m.tensors \in Seq(Range(m.tensors)) /\ Len(m.tensors) \in Nat /\ DOMAIN m.tensors = 1..Len(m.tensors)
    /\ \A k \in 1..Len(m.tensors) : TensorHeld(m, m.tensors[k])

LEMMA ParsedHeld ==
    ASSUME NEW dir \in Directories, NEW name \in DOMAIN dir
    PROVE  LET m == ParseGguf(name, dir[name])
           IN  ModelHeld(m) /\ m.name = name /\ m.size = dir[name].size
<1> DEFINE file == dir[name]
           m == ParseGguf(name, file)
           ts == file.tensors
<1>1. /\ file.header_end \in Nat /\ file.alignment \in Nat /\ file.size \in Nat
      /\ file.split_count \in Nat \union {Absent, NotANumber}
      /\ ts \in Seq(Range(ts))
      /\ \A i \in DOMAIN ts : /\ ts[i].elements \in Nat /\ ts[i].block \in Nat
                              /\ ts[i].block_bytes \in Nat /\ ts[i].offset \in Nat
  BY DirectoriesAssumption
<1> HIDE DEF file
<1>2. /\ m.name = name /\ m.size = file.size /\ m.data_start = DataStart(file)
      /\ m.split_count = file.split_count
      /\ m.tensors = [i \in DOMAIN ts |->
                        [name |-> ts[i].name, elements |-> ts[i].elements, f32 |-> ts[i].f32,
                         bytes |-> ByteLength(ts[i]), at |-> DataStart(file) + ts[i].offset,
                         byte0 |-> <<name, DataStart(file) + ts[i].offset>>]]
  BY DEF ParseGguf
<1>3. DataStart(file) \in Nat
  <2>1. ASSUME NEW o \in Nat, NEW a \in Nat PROVE AlignOffset(o, a) \in Nat
    <3>1. CASE a = 0
      BY <3>1 DEF AlignOffset
    <3>2. CASE a # 0
      <4>1. o % a \in 0..(a - 1)
        BY <3>2, DivModNat
      <4>2. a - (o % a) \in Nat
        BY <4>1
      <4> DEFINE x == a - (o % a)
      <4> HIDE DEF x
      <4>3. x % a \in 0..(a - 1)
        BY <3>2, <4>2, DivModNat DEF x
      <4>4. AlignOffset(o, a) = o + (x % a)
        BY <3>2 DEF AlignOffset, x
      <4>5. x % a \in Nat
        BY <4>3
      <4> QED BY <4>4, <4>5
    <3> QED BY <3>1, <3>2
  <2> QED BY <1>1, <2>1 DEF DataStart
<1>4. Len(ts) \in Nat /\ DOMAIN ts = 1..Len(ts)
  BY <1>1, LenProperties
<1>5. ASSUME NEW t, t.elements \in Nat, t.block \in Nat, t.block_bytes \in Nat
      PROVE  ByteLength(t) \in Nat \union {Absent}
  <2>1. CASE t.block = 0
    BY <2>1 DEF ByteLength
  <2>2. CASE t.block # 0
    <3> DEFINE q == (t.elements + t.block - 1) \div t.block
    <3>1. t.elements + t.block - 1 \in Nat /\ t.block \in Nat \ {0}
      BY <1>5, <2>2
    <3>2. q \in Nat
      BY <3>1, DivModNat
    <3>3. ByteLength(t) = q * t.block_bytes
      BY <2>2 DEF ByteLength
    <3> HIDE DEF q
    <3>4. q * t.block_bytes \in Nat
      BY <1>5, <3>2
    <3> QED BY <3>3, <3>4
  <2> QED BY <2>1, <2>2
<1>6. Len(m.tensors) \in Nat /\ DOMAIN m.tensors = 1..Len(m.tensors) /\ m.tensors \in Seq(Range(m.tensors))
      /\ Len(m.tensors) = Len(ts)
  <2>1. DOMAIN m.tensors = 1..Len(ts)
    BY <1>2, <1>4
  <2>2. m.tensors \in [1..Len(ts) -> Range(m.tensors)]
    BY <1>2, <2>1 DEF Range
  <2>3. m.tensors \in Seq(Range(m.tensors))
    BY <1>4, <2>2
  <2> HIDE DEF m
  <2>4. Len(m.tensors) \in Nat /\ DOMAIN m.tensors = 1..Len(m.tensors)
    BY <2>3, LenProperties
  <2>5. Len(m.tensors) = Len(ts)
    BY <1>4, <2>1, <2>4
  <2> QED BY <2>3, <2>4, <2>5
<1>7. ASSUME NEW k \in 1..Len(m.tensors) PROVE TensorHeld(m, m.tensors[k])
  <2> DEFINE t == m.tensors[k]
  <2>1. k \in DOMAIN ts
    BY <1>4, <1>6
  <2>2. /\ t.elements = ts[k].elements /\ t.bytes = ByteLength(ts[k])
        /\ t.at = DataStart(file) + ts[k].offset /\ t.byte0 = <<name, DataStart(file) + ts[k].offset>>
    BY <1>2, <2>1
  <2>3. /\ ts[k].elements \in Nat /\ ts[k].offset \in Nat /\ ByteLength(ts[k]) \in Nat \union {Absent}
    BY <1>1, <1>5, <2>1
  <2>5. t = [name |-> t.name, elements |-> t.elements, f32 |-> t.f32, bytes |-> t.bytes, at |-> t.at,
             byte0 |-> t.byte0]
    <3> DEFINE o == ts[k]
    <3>1. t = [name |-> o.name, elements |-> o.elements, f32 |-> o.f32, bytes |-> ByteLength(o),
               at |-> DataStart(file) + o.offset, byte0 |-> <<name, DataStart(file) + o.offset>>]
      BY <1>2, <2>1
    <3> HIDE DEF t, m, ts, o
    <3> QED BY <3>1
  <2> HIDE DEF t, m, ts
  <2>4. t.at \in Nat /\ t.at >= m.data_start /\ t.byte0 = <<m.name, t.at>>
    BY <1>2, <1>3, <2>2, <2>3
  <2> QED BY <2>2, <2>3, <2>4, <2>5 DEF TensorHeld, t
<1> HIDE DEF m
<1>8. ModelHeld(m)
  BY <1>1, <1>2, <1>3, <1>6, <1>7 DEF ModelHeld
<1> QED BY <1>2, <1>8 DEF m, file

\* Shards that make one model of a directory, in their order.
ShardsHeld(dir, shards, n) ==
    /\ n \in Nat \ {0} /\ shards \in [1..n -> Parsed(dir, DOMAIN dir)]
    /\ n > 1 => \A i \in 1..n : \A k \in DOMAIN shards[i].tensors :
                   shards[i].tensors[k].bytes # Absent =>
                      shards[i].tensors[k].at + shards[i].tensors[k].bytes <= shards[i].size

LEMMA ModelOf ==
    ASSUME NEW dir \in Directories, NEW m \in Parsed(dir, DOMAIN dir)
    PROVE  ModelHeld(m) /\ m.name \in DOMAIN dir /\ m = ParseGguf(m.name, dir[m.name]) /\ m.size = dir[m.name].size
<1>1. PICK name \in DOMAIN dir : m = ParseGguf(name, dir[name])
  BY DEF Parsed
<1>2. ModelHeld(m) /\ m.name = name /\ m.size = dir[name].size
  BY <1>1, ParsedHeld
<1> QED BY <1>1, <1>2

\* The models parsed are as many as the files.
LEMMA ParsedFinite ==
    ASSUME NEW dir \in Directories
    PROVE  /\ IsFiniteSet(DOMAIN dir) /\ IsFiniteSet(Parsed(dir, DOMAIN dir))
           /\ Cardinality(Parsed(dir, DOMAIN dir)) = Cardinality(DOMAIN dir)
<1> DEFINE f == [name \in DOMAIN dir |-> ParseGguf(name, dir[name])]
           P == Parsed(dir, DOMAIN dir)
<1>1. IsFiniteSet(DOMAIN dir)
  BY DirectoriesAssumption
<1>2. f \in [DOMAIN dir -> P]
  BY DEF Parsed
<1>3. \A m \in P : \E name \in DOMAIN dir : f[name] = m
  BY DEF Parsed
<1>4. \A x, y \in DOMAIN dir : f[x] = f[y] => x = y
  <2> SUFFICES ASSUME NEW x \in DOMAIN dir, NEW y \in DOMAIN dir, f[x] = f[y] PROVE x = y
    OBVIOUS
  <2>1. f[x].name = x /\ f[y].name = y
    BY ParsedHeld
  <2> QED BY <2>1
<1> HIDE DEF f, P
<1>5. f \in Bijection(DOMAIN dir, P)
  <2>1. DOMAIN f = DOMAIN dir
    BY <1>2
  <2> QED BY <1>2, <1>3, <1>4, <2>1 DEF Bijection, Injection, Surjection, IsInjective
<1>6. ExistsBijection(DOMAIN dir, P)
  BY <1>5 DEF ExistsBijection
<1> QED BY <1>1, <1>6, FS_Bijection DEF P

\* What an assembled set is.
LEMMA AssembledHeld ==
    ASSUME NEW dir \in Directories, NEW count \in Nat, count > 1,
           NEW C \in SUBSET Parsed(dir, DOMAIN dir), Assembles(count, C),
           NEW shards, shards = AssembleShards(count, C)
    PROVE  /\ ShardsHeld(dir, shards, count) /\ shards \in [1..count -> C]
           /\ \A i \in 1..count : shards[i].split_no = i - 1
<1>1. shards = [i \in 1..count |-> CHOOSE m \in C : m.split_no = i - 1]
  BY DEF AssembleShards
<1>2. ASSUME NEW i \in 1..count PROVE \E m \in C : m.split_no = i - 1
  <2>1. i - 1 \in 0..(count - 1)
    OBVIOUS
  <2>2. {m.split_no : m \in C} = 0..(count - 1)
    BY DEF Assembles
  <2> QED BY <2>1, <2>2
<1>3. \A i \in 1..count : shards[i] \in C /\ shards[i].split_no = i - 1
  BY <1>1, <1>2
<1>4. shards \in [1..count -> C]
  BY <1>1, <1>3
<1>5. \A m \in C : \A k \in DOMAIN m.tensors :
         m.tensors[k].bytes # Absent => m.tensors[k].at + m.tensors[k].bytes <= m.size
  BY DEF Assembles
<1>6. ShardsHeld(dir, shards, count)
  BY <1>3, <1>4, <1>5 DEF ShardsHeld
<1> QED BY <1>3, <1>4, <1>6

LEMMA OneShard ==
    ASSUME NEW dir \in Directories, NEW m \in Parsed(dir, DOMAIN dir)
    PROVE  ShardsHeld(dir, <<m>>, 1)
<1>1. <<m>> \in [1..1 -> Parsed(dir, DOMAIN dir)]
  OBVIOUS
<1> QED BY <1>1 DEF ShardsHeld

LEMMA FromFile ==
    ASSUME NEW dir \in Directories, NEW name \in DOMAIN dir, DiscoverFromFile(dir, name) # <<>>
    PROVE  \E n : ShardsHeld(dir, DiscoverFromFile(dir, name), n)
<1> DEFINE m == ParseGguf(name, dir[name])
           names == {<<name[1], i, name[3]>> : i \in 1..SplitCount(m)}
           C == Parsed(dir, names)
           out == DiscoverFromFile(dir, name)
<1>1. m \in Parsed(dir, DOMAIN dir)
  BY DEF Parsed
<1>2. ModelHeld(m)
  BY <1>1, ModelOf
<1> HIDE DEF m
<1>3. \/ out = <<m>>
      \/ /\ out = AssembleShards(SplitCount(m), C) /\ SplitCount(m) > 1
         /\ \A n \in names : n \in DOMAIN dir
         /\ m.split_count # NotANumber
  <2>1. SplitCount(m) \in Int
    BY <1>2 DEF ModelHeld, SplitCount, Absent, NotANumber
  <2>2. out = IF ~Parses(dir[name]) \/ m.split_count = NotANumber THEN <<>>
              ELSE IF SplitCount(m) <= 1 THEN <<m>>
              ELSE IF ~StandardName(name) THEN <<>>
              ELSE IF /\ name[3] = SplitCount(m)
                      /\ \A n \in names : n \in DOMAIN dir /\ Parses(dir[n])
              THEN AssembleShards(SplitCount(m), C) ELSE <<>>
    BY DEF DiscoverFromFile, m
  <2> HIDE DEF out, C, names
  <2>3. out # <<>>
    BY DEF out
  <2> QED BY <2>1, <2>2, <2>3 DEF names
<1>4. CASE out = <<m>>
  BY <1>1, <1>4, OneShard
<1>5. CASE /\ out = AssembleShards(SplitCount(m), C) /\ SplitCount(m) > 1
           /\ \A n \in names : n \in DOMAIN dir
           /\ m.split_count # NotANumber
  <2>1. SplitCount(m) \in Nat
    BY <1>2, <1>5 DEF ModelHeld, SplitCount, Absent, NotANumber
  <2>2. C \in SUBSET Parsed(dir, DOMAIN dir)
    BY <1>5 DEF Parsed
  <2> HIDE DEF C, names, out
  <2>3. Assembles(SplitCount(m), C)
    <3>1. out # <<>>
      BY DEF out
    <3> QED BY <1>5, <3>1 DEF AssembleShards
  <2>4. ShardsHeld(dir, out, SplitCount(m))
    BY <1>5, <2>1, <2>2, <2>3, AssembledHeld
  <2> QED BY <2>4 DEF out
<1> QED BY <1>3, <1>4, <1>5

\* A directory whose set is found is one file, or shards that were assembled.
LEMMA FromDirCases ==
    ASSUME NEW dir \in Directories, DiscoverFromDir(dir) # <<>>,
           NEW models, models = Parsed(dir, DOMAIN dir)
    PROVE  /\ \A name \in DOMAIN dir : Parses(dir[name])
           /\ \A m \in models : m.split_count # NotANumber
           /\ \/ \E m \in models : models = {m} /\ SplitCount(m) <= 1 /\ DiscoverFromDir(dir) = <<m>>
              \/ \E count \in Nat :
                    /\ count > 1
                    /\ DiscoverFromDir(dir) = AssembleShards(count, models) /\ Assembles(count, models)
                    /\ \A m \in models : StandardName(m.name) /\ m.name[3] = SplitCount(m)
                    /\ Cardinality({<<m.name[1], m.name[3]>> : m \in models}) = 1
<1> DEFINE split == {m \in models : SplitCount(m) > 1}
           out == DiscoverFromDir(dir)
           count == SplitCount(CHOOSE m \in models : TRUE)
           bad == \/ models = {}
                  \/ \E name \in DOMAIN dir : ~Parses(dir[name])
                  \/ \E m \in models : m.split_count = NotANumber
           uniform == /\ split = models
                      /\ \A m \in models : StandardName(m.name) /\ m.name[3] = SplitCount(m)
                      /\ Cardinality({<<m.name[1], m.name[3]>> : m \in models}) = 1
<1>1. out = IF bad THEN <<>>
            ELSE IF split = {} THEN IF Cardinality(models) = 1 THEN SetToSeq(models) ELSE <<>>
            ELSE IF uniform THEN AssembleShards(count, models) ELSE <<>>
  BY Zenon DEF DiscoverFromDir
<1>2. IsFiniteSet(models)
  BY ParsedFinite
<1>3. \A m \in models : ModelHeld(m) /\ SplitCount(m) \in Int
  <2> TAKE m \in models
  <2>1. ModelHeld(m)
    BY ModelOf
  <2> QED BY <2>1 DEF ModelHeld, SplitCount, Absent, NotANumber
<1>4. out # <<>>
  OBVIOUS
<1> HIDE DEF out, split, bad, uniform, count
<1>5. ~bad
  BY <1>1, <1>4
<1>6. models # {} /\ (\A name \in DOMAIN dir : Parses(dir[name])) /\ \A m \in models : m.split_count # NotANumber
  BY <1>5 DEF bad
<1>7. CASE split = {}
  <2>1. Cardinality(models) = 1 /\ out = SetToSeq(models)
    BY <1>1, <1>4, <1>5, <1>7
  <2>2. PICK m : models = {m}
    BY <1>2, <2>1, FS_Singleton
  <2>3. SplitCount(m) <= 1
    BY <1>3, <1>7, <2>2 DEF split
  <2>4. out = <<m>>
    <3> DEFINE good(f) == f \in [1..1 -> {m}] /\ IsInjective(f)
    <3>1. out = CHOOSE f \in [1..1 -> {m}] : IsInjective(f)
      BY <2>1, <2>2, Zenon DEF SetToSeq
    <3>2. <<m>> \in [1..1 -> {m}] /\ IsInjective(<<m>>)
      BY DEF IsInjective
    <3>3. out \in [1..1 -> {m}]
      BY <3>1, <3>2
    <3>4. out = [i \in 1..1 |-> m]
      BY <3>3
    <3>5. <<m>> = [i \in 1..1 |-> m]
      OBVIOUS
    <3> QED BY <3>4, <3>5
  <2> QED BY <1>6, <2>2, <2>3, <2>4 DEF out
<1>8. CASE split # {}
  <2>1. uniform /\ out = AssembleShards(count, models)
    BY <1>1, <1>4, <1>5, <1>8
  <2>2. Assembles(count, models)
    BY <1>4, <2>1 DEF AssembleShards
  <2>3. count \in Nat /\ count > 1
    <3> DEFINE m == CHOOSE x \in models : TRUE
    <3>1. m \in models
      BY <1>6
    <3>2. m \in split
      BY <2>1, <3>1 DEF uniform
    <3> HIDE DEF m
    <3>3. SplitCount(m) \in Int /\ SplitCount(m) > 1
      BY <1>3, <3>1, <3>2 DEF split
    <3>4. count = SplitCount(m)
      BY DEF count, m
    <3> QED BY <3>3, <3>4
  <2> QED BY <1>6, <2>1, <2>2, <2>3 DEF uniform, out
<1> QED BY <1>7, <1>8

LEMMA FromDir ==
    ASSUME NEW dir \in Directories, DiscoverFromDir(dir) # <<>>
    PROVE  \E n : ShardsHeld(dir, DiscoverFromDir(dir), n)
<1> DEFINE models == Parsed(dir, DOMAIN dir)
           out == DiscoverFromDir(dir)
<1> HIDE DEF models
<1>1. CASE \E m \in models : out = <<m>>
  BY <1>1, OneShard DEF models
<1>2. CASE \E count \in Nat : count > 1 /\ out = AssembleShards(count, models) /\ Assembles(count, models)
  <2>1. PICK count \in Nat : count > 1 /\ out = AssembleShards(count, models) /\ Assembles(count, models)
    BY <1>2
  <2>2. ShardsHeld(dir, out, count)
    BY <2>1, AssembledHeld DEF models
  <2> QED BY <2>2
<1> QED BY <1>1, <1>2, FromDirCases DEF models

\* The tensors of the shards, one shard after the other.
TensorsOf(shards) == [i \in DOMAIN shards |-> shards[i].tensors]

LEMMA AllTensorsMade ==
    ASSUME NEW dir \in Directories, NEW n \in Nat, NEW shards \in [1..n -> Parsed(dir, DOMAIN dir)],
           NEW length, \A i \in 1..n : length[i] = Len(shards[i].tensors)
    PROVE  MadeOf(AllTensors(shards), n, TensorsOf(shards), length)
<1> DEFINE seqs == TensorsOf(shards)
           T == UNION {Range(seqs[i]) : i \in 1..n}
<1>1. \A i \in 1..n : seqs[i] = shards[i].tensors /\ seqs[i] \in Seq(Range(seqs[i]))
  <2> TAKE i \in 1..n
  <2>1. shards[i] \in Parsed(dir, DOMAIN dir)
    OBVIOUS
  <2>2. ModelHeld(shards[i])
    BY <2>1, ModelOf
  <2>3. seqs[i] = shards[i].tensors
    BY DEF TensorsOf
  <2> QED BY <2>2, <2>3 DEF ModelHeld
<1>2. DOMAIN seqs = 1..n /\ seqs = [i \in 1..n |-> seqs[i]]
  BY DEF TensorsOf
<1>3. AllTensors(shards) = FlattenSeq(seqs)
  BY DEF AllTensors, TensorsOf
<1> HIDE DEF seqs
<1>4. ASSUME NEW i \in 1..n PROVE seqs[i] \in Seq(T)
  <2>1. seqs[i] \in Seq(Range(seqs[i])) /\ Range(seqs[i]) \subseteq T
    BY <1>1
  <2> HIDE DEF T
  <2> QED BY <2>1
<1> HIDE DEF T
<1>5. seqs \in [1..n -> Seq(T)]
  BY <1>2, <1>4
<1>6. \A i \in 1..n : length[i] = Len(seqs[i])
  BY <1>1
<1>7. MadeOf(FlattenSeq(seqs), n, seqs, length)
  BY <1>5, <1>6, FlattenMade
<1> QED BY <1>3, <1>7 DEF seqs

\* A sequence of a finite set that names each element once.
LEMMA OrderOf ==
    ASSUME NEW C, IsFiniteSet(C)
    PROVE  /\ SetToSeq(C) \in [1..Cardinality(C) -> C]
           /\ \A c \in C : \E i \in 1..Cardinality(C) : SetToSeq(C)[i] = c
<1> DEFINE n == Cardinality(C)
           f == SetToSeq(C)
<1>1. n \in Nat /\ ExistsBijection(1..n, C)
  BY FS_CardinalityType
<1>2. \E g \in [1..n -> C] : IsInjective(g)
  BY <1>1 DEF ExistsBijection, Bijection, Injection
<1>3. f \in [1..n -> C] /\ IsInjective(f)
  <2>1. f = CHOOSE g \in [1..n -> C] : IsInjective(g)
    BY DEF SetToSeq
  <2> HIDE DEF f, n
  <2> QED BY <1>2, <2>1
<1>4. f \in Surjection(1..n, C)
  <2>1. Cardinality(1..n) = n
    BY <1>1, FS_Interval
  <2>2. f \in Injection(1..n, C)
    BY <1>3 DEF Injection
  <2> HIDE DEF f
  <2> QED BY <2>1, <2>2, FS_Injection
<1> QED BY <1>3, <1>4 DEF Surjection

\* As many names as tensors: no two have one name.
LEMMA NamesOnce ==
    ASSUME NEW all, NEW l \in Nat, DOMAIN all = 1..l,
           Cardinality({all[i].name : i \in DOMAIN all}) = l
    PROVE  \A i, j \in 1..l : all[i].name = all[j].name => i = j
<1> DEFINE N == {all[i].name : i \in DOMAIN all}
           f == [i \in 1..l |-> all[i].name]
<1>1. f \in Surjection(1..l, N)
  <2>1. f \in [1..l -> N] /\ \A x \in N : \E i \in 1..l : f[i] = x
    OBVIOUS
  <2> QED BY <2>1 DEF Surjection
<1>2. IsFiniteSet(1..l) /\ Cardinality(1..l) = l
  BY FS_Interval
<1>3. Cardinality(1..l) = Cardinality(N)
  BY <1>2
<1> HIDE DEF N, f
<1>4. f \in Injection(1..l, N)
  BY <1>1, <1>2, <1>3, FS_SurjSameCardinalityImpliesInj
<1> QED BY <1>4 DEF Injection, IsInjective, f

\* An assembled set has no two tensors of one name, in whatever order its
\* shards were checked.
LEMMA AssembledNames ==
    ASSUME NEW dir \in Directories, NEW count \in Nat, count > 1,
           NEW C \in SUBSET Parsed(dir, DOMAIN dir), Assembles(count, C),
           NEW shards, shards = AssembleShards(count, C)
    PROVE  \A i, j \in DOMAIN AllTensors(shards) : AllTensors(shards)[i].name = AllTensors(shards)[j].name => i = j
<1> DEFINE order == SetToSeq(C)
           listed == AllTensors(order)
           all == AllTensors(shards)
           a == [i \in 1..count |-> Len(shards[i].tensors)]
           b == [i \in 1..count |-> Len(order[i].tensors)]
<1>1. shards \in [1..count -> C] /\ \A i \in 1..count : shards[i].split_no = i - 1
  BY AssembledHeld
<1>2. Cardinality(C) = count /\ IsFiniteSet(C)
  <2>1. IsFiniteSet(Parsed(dir, DOMAIN dir))
    BY ParsedFinite
  <2> QED BY <2>1, FS_Subset DEF Assembles
<1>3. order \in [1..count -> C] /\ \A c \in C : \E i \in 1..count : order[i] = c
  BY <1>2, OrderOf
<1>4. Cardinality({listed[i].name : i \in DOMAIN listed}) = Len(listed)
  BY DEF Assembles
<1>5. /\ \A i \in 1..count : a[i] = Len(shards[i].tensors)
      /\ \A i \in 1..count : b[i] = Len(order[i].tensors)
  OBVIOUS
<1>6. shards \in [1..count -> Parsed(dir, DOMAIN dir)] /\ order \in [1..count -> Parsed(dir, DOMAIN dir)]
  BY <1>1, <1>3
<1> HIDE DEF order, listed, all, a, b
<1>11. MadeOf(listed, count, TensorsOf(order), b)
  BY <1>5, <1>6, AllTensorsMade DEF listed
<1>12. MadeOf(all, count, TensorsOf(shards), a)
  BY <1>5, <1>6, AllTensorsMade DEF all
<1>13. /\ \A i \in 1..count : TensorsOf(order)[i] = order[i].tensors
       /\ \A i \in 1..count : TensorsOf(shards)[i] = shards[i].tensors
  BY <1>6 DEF TensorsOf
<1>7. /\ Len(listed) \in Nat /\ DOMAIN listed = 1..Len(listed)
      /\ \A i \in 1..count : b[i] \in Nat
      /\ \A i \in 1..count : \A k \in 1..b[i] :
            StartOfPart(b, i) + k \in 1..Len(listed) /\ listed[StartOfPart(b, i) + k] = order[i].tensors[k]
  BY <1>11, <1>13 DEF MadeOf
<1>8. /\ Len(all) \in Nat /\ DOMAIN all = 1..Len(all)
      /\ \A i \in 1..count : \A k \in 1..a[i] : all[StartOfPart(a, i) + k] = shards[i].tensors[k]
      /\ \A p \in 1..Len(all) : \E i \in 1..count : \E k \in 1..a[i] : p = StartOfPart(a, i) + k
  BY <1>12, <1>13 DEF MadeOf
<1>9. \A i, j \in 1..Len(listed) : listed[i].name = listed[j].name => i = j
  BY <1>4, <1>7, NamesOnce
<1>10. ASSUME NEW p \in 1..Len(all), NEW q \in 1..Len(all), all[p].name = all[q].name PROVE p = q
  <2>13. PICK i \in 1..count : \E k \in 1..a[i] : p = StartOfPart(a, i) + k
    BY <1>8
  <2>1. PICK k \in 1..a[i] : p = StartOfPart(a, i) + k
    BY <2>13
  <2>14. PICK j \in 1..count : \E l \in 1..a[j] : q = StartOfPart(a, j) + l
    BY <1>8
  <2>2. PICK l \in 1..a[j] : q = StartOfPart(a, j) + l
    BY <2>14
  <2>3. PICK x \in 1..count : order[x] = shards[i]
    BY <1>1, <1>3
  <2>4. PICK y \in 1..count : order[y] = shards[j]
    BY <1>1, <1>3
  <2>5. k \in 1..b[x] /\ l \in 1..b[y]
    BY <1>5, <2>1, <2>2, <2>3, <2>4
  <2>6. all[p] = shards[i].tensors[k] /\ all[q] = shards[j].tensors[l]
    BY <1>8, <2>1, <2>2
  <2>7. /\ listed[StartOfPart(b, x) + k] = all[p] /\ listed[StartOfPart(b, y) + l] = all[q]
        /\ StartOfPart(b, x) + k \in 1..Len(listed) /\ StartOfPart(b, y) + l \in 1..Len(listed)
    <3>1. /\ listed[StartOfPart(b, x) + k] = order[x].tensors[k]
          /\ listed[StartOfPart(b, y) + l] = order[y].tensors[l]
          /\ StartOfPart(b, x) + k \in 1..Len(listed) /\ StartOfPart(b, y) + l \in 1..Len(listed)
      BY <1>7, <2>5, Zenon
    <3> QED BY <2>3, <2>4, <2>6, <3>1, Zenon
  <2>8. StartOfPart(b, x) + k = StartOfPart(b, y) + l
    BY <1>9, <1>10, <2>7, Zenon
  <2>9. /\ StartOfPart(b, x) \in Nat /\ StartOfPart(b, y) \in Nat /\ b[x] \in Nat /\ b[y] \in Nat
    <3>1. x \in 1..(count + 1) /\ y \in 1..(count + 1) /\ \A z \in 1..count : b[z] \in Nat
      BY <1>7
    <3> QED BY <3>1, PartsStart
  <2>10. x = y
    <3> DEFINE v == (StartOfPart(b, x) + k) - 1
    <3>3. k \in Int /\ k >= 1 /\ k <= b[x] /\ l \in Int /\ l >= 1 /\ l <= b[y]
      BY <2>5, <2>9
    <3>4. v = (StartOfPart(b, y) + l) - 1
      <4> DEFINE c == StartOfPart(b, x) + k
                 d == StartOfPart(b, y) + l
      <4>1. c = d
        BY <2>8
      <4> HIDE DEF c, d
      <4>2. c - 1 = d - 1
        BY <4>1
      <4> QED BY <4>2, Zenon DEF c, d
    <3>7. ASSUME NEW at \in Nat, NEW size \in Nat, NEW place \in Int, place >= 1, place <= size,
                 NEW w, w = (at + place) - 1
          PROVE  w \in Int /\ at <= w /\ w < at + size
      BY <3>7
    <3>5. v \in Int /\ StartOfPart(b, x) <= v /\ v < StartOfPart(b, x) + b[x]
      BY <2>9, <3>3, <3>7, Zenon
    <3>6. StartOfPart(b, y) <= v /\ v < StartOfPart(b, y) + b[y]
      <4> HIDE DEF v
      <4> QED BY <2>9, <3>3, <3>4, <3>7, Zenon
    <3> HIDE DEF v
    <3>1. v \in Int /\ StartOfPart(b, x) <= v /\ v < StartOfPart(b, x) + b[x]
          /\ StartOfPart(b, y) <= v /\ v < StartOfPart(b, y) + b[y]
      BY <3>5, <3>6
    <3>2. \A z \in 1..count : b[z] \in Nat
      BY <1>7
    <3> QED BY <3>1, <3>2, PartOnce
  <2>11. k = l
    <3>1. k \in Int /\ l \in Int
      BY <2>5, <2>9
    <3> QED BY <2>8, <2>9, <2>10, <3>1
  <2>12. i = j
    <3>1. shards[i].split_no = shards[j].split_no
      BY <2>3, <2>4, <2>10
    <3>2. i - 1 = j - 1
      BY <1>1, <3>1
    <3> QED BY <3>2
  <2> QED BY <2>1, <2>2, <2>11, <2>12
<1> QED BY <1>8, <1>10 DEF all

\* A set that a directory holds is found from each of its shards, and is one model.
LEMMA SetsAgreeHeld ==
    ASSUME directory \in Directories
    PROVE  SetsAgree
<1> DEFINE dir == directory
           models == Parsed(dir, DOMAIN dir)
           shards == DiscoverFromDir(dir)
           all == AllTensors(shards)
<1>1. CASE shards = <<>>
  BY <1>1 DEF SetsAgree, IsSharded
<1>2. CASE shards # <<>>
  <2>1. /\ \A name \in DOMAIN dir : Parses(dir[name])
        /\ \A m \in models : m.split_count # NotANumber
        /\ \/ \E m \in models : models = {m} /\ SplitCount(m) <= 1 /\ shards = <<m>>
           \/ \E count \in Nat :
                 /\ count > 1
                 /\ shards = AssembleShards(count, models) /\ Assembles(count, models)
                 /\ \A m \in models : StandardName(m.name) /\ m.name[3] = SplitCount(m)
                 /\ Cardinality({<<m.name[1], m.name[3]>> : m \in models}) = 1
    BY <1>2, FromDirCases
  <2>2. \A m \in models : m.name \in DOMAIN dir /\ m = ParseGguf(m.name, dir[m.name]) /\ m.size = dir[m.name].size
    BY ModelOf
  <2> HIDE DEF models, shards, all
  <2>3. ASSUME NEW m \in models, models = {m}, SplitCount(m) <= 1, shards = <<m>>
        PROVE  SetsAgree
    <3>1. m.name \in DOMAIN dir /\ m = ParseGguf(m.name, dir[m.name]) /\ Parses(dir[m.name]) /\ m.split_count # NotANumber
      BY <2>1, <2>2
    <3>2. DiscoverFromFile(dir, m.name) = <<m>>
      BY <2>3, <3>1 DEF DiscoverFromFile
    <3>3. Len(shards) = 1 /\ DOMAIN shards = {1} /\ shards[1] = m
      BY <2>3
    <3>4. ~IsSharded(shards)
      BY <3>3 DEF IsSharded
    <3>5. \A i \in DOMAIN shards : DiscoverFromFile(dir, shards[i].name) = shards
      BY <2>3, <3>2, <3>3
    <3> QED BY <3>4, <3>5 DEF SetsAgree, shards
  <2>4. ASSUME NEW count \in Nat, count > 1, shards = AssembleShards(count, models), Assembles(count, models),
               \A m \in models : StandardName(m.name) /\ m.name[3] = SplitCount(m),
               Cardinality({<<m.name[1], m.name[3]>> : m \in models}) = 1
        PROVE  SetsAgree
    <3>1. ShardsHeld(dir, shards, count) /\ shards \in [1..count -> models]
      BY <2>4, AssembledHeld DEF models
    <3>2. \A m \in models : SplitCount(m) = count
      BY <2>4 DEF Assembles
    <3>3. IsFiniteSet(DOMAIN dir) /\ Cardinality(DOMAIN dir) = count
      <4>1. Cardinality(models) = count
        BY <2>4 DEF Assembles
      <4> QED BY <4>1, ParsedFinite DEF models
    <3>4. PICK pair : {<<m.name[1], m.name[3]>> : m \in models} = {pair}
      <4>1. IsFiniteSet({<<m.name[1], m.name[3]>> : m \in models})
        <5> DEFINE P == {<<m.name[1], m.name[3]>> : m \in models}
                   f == [m \in models |-> <<m.name[1], m.name[3]>>]
        <5>1. f \in Surjection(models, P)
          BY DEF Surjection
        <5>2. IsFiniteSet(models)
          BY ParsedFinite DEF models
        <5> HIDE DEF f, P
        <5>3. IsFiniteSet(P)
          BY <5>1, <5>2, FS_Surjection
        <5> QED BY <5>3 DEF P
      <4> QED BY <2>4, <4>1, FS_Singleton
    <3>5. ASSUME NEW m \in models PROVE DiscoverFromFile(dir, m.name) = shards
      <4> DEFINE prefix == m.name[1]
                 names == {<<prefix, i, m.name[3]>> : i \in 1..count}
      <4>1. m.name \in DOMAIN dir /\ m = ParseGguf(m.name, dir[m.name]) /\ Parses(dir[m.name])
            /\ m.split_count # NotANumber /\ SplitCount(m) = count /\ StandardName(m.name) /\ m.name[3] = count
        BY <2>1, <2>2, <2>4, <3>2
      <4>2. ASSUME NEW name \in DOMAIN dir PROVE name \in names
        <5> DEFINE p == ParseGguf(name, dir[name])
        <5>1. p \in models /\ p.name = name
          BY ParsedHeld DEF models, Parsed
        <5> HIDE DEF p
        <5>2. StandardName(name) /\ name[3] = count
          BY <2>4, <3>2, <5>1
        <5>3. <<p.name[1], p.name[3]>> = pair /\ <<m.name[1], m.name[3]>> = pair
          BY <3>4, <5>1
        <5>4. name[1] = prefix
          BY <5>1, <5>3
        <5>5. name \in Seq(Range(name))
          BY DirectoriesAssumption
        <5>6. Len(name) = 3 /\ name[2] \in 1..count
          BY <5>2 DEF StandardName
        <5>7. name = <<prefix, name[2], count>>
          <6>1. name = <<name[1], name[2], name[3]>>
            BY <5>5, <5>6
          <6> QED BY <5>2, <5>4, <6>1
        <5> QED BY <4>1, <5>6, <5>7
      <4>3. IsFiniteSet(names) /\ Cardinality(names) = count
        <5> DEFINE f == [i \in 1..count |-> <<prefix, i, m.name[3]>>]
        <5>1. f \in [1..count -> names] /\ (\A x \in names : \E i \in 1..count : f[i] = x)
              /\ \A i, j \in 1..count : f[i] = f[j] => i = j
          OBVIOUS
        <5> HIDE DEF f, names
        <5>2. f \in Bijection(1..count, names)
          <6>1. DOMAIN f = 1..count
            BY <5>1
          <6> QED BY <5>1, <6>1 DEF Bijection, Injection, Surjection, IsInjective
        <5>3. ExistsBijection(1..count, names)
          BY <5>2 DEF ExistsBijection
        <5>4. IsFiniteSet(1..count) /\ Cardinality(1..count) = count
          BY FS_Interval
        <5> QED BY <5>3, <5>4, FS_Bijection
      <4> HIDE DEF names
      <4>4. names = DOMAIN dir
        <5>1. DOMAIN dir \in SUBSET names
          BY <4>2
        <5> QED BY <3>3, <4>3, <5>1, FS_Subset
      <4>5. \A n \in names : n \in DOMAIN dir /\ Parses(dir[n])
        BY <2>1, <4>4
      <4>6. Parsed(dir, names) = models
        BY <4>4 DEF models
      <4>7. DiscoverFromFile(dir, m.name) = AssembleShards(count, Parsed(dir, names))
        <5>1. {<<m.name[1], i, m.name[3]>> : i \in 1..SplitCount(m)} = names
          BY <4>1 DEF names
        <5>2. DiscoverFromFile(dir, m.name)
                = IF ~Parses(dir[m.name]) \/ m.split_count = NotANumber THEN <<>>
                  ELSE IF SplitCount(m) <= 1 THEN <<m>>
                  ELSE IF ~StandardName(m.name) THEN <<>>
                  ELSE IF m.name[3] = SplitCount(m) /\ \A n \in names : n \in DOMAIN dir /\ Parses(dir[n])
                  THEN AssembleShards(SplitCount(m), Parsed(dir, names)) ELSE <<>>
          BY <4>1, <5>1, Zenon DEF DiscoverFromFile
        <5>3. ~(SplitCount(m) <= 1)
          BY <2>4, <4>1
        <5> QED BY <4>1, <4>5, <5>2, <5>3
      <4> QED BY <2>4, <4>6, <4>7
    <3>6. DOMAIN shards = 1..count /\ Len(shards) = count
      BY <3>1
    <3>7. \A i \in DOMAIN shards : DiscoverFromFile(dir, shards[i].name) = shards
      BY <3>1, <3>5, <3>6
    <3>8. \A i, j \in DOMAIN all : all[i].name = all[j].name => i = j
      BY <2>4, AssembledNames DEF all, models
    <3>9. ASSUME NEW p \in DOMAIN all, all[p].bytes # Absent
          PROVE  all[p].at + all[p].bytes <= dir[all[p].byte0[1]].size
      <4> DEFINE a == [i \in 1..count |-> Len(shards[i].tensors)]
      <4>1. shards \in [1..count -> Parsed(dir, DOMAIN dir)] /\ \A i \in 1..count : a[i] = Len(shards[i].tensors)
        BY <3>1 DEF models
      <4> HIDE DEF a
      <4>2. MadeOf(all, count, TensorsOf(shards), a)
        BY <4>1, AllTensorsMade DEF all
      <4>3. PICK i \in 1..count : \E k \in 1..a[i] : p = StartOfPart(a, i) + k
        BY <4>2 DEF MadeOf
      <4>4. PICK k \in 1..a[i] : p = StartOfPart(a, i) + k
        BY <4>3
      <4>5. all[p] = shards[i].tensors[k]
        <5>1. all[p] = TensorsOf(shards)[i][k]
          BY <4>2, <4>4 DEF MadeOf
        <5>2. TensorsOf(shards)[i] = shards[i].tensors
          BY <3>6 DEF TensorsOf
        <5> QED BY <5>1, <5>2
      <4>6. shards[i] \in models
        BY <3>1
      <4>7. ModelHeld(shards[i]) /\ shards[i].size = dir[shards[i].name].size
        BY <4>6, ModelOf DEF models
      <4>8. k \in 1..Len(shards[i].tensors) /\ k \in DOMAIN shards[i].tensors
        BY <4>1, <4>7 DEF ModelHeld
      <4>9. TensorHeld(shards[i], shards[i].tensors[k])
        BY <4>7, <4>8 DEF ModelHeld
      <4>10. all[p].byte0[1] = shards[i].name
        BY <4>5, <4>9 DEF TensorHeld
      <4>11. all[p].at + all[p].bytes <= shards[i].size
        BY <2>4, <3>1, <3>9, <4>5, <4>8 DEF ShardsHeld
      <4> QED BY <4>7, <4>10, <4>11
    <3> QED BY <3>7, <3>8, <3>9 DEF SetsAgree, shards, all
  <2> QED BY <2>1, <2>3, <2>4
<1> QED BY <1>1, <1>2
-----------------------------------------------------------------------------
(* The address space of a set *)

Lengths(shards) == [i \in DOMAIN shards |-> VirtualLength(shards, i)]

\* b is the byte that the address space has at position v.
IsByte(shards, v, b) ==
    \E i \in DOMAIN shards :
        /\ VirtualStart(shards, i) <= v /\ v < VirtualStart(shards, i) + VirtualLength(shards, i)
        /\ b = <<shards[i].name, (v - VirtualStart(shards, i)) + PhysicalStart(shards, i)>>

\* The address space is the shards' parts one after the other.
LEMMA AddressSpace ==
    ASSUME NEW dir \in Directories, NEW shards, NEW n, ShardsHeld(dir, shards, n)
    PROVE  /\ DOMAIN shards = 1..n /\ Len(shards) = n /\ n \in Nat \ {0}
           /\ \A i \in 1..n : /\ ModelHeld(shards[i]) /\ Lengths(shards)[i] \in Nat
                              /\ Lengths(shards)[i] = VirtualLength(shards, i)
                              /\ PhysicalStart(shards, i) \in Nat
                              /\ VirtualStart(shards, i) \in Nat
                              /\ VirtualStart(shards, i) = StartOfPart(Lengths(shards), i)
           /\ VirtualSize(shards) = StartOfPart(Lengths(shards), n + 1)
<1> DEFINE length == Lengths(shards)
<1>1. DOMAIN shards = 1..n /\ Len(shards) = n /\ n \in Nat \ {0}
  BY DEF ShardsHeld
<1>2. ASSUME NEW i \in 1..n
      PROVE  /\ ModelHeld(shards[i]) /\ length[i] \in Nat /\ length[i] = VirtualLength(shards, i)
             /\ PhysicalStart(shards, i) \in Nat
  <2>1. shards[i] \in Parsed(dir, DOMAIN dir)
    BY DEF ShardsHeld
  <2>2. ModelHeld(shards[i])
    BY <2>1, ModelOf
  <2>3. length[i] = VirtualLength(shards, i)
    BY <1>1 DEF Lengths
  <2>4. DataLength(shards[i]) \in Nat /\ shards[i].size \in Nat /\ shards[i].data_start \in Nat
    BY <2>2 DEF ModelHeld, DataLength
  <2> QED BY <2>2, <2>3, <2>4 DEF VirtualLength, PhysicalStart
<1>3. ASSUME NEW T \in SUBSET (1..n)
      PROVE  MapThenSumSet(LAMBDA j : VirtualLength(shards, j), T) = SumOver(length, T)
  <2>1. MapThenSumSet(LAMBDA j : VirtualLength(shards, j), T)
          = (CHOOSE h : h = [s \in SUBSET T |-> IF s = {} THEN 0
                               ELSE LET x == CHOOSE x \in s : TRUE IN VirtualLength(shards, x) + h[s \ {x}]])[T]
    BY DEF MapThenSumSet, MapThenFoldSet
  <2>2. \A s \in SUBSET T : s # {} => length[CHOOSE x \in s : TRUE] = VirtualLength(shards, CHOOSE x \in s : TRUE)
    <3> TAKE s \in SUBSET T
    <3> HAVE s # {}
    <3> DEFINE x == CHOOSE x \in s : TRUE
    <3>1. x \in 1..n
      OBVIOUS
    <3> HIDE DEF x, length
    <3>2. length[x] = VirtualLength(shards, x)
      BY <1>2, <3>1
    <3> QED BY <3>2 DEF x
  <2> HIDE DEF length
  <2>3. ASSUME NEW h
        PROVE  h = [s \in SUBSET T |-> IF s = {} THEN 0
                      ELSE LET x == CHOOSE x \in s : TRUE IN VirtualLength(shards, x) + h[s \ {x}]]
               <=> Sums(h, length, T)
    BY <2>2 DEF Sums
  <2> QED BY <2>1, <2>3, SumIsFold
<1>4. ASSUME NEW i \in 1..n
      PROVE VirtualStart(shards, i) = StartOfPart(length, i)
  <2>1. 1..(i - 1) \in SUBSET (1..n)
    BY <1>1
  <2> QED BY <1>3, <2>1, Zenon DEF VirtualStart, StartOfPart
<1>5. VirtualSize(shards) = StartOfPart(length, n + 1)
  <2>1. 1..n \in SUBSET (1..n) /\ n + 1 - 1 = n
    BY <1>1
  <2>2. VirtualSize(shards) = SumOver(length, 1..n)
    <3>1. DOMAIN shards \in SUBSET (1..n)
      BY <1>1, <2>1, Zenon
    <3>2. VirtualSize(shards) = SumOver(length, DOMAIN shards)
      BY <1>3, <3>1, Zenon DEF VirtualSize
    <3> QED BY <1>1, <3>2, Zenon
  <2>3. 1..((n + 1) - 1) = 1..n
    BY <1>1
  <2> HIDE DEF length
  <2> QED BY <2>2, <2>3, Zenon DEF StartOfPart
<1>6. ASSUME NEW i \in 1..n PROVE StartOfPart(length, i) \in Nat
  <2>1. i \in 1..(n + 1) /\ n \in Nat
    BY <1>1
  <2>2. \A j \in 1..n : length[j] \in Nat
    BY <1>2
  <2> HIDE DEF length
  <2> QED BY <2>1, <2>2, PartsStart
<1> QED BY <1>1, <1>2, <1>4, <1>5, <1>6

\* A position has one byte.
LEMMA ByteOnce ==
    ASSUME NEW dir \in Directories, NEW shards, NEW n, ShardsHeld(dir, shards, n), NEW v \in Int,
           NEW b, IsByte(shards, v, b), NEW c, IsByte(shards, v, c)
    PROVE  b = c
<1> DEFINE length == Lengths(shards)
           At(i) == VirtualStart(shards, i) <= v /\ v < VirtualStart(shards, i) + VirtualLength(shards, i)
           Byte(i) == <<shards[i].name, (v - VirtualStart(shards, i)) + PhysicalStart(shards, i)>>
<1>1. /\ DOMAIN shards = 1..n /\ n \in Nat
      /\ \A i \in 1..n : /\ length[i] \in Nat /\ length[i] = VirtualLength(shards, i)
                         /\ VirtualStart(shards, i) = StartOfPart(length, i)
  BY AddressSpace
<1>2. (\E i \in DOMAIN shards : At(i) /\ b = Byte(i)) /\ \E i \in DOMAIN shards : At(i) /\ c = Byte(i)
  BY DEF IsByte
<1>3. ASSUME NEW i \in 1..n, At(i), NEW j \in 1..n, At(j) PROVE i = j
  <2>1. /\ StartOfPart(length, i) <= v /\ v < StartOfPart(length, i) + length[i]
        /\ StartOfPart(length, j) <= v /\ v < StartOfPart(length, j) + length[j]
    BY <1>1, <1>3
  <2>2. \A k \in 1..n : length[k] \in Nat
    BY <1>1
  <2> HIDE DEF length
  <2> QED BY <1>1, <2>1, <2>2, PartOnce
<1> HIDE DEF At, Byte
<1> QED BY <1>1, <1>2, <1>3

\* A tensor of the open source: the byte at each of its positions is its own.
MergedTensor(shards, t) ==
    /\ t.elements \in Nat /\ t.at \in Nat /\ t.bytes \in Nat \union {Absent}
    /\ \A k \in 0..(t.bytes - 1) : \A b :
          IsByte(shards, t.at + k, b) => b = <<t.byte0[1], t.byte0[2] + k>>

\* A tensor of one shard, moved to where its shard starts.
LEMMA TensorMoved ==
    ASSUME NEW dir \in Directories, NEW shards, NEW n, ShardsHeld(dir, shards, n), n > 1,
           NEW i \in 1..n, NEW k \in DOMAIN shards[i].tensors, NEW t,
           t = [shards[i].tensors[k] EXCEPT !.at = VirtualStart(shards, i) + (@ - shards[i].data_start)]
    PROVE  MergedTensor(shards, t)
<1> DEFINE m == shards[i]
           o == m.tensors[k]
           v == VirtualStart(shards, i)
<1>1. /\ n \in Nat /\ Len(shards) = n /\ DOMAIN shards = 1..n
      /\ ModelHeld(m) /\ v \in Nat
  BY AddressSpace
<1>2. o.bytes # Absent => o.at + o.bytes <= m.size
  BY DEF ShardsHeld
<1>3. IsSharded(shards)
  BY <1>1 DEF IsSharded
<1>4. VirtualLength(shards, i) = DataLength(m) /\ PhysicalStart(shards, i) = m.data_start
  BY <1>3 DEF VirtualLength, PhysicalStart
<1>5. m.size \in Nat /\ m.data_start \in Nat /\ TensorHeld(m, o)
  BY <1>1 DEF ModelHeld
<1>6. t = [o EXCEPT !.at = v + (@ - m.data_start)]
  OBVIOUS
<1> HIDE DEF m, o, v
<1>7. /\ o.bytes \in Nat \union {Absent} /\ o.at \in Nat /\ o.at >= m.data_start
      /\ o.byte0 = <<m.name, o.at>>
      /\ t.at = v + (o.at - m.data_start) /\ t.bytes = o.bytes /\ t.byte0 = o.byte0
      /\ t.elements \in Nat
  BY <1>5, <1>6 DEF TensorHeld
<1>8. t.at \in Nat
  BY <1>1, <1>5, <1>7
<1>9. ASSUME NEW j \in 0..(t.bytes - 1), NEW b, IsByte(shards, t.at + j, b)
      PROVE  b = <<t.byte0[1], t.byte0[2] + j>>
  <2> DEFINE p == t.at + j
  <2>1. j \in Nat /\ o.bytes \in Nat /\ j < o.bytes
    BY <1>7, <1>9 DEF Absent
  <2>2. o.at + o.bytes <= m.size
    BY <1>2, <2>1 DEF Absent, m, o
  <2>3. DataLength(m) = m.size - m.data_start
    BY <1>5, <1>7, <2>1, <2>2 DEF DataLength
  <2>4. p \in Nat /\ v <= p /\ p < v + DataLength(m) /\ (p - v) + m.data_start = o.at + j
    <3> DEFINE at == o.at
               start == m.data_start
               d == DataLength(m)
               e == o.bytes
               f == m.size
    <3>1. /\ at \in Nat /\ start \in Nat /\ v \in Nat /\ e \in Nat /\ f \in Nat /\ j \in Nat /\ j < e
          /\ at >= start /\ at + e <= f /\ d = f - start
      BY <1>1, <1>5, <1>7, <2>1, <2>2, <2>3, Zenon
    <3>2. p = (v + (at - start)) + j
      BY <1>7, Zenon
    <3> HIDE DEF at, start, d, e, f, p
    <3>3. p \in Nat /\ v <= p /\ p < v + d /\ (p - v) + start = at + j
      BY <3>1, <3>2
    <3> QED BY <3>3, Zenon DEF at, start, d
  <2> HIDE DEF p
  <2>5. IsByte(shards, p, <<m.name, o.at + j>>)
    <3>1. /\ VirtualStart(shards, i) <= p /\ p < VirtualStart(shards, i) + VirtualLength(shards, i)
          /\ <<m.name, o.at + j>> = <<shards[i].name, (p - VirtualStart(shards, i)) + PhysicalStart(shards, i)>>
      <4>1. m.name = shards[i].name /\ v = VirtualStart(shards, i)
        BY DEF m, v
      <4> QED BY <1>4, <2>4, <4>1
    <3> QED BY <1>1, <3>1 DEF IsByte
  <2>6. IsByte(shards, p, b)
    BY <1>9 DEF p
  <2>7. b = <<m.name, o.at + j>>
    <3>1. p \in Int
      BY <2>4
    <3> QED BY <2>5, <2>6, <3>1, ByteOnce
  <2> QED BY <1>7, <2>7
<1> QED BY <1>7, <1>8, <1>9 DEF MergedTensor

\* The tensors of one file stay where they are.
LEMMA TensorKept ==
    ASSUME NEW dir \in Directories, NEW shards, ShardsHeld(dir, shards, 1), NEW k \in DOMAIN shards[1].tensors
    PROVE  MergedTensor(shards, shards[1].tensors[k])
<1> DEFINE m == shards[1]
           t == m.tensors[k]
<1>1. /\ Len(shards) = 1 /\ DOMAIN shards = 1..1 /\ ModelHeld(m)
      /\ VirtualStart(shards, 1) = StartOfPart(Lengths(shards), 1) /\ Lengths(shards)[1] \in Nat
  <2>1. /\ Len(shards) = 1 /\ DOMAIN shards = 1..1
        /\ \A i \in 1..1 : /\ ModelHeld(shards[i]) /\ Lengths(shards)[i] \in Nat
                           /\ VirtualStart(shards, i) = StartOfPart(Lengths(shards), i)
    BY AddressSpace
  <2>2. 1 \in 1..1
    OBVIOUS
  <2> QED BY <2>1, <2>2, Zenon
<1>2. VirtualStart(shards, 1) = 0
  <2> DEFINE length == Lengths(shards)
  <2>1. \A j \in 1..1 : length[j] \in Nat
    BY <1>1
  <2> HIDE DEF length
  <2>2. StartOfPart(length, 1) = 0
    BY <2>1, PartsStart
  <2> QED BY <1>1, <2>2 DEF length
<1>3. PhysicalStart(shards, 1) = 0
  BY <1>1 DEF PhysicalStart, IsSharded
<1>4. t.at \in Nat /\ t.bytes \in Nat \union {Absent} /\ t.byte0 = <<m.name, t.at>> /\ t.elements \in Nat
  BY <1>1 DEF ModelHeld, TensorHeld
<1>5. ASSUME NEW j \in 0..(t.bytes - 1), NEW b, IsByte(shards, t.at + j, b)
      PROVE  b = <<t.byte0[1], t.byte0[2] + j>>
  <2>1. b = <<shards[1].name, ((t.at + j) - VirtualStart(shards, 1)) + PhysicalStart(shards, 1)>>
    <3>1. PICK i \in DOMAIN shards :
             b = <<shards[i].name, ((t.at + j) - VirtualStart(shards, i)) + PhysicalStart(shards, i)>>
      BY <1>5 DEF IsByte
    <3>2. i = 1
      BY <1>1
    <3> QED BY <3>1, <3>2
  <2>2. j \in Int
    OBVIOUS
  <2> HIDE DEF t
  <2>3. ((t.at + j) - 0) + 0 = t.at + j
    BY <1>4, <2>2
  <2> QED BY <1>2, <1>3, <1>4, <2>1, <2>3
<1> QED BY <1>4, <1>5 DEF MergedTensor

\* The tensors of an open source.
LEMMA MergedHeld ==
    ASSUME NEW dir \in Directories, NEW shards, NEW n, ShardsHeld(dir, shards, n)
    PROVE  \E l \in Nat : /\ DOMAIN MergedTensors(shards) = 1..l
                          /\ \A i \in 1..l : MergedTensor(shards, MergedTensors(shards)[i])
<1> DEFINE length == Lengths(shards)
<1>1. /\ DOMAIN shards = 1..n /\ Len(shards) = n /\ n \in Nat \ {0}
      /\ \A i \in 1..n : /\ ModelHeld(shards[i]) /\ length[i] = VirtualLength(shards, i)
                         /\ VirtualStart(shards, i) = StartOfPart(length, i)
  BY AddressSpace
<1>2. CASE n = 1
  <2>1. MergedTensors(shards) = shards[1].tensors
    BY <1>1, <1>2 DEF MergedTensors, IsSharded
  <2>2. ModelHeld(shards[1])
    BY <1>1, <1>2
  <2>3. Len(shards[1].tensors) \in Nat /\ DOMAIN shards[1].tensors = 1..Len(shards[1].tensors)
    BY <2>2 DEF ModelHeld
  <2>4. \A k \in DOMAIN shards[1].tensors : MergedTensor(shards, shards[1].tensors[k])
    BY <1>2, TensorKept
  <2> QED BY <2>1, <2>3, <2>4
<1>3. CASE n # 1
  <2> DEFINE Moved(i, k) == [shards[i].tensors[k] EXCEPT
                                !.at = VirtualStart(shards, i) + (@ - shards[i].data_start)]
             Seqs == [i \in DOMAIN shards |-> [k \in DOMAIN shards[i].tensors |-> Moved(i, k)]]
             Counts == [i \in 1..n |-> Len(shards[i].tensors)]
             T == {t \in UNION {Range(Seqs[i]) : i \in 1..n} : TRUE}
  <2>1. n > 1 /\ IsSharded(shards)
    BY <1>1, <1>3 DEF IsSharded
  <2>2. \A j \in 1..n : length[j] = DataLength(shards[j])
    BY <1>1, <2>1 DEF VirtualLength
  <2>3. ASSUME NEW i \in 1..n
        PROVE  MapThenSumSet(LAMBDA j : DataLength(shards[j]), 1..(i - 1)) = VirtualStart(shards, i)
    <3> DEFINE D == 1..(i - 1)
    <3>1. D \in SUBSET (1..n)
      BY <1>1
    <3> HIDE DEF D, length
    <3>2. MapThenSumSet(LAMBDA j : DataLength(shards[j]), D)
            = (CHOOSE h : h = [s \in SUBSET D |-> IF s = {} THEN 0
                                 ELSE LET x == CHOOSE x \in s : TRUE IN DataLength(shards[x]) + h[s \ {x}]])[D]
      BY DEF MapThenSumSet, MapThenFoldSet
    <3>3. \A s \in SUBSET D : s # {} => length[CHOOSE x \in s : TRUE] = DataLength(shards[CHOOSE x \in s : TRUE])
      <4> TAKE s \in SUBSET D
      <4> HAVE s # {}
      <4> DEFINE x == CHOOSE x \in s : TRUE
      <4>1. x \in 1..n
        BY <3>1
      <4> HIDE DEF x
      <4>2. length[x] = DataLength(shards[x])
        BY <2>2, <4>1
      <4> QED BY <4>2 DEF x
    <3>4. ASSUME NEW h
          PROVE  h = [s \in SUBSET D |-> IF s = {} THEN 0
                        ELSE LET x == CHOOSE x \in s : TRUE IN DataLength(shards[x]) + h[s \ {x}]]
                 <=> Sums(h, length, D)
      BY <3>3 DEF Sums
    <3>5. MapThenSumSet(LAMBDA j : DataLength(shards[j]), D) = SumOver(length, D)
      BY <3>2, <3>4, SumIsFold
    <3> QED BY <1>1, <3>5, Zenon DEF D, StartOfPart
  <2>4. MergedTensors(shards) = FlattenSeq(Seqs)
    <3> DEFINE Placed(i, k) == [shards[i].tensors[k] EXCEPT
                                !.at = MapThenSumSet(LAMBDA j : DataLength(shards[j]), 1..(i - 1))
                                         + (@ - shards[i].data_start)]
               Given == [i \in DOMAIN shards |-> [k \in DOMAIN shards[i].tensors |-> Placed(i, k)]]
    <3>1. MergedTensors(shards) = FlattenSeq(Given)
      BY <2>1, Zenon DEF MergedTensors
    <3>2. ASSUME NEW i \in 1..n, NEW k \in DOMAIN shards[i].tensors PROVE Placed(i, k) = Moved(i, k)
      BY <2>3, Zenon
    <3> HIDE DEF Placed, Moved
    <3>3. \A i \in 1..n : [k \in DOMAIN shards[i].tensors |-> Placed(i, k)]
                            = [k \in DOMAIN shards[i].tensors |-> Moved(i, k)]
      BY <3>2
    <3>4. Given = Seqs
      BY <1>1, <3>3
    <3> QED BY <3>1, <3>4, Zenon
  <2> HIDE DEF Moved
  <2>5. \A i \in 1..n : Counts[i] = Len(Seqs[i]) /\ Seqs[i] \in Seq(Range(Seqs[i])) /\ Counts[i] \in Nat
                        /\ DOMAIN shards[i].tensors = 1..Counts[i]
    <3> TAKE i \in 1..n
    <3> DEFINE q == Seqs[i]
               l == Len(shards[i].tensors)
    <3>1. l \in Nat /\ DOMAIN shards[i].tensors = 1..l
      BY <1>1 DEF ModelHeld
    <3>2. q = [k \in 1..l |-> Moved(i, k)]
      BY <1>1, <3>1
    <3>3. Counts[i] = l
      OBVIOUS
    <3> HIDE DEF q, l, Seqs, Counts
    <3>4. q \in [1..l -> Range(q)]
      BY <3>2 DEF Range
    <3>5. q \in Seq(Range(q)) /\ Len(q) = l
      BY <3>1, <3>2, <3>4
    <3> QED BY <3>1, <3>3, <3>5 DEF q
  <2>6. \A i \in 1..n : \A k \in DOMAIN shards[i].tensors : Seqs[i][k] = Moved(i, k)
    BY <1>1
  <2>7. DOMAIN Seqs = 1..n /\ Seqs = [i \in 1..n |-> Seqs[i]]
    BY <1>1
  <2> HIDE DEF Seqs, Counts
  <2>8. ASSUME NEW i \in 1..n PROVE Seqs[i] \in Seq(T)
    <3>1. Seqs[i] \in Seq(Range(Seqs[i])) /\ Range(Seqs[i]) \subseteq T
      BY <2>5
    <3> HIDE DEF T
    <3> QED BY <3>1
  <2> HIDE DEF T
  <2>9. Seqs \in [1..n -> Seq(T)]
    BY <2>7, <2>8
  <2>10. MadeOf(FlattenSeq(Seqs), n, Seqs, Counts)
    <3>1. n \in Nat /\ \A i \in 1..n : Counts[i] = Len(Seqs[i])
      BY <1>1, <2>5
    <3> QED BY <2>9, <3>1, FlattenMade
  <2> DEFINE all == FlattenSeq(Seqs)
  <2>11. ASSUME NEW p \in 1..Len(all) PROVE MergedTensor(shards, all[p])
    <3>1. PICK i \in 1..n : \E k \in 1..Counts[i] : p = StartOfPart(Counts, i) + k
      BY <2>10, <2>11 DEF MadeOf
    <3>2. PICK k \in 1..Counts[i] : p = StartOfPart(Counts, i) + k
      BY <3>1
    <3>3. k \in DOMAIN shards[i].tensors
      BY <2>5
    <3>4. all[p] = Moved(i, k)
      <4>1. all[p] = Seqs[i][k]
        BY <2>10, <3>2 DEF MadeOf
      <4> QED BY <2>6, <3>3, <4>1
    <3>5. MergedTensor(shards, Moved(i, k))
      BY <2>1, <3>3, TensorMoved DEF Moved
    <3> QED BY <3>4, <3>5
  <2>12. Len(all) \in Nat /\ DOMAIN all = 1..Len(all)
    BY <2>10 DEF MadeOf
  <2> HIDE DEF all
  <2>13. MergedTensors(shards) = all
    BY <2>4 DEF all
  <2> QED BY <2>11, <2>12, <2>13
<1> QED BY <1>2, <1>3
-----------------------------------------------------------------------------
(* The open source and the reads under way *)

\* Where the source takes a cursor to be, it is there.
SourceHeld(dir, s) ==
    /\ s = [shards |-> s.shards, tensors |-> s.tensors, size |-> s.size, data_start |-> s.data_start,
            position |-> s.position, cursor |-> s.cursor, started |-> s.started]
    /\ s.tensors = MergedTensors(s.shards) /\ s.size = VirtualSize(s.shards)
    /\ \E n : /\ ShardsHeld(dir, s.shards, n)
              /\ s.position \in [1..n -> Int] /\ s.cursor \in [1..n -> Int]
              /\ \A i \in 1..n : s.position[i] # Absent => s.position[i] = s.cursor[i]

\* What a read has so far are the bytes from its start on.
ReadHeld(s, d) ==
    /\ d = [phase |-> d.phase, tensors |-> d.tensors, start |-> d.start, length |-> d.length,
            bytes |-> d.bytes, operations |-> d.operations]
    /\ d.phase # "idle"
    /\ \A i \in d.tensors : i \in DOMAIN s.tensors /\ s.tensors[i].bytes # Absent
    /\ d.start \in Nat /\ d.length \in Int /\ d.start + d.length <= s.size
    /\ d.operations \in Nat
    /\ d.bytes \in Seq(Range(d.bytes)) /\ Len(d.bytes) \in Nat /\ DOMAIN d.bytes = 1..Len(d.bytes)
    /\ \A j \in 1..Len(d.bytes) : IsByte(s.shards, d.start + (j - 1), d.bytes[j])

ReadsHeld(s, rs) ==
    /\ rs = [r \in Readers |-> rs[r]]
    /\ s = Closed => \A r \in Readers : rs[r] = NoRead
    /\ \A r \in Readers : rs[r] # NoRead => ReadHeld(s, rs[r])

OperationsOf(d) == IF d = NoRead THEN 0 ELSE d.operations

Operations(rs) == SumOver([r \in Readers |-> OperationsOf(rs[r])], Readers)

IoRecords ==
    [bytes_read : Int, read_operations : Int, read_failures : Int, seek_operations : Int,
     seeks_avoided : Int, logical_tensor_reads : Int, logical_tensor_bytes : Int,
     coalesced_ranges : Int, coalesced_gap_bytes : Int]

\* The operations of reads under way are not recorded yet; their seeks are.
IoHeld(rs, x) ==
    /\ x \in IoRecords
    /\ x.bytes_read = x.logical_tensor_bytes + x.coalesced_gap_bytes
    /\ x.read_operations + Operations(rs) <= x.seek_operations + x.seeks_avoided

SourceInv ==
    /\ directory \in Directories
    /\ source # Closed => SourceHeld(directory, source)
    /\ ReadsHeld(source, reads)
    /\ IoHeld(reads, io)

\* The invariant says what the reads promise.
LEMMA SourcePromises ==
    ASSUME SourceInv
    PROVE  TensorReadsFaithful
<1>1. SetsAgree
  BY SetsAgreeHeld DEF SourceInv
<1>2. IoProfileAddsUp
  <2> DEFINE x == io
             a == Operations(reads)
  <2>1. /\ x.bytes_read = x.logical_tensor_bytes + x.coalesced_gap_bytes
        /\ x.read_operations + a <= x.seek_operations + x.seeks_avoided
        /\ x.read_operations \in Int /\ x.seek_operations \in Int /\ x.seeks_avoided \in Int
    BY DEF SourceInv, IoHeld, IoRecords
  <2>2. a \in Nat
    <3> DEFINE f == [r \in Readers |-> OperationsOf(reads[r])]
    <3>1. ASSUME NEW r \in Readers PROVE f[r] \in Nat
      BY DEF OperationsOf, SourceInv, ReadsHeld, ReadHeld
    <3> HIDE DEF f
    <3>2. SumOver(f, Readers) \in Nat
      BY <3>1, ReadersAssumption, SumNat
    <3> QED BY <3>2 DEF f, Operations
  <2> HIDE DEF a
  <2> QED BY <2>1, <2>2 DEF IoProfileAddsUp
<1>3. ASSUME NEW r \in Readers, reads[r].phase = "reading", NEW i \in reads[r].tensors,
             NEW k \in 0..(Tensor(i).bytes - 1),
             NEW j, j = Tensor(i).at + k - reads[r].start + 1, j \in DOMAIN reads[r].bytes
      PROVE  reads[r].bytes[j] = <<Tensor(i).byte0[1], Tensor(i).byte0[2] + k>>
  <2> DEFINE d == reads[r]
             t == Tensor(i)
  <2>1. d # NoRead /\ source # Closed
    BY <1>3 DEF NoRead, SourceInv, ReadsHeld
  <2>2. ReadHeld(source, d) /\ SourceHeld(directory, source)
    BY <2>1 DEF SourceInv, ReadsHeld
  <2>3. i \in DOMAIN source.tensors
    BY <2>2 DEF ReadHeld
  <2>4. PICK n : ShardsHeld(directory, source.shards, n)
    BY <2>2 DEF SourceHeld
  <2>5. MergedTensor(source.shards, t)
    <3>1. directory \in Directories
      BY DEF SourceInv
    <3>2. PICK l \in Nat : /\ DOMAIN MergedTensors(source.shards) = 1..l
                           /\ \A x \in 1..l : MergedTensor(source.shards, MergedTensors(source.shards)[x])
      BY <2>4, <3>1, MergedHeld
    <3>3. source.tensors = MergedTensors(source.shards)
      BY <2>2 DEF SourceHeld
    <3> QED BY <2>3, <3>2, <3>3 DEF Tensor
  <2>6. IsByte(source.shards, d.start + (j - 1), d.bytes[j]) /\ d.start \in Nat
    BY <1>3, <2>2 DEF ReadHeld
  <2>7. d.start + (j - 1) = t.at + k
    <3>1. t.at \in Nat /\ k \in Int
      BY <2>5 DEF MergedTensor
    <3>2. j = ((t.at + k) - d.start) + 1
      BY <1>3, <2>6, <3>1
    <3> HIDE DEF t, d
    <3> QED BY <2>6, <3>1, <3>2
  <2> HIDE DEF d, t
  <2>8. d.bytes[j] = <<t.byte0[1], t.byte0[2] + k>>
    BY <1>3, <2>5, <2>6, <2>7 DEF MergedTensor, t
  <2> QED BY <2>8 DEF d, t
<1>4. ReadsReturnTheTensor
  BY <1>3 DEF ReadsReturnTheTensor
<1> QED BY <1>1, <1>2, <1>4 DEF TensorReadsFaithful

LEMMA SourceStarts ==
    ASSUME SourceInit
    PROVE  SourceInv
<1>1. directory \in Directories /\ source = Closed /\ reads = [r \in Readers |-> NoRead] /\ io = NoIo
  BY DEF SourceInit, SourceStart
<1>2. Operations(reads) = 0
  <2> DEFINE f == [r \in Readers |-> OperationsOf(reads[r])]
  <2>1. \A r \in Readers : f[r] = 0
    BY <1>1 DEF OperationsOf
  <2> HIDE DEF f
  <2>2. SumOver(f, Readers) = SumOver(f, Readers) + SumOver(f, Readers) /\ SumOver(f, Readers) \in Int
    <3>1. SumOver(f, Readers) \in Int
      BY <2>1, ReadersAssumption, SumInt
    <3>2. SumOver(f, Readers) = SumOver(f, Readers) + SumOver(f, Readers)
      BY <2>1, ReadersAssumption, SumPlus
    <3> QED BY <3>1, <3>2
  <2> DEFINE total == SumOver(f, Readers)
  <2>3. total = total + total /\ total \in Int
    BY <2>2
  <2> HIDE DEF total
  <2>4. total = 0
    BY <2>3
  <2> QED BY <2>4, Zenon DEF total, f, Operations
<1>3. io \in IoRecords
  BY <1>1 DEF IoRecords, NoIo
<1>4. IoHeld(reads, io)
  BY <1>1, <1>2, <1>3 DEF IoHeld, NoIo
<1>5. ReadsHeld(source, reads)
  BY <1>1 DEF ReadsHeld
<1> QED BY <1>1, <1>4, <1>5 DEF SourceInv

\* One reader's operations change.
LEMMA OperationsChange ==
    ASSUME NEW rs, rs = [r \in Readers |-> rs[r]], \A r \in Readers : OperationsOf(rs[r]) \in Nat,
           NEW r \in Readers, NEW d, OperationsOf(d) \in Nat
    PROVE  /\ Operations(rs) \in Int /\ Operations([rs EXCEPT ![r] = d]) \in Int
           /\ Operations([rs EXCEPT ![r] = d]) = (Operations(rs) - OperationsOf(rs[r])) + OperationsOf(d)
<1> DEFINE f == [q \in Readers |-> OperationsOf(rs[q])]
           new == [rs EXCEPT ![r] = d]
           g == [q \in Readers |-> OperationsOf(new[q])]
           R == Readers \ {r}
<1>1. new[r] = d /\ \A q \in R : new[q] = rs[q]
  OBVIOUS
<1> HIDE DEF new
<1>2. /\ \A q \in Readers : f[q] = OperationsOf(rs[q])
      /\ \A q \in Readers : g[q] = OperationsOf(new[q])
  OBVIOUS
<1>3. \A q \in Readers : OperationsOf(rs[q]) \in Nat /\ OperationsOf(new[q]) \in Nat
  BY <1>1
<1> HIDE DEF f, g
<1>4. /\ \A q \in Readers : f[q] \in Int
      /\ \A q \in Readers : g[q] \in Int
      /\ \A q \in R : f[q] = g[q]
  BY <1>1, <1>2, <1>3
<1>5. IsFiniteSet(Readers) /\ IsFiniteSet(R)
  BY ReadersAssumption, FS_Subset
<1>6. SumOver(f, Readers) = f[r] + SumOver(f, R)
  BY <1>4, <1>5, SumRemove
<1>7. SumOver(g, Readers) = g[r] + SumOver(g, R)
  BY <1>4, <1>5, SumRemove
<1>8. SumOver(f, R) = SumOver(g, R)
  BY <1>4, <1>5, SumSame
<1>9. SumOver(f, R) \in Int /\ SumOver(f, Readers) \in Int /\ SumOver(g, Readers) \in Int
  BY <1>4, <1>5, SumInt
<1>10. f[r] = OperationsOf(rs[r]) /\ g[r] = OperationsOf(d)
  BY <1>1, <1>2
<1>11. Operations(rs) = SumOver(f, Readers) /\ Operations(new) = SumOver(g, Readers)
  BY Zenon DEF Operations, f, g
<1>12. Operations(new) = (Operations(rs) - OperationsOf(rs[r])) + OperationsOf(d)
  <2> DEFINE a == SumOver(f, Readers)
             b == SumOver(g, Readers)
             c == SumOver(f, R)
             x == OperationsOf(rs[r])
             y == OperationsOf(d)
  <2>1. a = x + c /\ b = y + c /\ a \in Int /\ b \in Int /\ c \in Int /\ x \in Int /\ y \in Int
    BY <1>6, <1>7, <1>8, <1>9, <1>10
  <2> HIDE DEF a, b, c, x, y
  <2>2. b = (a - x) + y
    BY <2>1
  <2> QED BY <1>11, <2>2 DEF a, b, x, y
<1> QED BY <1>9, <1>11, <1>12 DEF new

LEMMA OperationsCount ==
    ASSUME NEW s, NEW rs, ReadsHeld(s, rs)
    PROVE  \A r \in Readers : OperationsOf(rs[r]) \in Nat
BY DEF ReadsHeld, ReadHeld, OperationsOf

\* What a read is depends on the set and its address space only.
LEMMA ReadsKept ==
    ASSUME NEW s, NEW t, t.shards = s.shards, t.tensors = s.tensors, t.size = s.size,
           NEW d, ReadHeld(s, d)
    PROVE  ReadHeld(t, d)
BY DEF ReadHeld

\* Reads that were under way stay as they are, one goes on.
LEMMA OneReadGoesOn ==
    ASSUME NEW s, NEW rs, ReadsHeld(s, rs), s # Closed,
           NEW t, t.shards = s.shards, t.tensors = s.tensors, t.size = s.size, t # Closed,
           NEW r \in Readers, NEW d, d = NoRead \/ ReadHeld(s, d)
    PROVE  ReadsHeld(t, [rs EXCEPT ![r] = d])
<1> DEFINE new == [rs EXCEPT ![r] = d]
<1>1. rs = [q \in Readers |-> rs[q]]
  BY DEF ReadsHeld
<1>2. new = [q \in Readers |-> new[q]] /\ new[r] = d /\ \A q \in Readers : q # r => new[q] = rs[q]
  BY <1>1
<1> HIDE DEF new
<1>3. ASSUME NEW q \in Readers, new[q] # NoRead PROVE ReadHeld(t, new[q])
  <2>1. ReadHeld(s, new[q])
    BY <1>2, <1>3 DEF ReadsHeld
  <2> QED BY <2>1, ReadsKept
<1>4. ReadsHeld(t, new)
  BY <1>2, <1>3 DEF ReadsHeld
<1> QED BY <1>4 DEF new
-----------------------------------------------------------------------------
(* Each step *)

LEMMA OpenKeeps ==
    ASSUME SourceInv, NEW shards, Open(shards), NEW n, ShardsHeld(directory, shards, n)
    PROVE  SourceInv'
<1>1. /\ source = Closed /\ source' = SourceOf(shards)
      /\ directory' = directory /\ reads' = reads /\ io' = io
  BY DEF Open
<1>2. SourceHeld(directory, SourceOf(shards)) /\ SourceOf(shards) # Closed
  <2> DEFINE s == SourceOf(shards)
  <2>1. DOMAIN shards = 1..n /\ n \in Nat \ {0}
    BY DEF ShardsHeld
  <2>2. /\ s.shards = shards /\ s.tensors = MergedTensors(shards) /\ s.size = VirtualSize(shards)
        /\ s.position = [i \in 1..n |-> 0] /\ s.cursor = [i \in 1..n |-> 0]
        /\ s = [shards |-> s.shards, tensors |-> s.tensors, size |-> s.size, data_start |-> s.data_start,
                position |-> s.position, cursor |-> s.cursor, started |-> s.started]
    BY <2>1 DEF SourceOf
  <2> HIDE DEF s
  <2>3. s.position \in [1..n -> Int] /\ s.cursor \in [1..n -> Int] /\ \A i \in 1..n : s.position[i] = s.cursor[i]
    BY <2>2
  <2>4. SourceHeld(directory, s)
    BY <2>2, <2>3 DEF SourceHeld
  <2>5. shards # <<>>
    BY DEF Open
  <2>6. s # Closed
    BY <2>2, <2>5 DEF Closed
  <2> QED BY <2>4, <2>6 DEF s
<1>3. ReadsHeld(source', reads)
  BY <1>1, <1>2 DEF SourceInv, ReadsHeld
<1> QED BY <1>1, <1>2, <1>3 DEF SourceInv

LEMMA ResetKeeps ==
    ASSUME SourceInv, ResetIoProfile
    PROVE  SourceInv'
<1>1. /\ \A r \in Readers : reads[r] = NoRead
      /\ io' = NoIo /\ directory' = directory /\ source' = source /\ reads' = reads
  BY DEF ResetIoProfile
<1>2. Operations(reads) = 0
  <2> DEFINE f == [r \in Readers |-> OperationsOf(reads[r])]
  <2>1. \A r \in Readers : f[r] = 0
    BY <1>1 DEF OperationsOf
  <2> HIDE DEF f
  <2> DEFINE total == SumOver(f, Readers)
  <2>2. total \in Int
    BY <2>1, ReadersAssumption, SumInt
  <2>3. total = total + total
    BY <2>1, ReadersAssumption, SumPlus
  <2> HIDE DEF total
  <2>4. total = 0
    BY <2>2, <2>3
  <2> QED BY <2>4, Zenon DEF total, f, Operations
<1>3. IoHeld(reads, NoIo)
  <2>1. NoIo \in IoRecords
    BY DEF IoRecords, NoIo
  <2> QED BY <1>2, <2>1 DEF IoHeld, NoIo
<1> QED BY <1>1, <1>3 DEF SourceInv

LEMMA BeginKeeps ==
    ASSUME SourceInv, NEW r \in Readers, NEW tensors, NEW start \in Nat, NEW length \in Int,
           \A i \in tensors : i \in DOMAIN source.tensors /\ source.tensors[i].bytes # Absent,
           BeginRead(r, tensors, start, length)
    PROVE  SourceInv'
<1> DEFINE d == [phase |-> "reading", tensors |-> tensors, start |-> start,
                 length |-> length, bytes |-> <<>>, operations |-> 0]
           s == [source EXCEPT !.started = @ + 1]
<1>1. /\ source # Closed /\ reads[r] = NoRead /\ start + length <= source.size
      /\ source' = s /\ reads' = [reads EXCEPT ![r] = d]
      /\ directory' = directory /\ io' = io
  BY DEF BeginRead, InBounds
<1>2. SourceHeld(directory, source) /\ ReadsHeld(source, reads) /\ IoHeld(reads, io)
  BY <1>1 DEF SourceInv
<1>3. /\ s.shards = source.shards /\ s.tensors = source.tensors /\ s.size = source.size
      /\ s.position = source.position /\ s.cursor = source.cursor
      /\ s = [shards |-> s.shards, tensors |-> s.tensors, size |-> s.size, data_start |-> s.data_start,
              position |-> s.position, cursor |-> s.cursor, started |-> s.started]
  BY <1>2 DEF SourceHeld
<1>4. ReadHeld(source, d) /\ OperationsOf(d) = 0
  <2>1. <<>> \in Seq(Range(<<>>)) /\ Len(<<>>) = 0 /\ DOMAIN <<>> = 1..0 /\ 1..0 = {}
    OBVIOUS
  <2> QED BY <1>1, <2>1 DEF ReadHeld, OperationsOf
<1> HIDE DEF s, d
<1>5. SourceHeld(directory, s)
  BY <1>2, <1>3 DEF SourceHeld
<1>6. s # Closed
  <2>1. DOMAIN source.shards # {}
    <3>1. PICK n : ShardsHeld(directory, source.shards, n)
      BY <1>2 DEF SourceHeld
    <3> QED BY <3>1 DEF ShardsHeld
  <2>2. source.shards # <<>>
    BY <2>1
  <2> QED BY <1>3, <2>2 DEF Closed
<1>7. ReadsHeld(s, [reads EXCEPT ![r] = d])
  BY <1>1, <1>2, <1>3, <1>4, <1>6, OneReadGoesOn
<1>8. Operations([reads EXCEPT ![r] = d]) = Operations(reads)
  <2>1. reads = [q \in Readers |-> reads[q]] /\ OperationsOf(reads[r]) = 0
    BY <1>1, <1>2 DEF ReadsHeld, OperationsOf
  <2>2. \A q \in Readers : OperationsOf(reads[q]) \in Nat
    BY <1>2, OperationsCount
  <2>3. /\ Operations(reads) \in Int
        /\ Operations([reads EXCEPT ![r] = d]) = (Operations(reads) - 0) + 0
    BY <1>4, <2>1, <2>2, OperationsChange
  <2> QED BY <2>3
<1>9. IoHeld([reads EXCEPT ![r] = d], io)
  BY <1>2, <1>8 DEF IoHeld
<1> QED BY <1>1, <1>5, <1>7, <1>9 DEF SourceInv

\* The tensors of the open source.
LEMMA OpenTensors ==
    ASSUME SourceInv, source # Closed
    PROVE  \E l \in Nat : /\ DOMAIN source.tensors = 1..l
                          /\ \A i \in 1..l : MergedTensor(source.shards, source.tensors[i])
<1>1. SourceHeld(directory, source) /\ directory \in Directories
  BY DEF SourceInv
<1>2. PICK n : ShardsHeld(directory, source.shards, n)
  BY <1>1 DEF SourceHeld
<1>3. \E l \in Nat : /\ DOMAIN MergedTensors(source.shards) = 1..l
                     /\ \A i \in 1..l : MergedTensor(source.shards, MergedTensors(source.shards)[i])
  BY <1>1, <1>2, MergedHeld
<1>4. source.tensors = MergedTensors(source.shards)
  BY <1>1 DEF SourceHeld
<1> QED BY <1>3, <1>4, Zenon

\* The bytes that some tensors have.
LEMMA LogicalNumber ==
    ASSUME SourceInv, source # Closed, NEW tensors, tensors \subseteq DOMAIN source.tensors,
           \A i \in tensors : source.tensors[i].bytes # Absent
    PROVE  LogicalBytes(tensors) \in Nat
<1> DEFINE f == [i \in tensors |-> source.tensors[i].bytes]
<1>1. PICK l \in Nat : /\ DOMAIN source.tensors = 1..l
                       /\ \A i \in 1..l : MergedTensor(source.shards, source.tensors[i])
  BY OpenTensors
<1>2. IsFiniteSet(tensors)
  <2>1. IsFiniteSet(1..l) /\ tensors \in SUBSET (1..l)
    BY <1>1, FS_Interval
  <2> QED BY <2>1, FS_Subset
<1>3. \A i \in tensors : f[i] = Tensor(i).bytes /\ f[i] \in Nat
  <2> TAKE i \in tensors
  <2>1. MergedTensor(source.shards, source.tensors[i])
    BY <1>1
  <2>2. source.tensors[i].bytes \in Nat
    BY <2>1 DEF MergedTensor
  <2> QED BY <2>2 DEF Tensor
<1> HIDE DEF f
<1>4. LogicalBytes(tensors)
        = (CHOOSE h : h = [s \in SUBSET tensors |-> IF s = {} THEN 0
                             ELSE LET x == CHOOSE x \in s : TRUE IN Tensor(x).bytes + h[s \ {x}]])[tensors]
  BY DEF LogicalBytes, MapThenSumSet, MapThenFoldSet
<1>5. \A s \in SUBSET tensors : s # {} => f[CHOOSE x \in s : TRUE] = Tensor(CHOOSE x \in s : TRUE).bytes
  <2> TAKE s \in SUBSET tensors
  <2> HAVE s # {}
  <2> DEFINE x == CHOOSE x \in s : TRUE
  <2>1. x \in tensors
    OBVIOUS
  <2> HIDE DEF x
  <2>2. f[x] = Tensor(x).bytes
    BY <1>3, <2>1
  <2> QED BY <2>2 DEF x
<1>6. ASSUME NEW h
      PROVE  h = [s \in SUBSET tensors |-> IF s = {} THEN 0
                    ELSE LET x == CHOOSE x \in s : TRUE IN Tensor(x).bytes + h[s \ {x}]]
             <=> Sums(h, f, tensors)
  BY <1>5 DEF Sums
<1>7. LogicalBytes(tensors) = SumOver(f, tensors)
  BY <1>4, <1>6, SumIsFold
<1> QED BY <1>2, <1>3, <1>7, SumNat

\* The first and the last position of a span.
LEMMA SpanNumbers ==
    ASSUME SourceInv, source # Closed, NEW tensors \in Spans
    PROVE  /\ StartOf(tensors) \in Nat /\ EndOf(tensors) \in Nat
           /\ \A i \in tensors : i \in DOMAIN source.tensors /\ source.tensors[i].bytes # Absent
<1> DEFINE S == {Tensor(i).at : i \in tensors}
           E == {Tensor(i).at + Tensor(i).bytes : i \in tensors}
<1>1. PICK l \in Nat : /\ DOMAIN source.tensors = 1..l
                       /\ \A i \in 1..l : MergedTensor(source.shards, source.tensors[i])
  BY OpenTensors
<1>2. /\ Cardinality(tensors) = 2
      /\ \A i \in tensors : i \in DOMAIN source.tensors /\ source.tensors[i].bytes # Absent
  BY DEF Spans, Tensor
<1>3. IsFiniteSet(tensors) /\ tensors # {}
  <2>1. IsFiniteSet(1..l) /\ tensors \in SUBSET (1..l)
    <3>1. tensors \in SUBSET (1..l)
      BY <1>1, <1>2
    <3>2. l \in Int /\ 1 \in Int
      OBVIOUS
    <3>3. IsFiniteSet(1..l)
      BY <3>2, FS_Interval
    <3> QED BY <3>1, <3>3
  <2>2. Cardinality({}) = 0
    BY FS_EmptySet
  <2>3. IsFiniteSet(tensors)
    BY <2>1, FS_Subset
  <2>4. tensors # {}
    BY <1>2, <2>2
  <2> QED BY <2>3, <2>4
<1>4. \A i \in tensors : Tensor(i).at \in Nat /\ Tensor(i).bytes \in Nat
  <2> TAKE i \in tensors
  <2>1. MergedTensor(source.shards, source.tensors[i])
    BY <1>1, <1>2
  <2> QED BY <1>2, <2>1 DEF MergedTensor, Tensor
<1>5. S \subseteq Nat /\ S # {} /\ E \subseteq Nat /\ E # {}
  BY <1>3, <1>4
<1>6. IsFiniteSet(E)
  <2> DEFINE f == [i \in tensors |-> Tensor(i).at + Tensor(i).bytes]
  <2>1. f \in Surjection(tensors, E)
    BY DEF Surjection
  <2> HIDE DEF f, E
  <2> QED BY <1>3, <2>1, FS_Surjection
<1>7. StartOf(tensors) = Min(S) /\ EndOf(tensors) = Max(E)
  BY DEF StartOf, EndOf
<1> HIDE DEF S, E
<1>8. Min(S) \in S
  <2>1. \E m \in S : \A x \in S : m <= x
    BY <1>5, LeastNumber
  <2> QED BY <2>1 DEF Min
<1>9. Max(E) \in E
  BY <1>5, <1>6, GreatestOf
<1> QED BY <1>2, <1>5, <1>7, <1>8, <1>9

LEMMA ReadsBegin ==
    ASSUME SourceInv, source # Closed, NEW r \in Readers,
           \/ \E i \in DOMAIN source.tensors :
                 ReadTensor(r, i) \/ ReadTensorRange(r, i, 1, 1) \/ ReadF32TensorRange(r, i, 1, 1)
           \/ \E tensors \in Spans :
                 ReadCoalescedTensorRange(r, tensors, StartOf(tensors), EndOf(tensors) - StartOf(tensors))
    PROVE  SourceInv'
<1>1. ASSUME NEW i \in DOMAIN source.tensors,
             ReadTensor(r, i) \/ ReadTensorRange(r, i, 1, 1) \/ ReadF32TensorRange(r, i, 1, 1)
      PROVE  SourceInv'
  <2> DEFINE t == Tensor(i)
  <2>1. t.at \in Nat /\ t.bytes \in Nat \union {Absent} /\ t.elements \in Nat /\ t = source.tensors[i]
    <3>1. PICK l \in Nat : /\ DOMAIN source.tensors = 1..l
                           /\ \A x \in 1..l : MergedTensor(source.shards, source.tensors[x])
      BY OpenTensors
    <3> QED BY <3>1 DEF MergedTensor, Tensor
  <2> HIDE DEF t
  <2>2. ElementBytes \in Nat /\ 1 * ElementBytes \in Nat
    BY ReadersAssumption
  <2>3. CASE ReadTensor(r, i)
    <3>1. t.bytes # Absent /\ BeginRead(r, {i}, t.at, t.bytes)
      BY <2>3 DEF ReadTensor, t
    <3>2. t.bytes \in Int /\ \A x \in {i} : x \in DOMAIN source.tensors /\ source.tensors[x].bytes # Absent
      BY <2>1, <3>1
    <3> QED BY <2>1, <3>1, <3>2, BeginKeeps
  <2>4. CASE ReadTensorRange(r, i, 1, 1)
    <3>1. t.bytes # Absent /\ BeginRead(r, {i}, t.at + 1, 1)
      BY <2>4 DEF ReadTensorRange, t
    <3>2. t.at + 1 \in Nat /\ 1 \in Int
          /\ \A x \in {i} : x \in DOMAIN source.tensors /\ source.tensors[x].bytes # Absent
      BY <2>1, <3>1
    <3> QED BY <3>1, <3>2, BeginKeeps
  <2>5. CASE ReadF32TensorRange(r, i, 1, 1)
    <3> DEFINE w == 1 * ElementBytes
    <3>1. t.bytes = t.elements * ElementBytes /\ 1 + 1 <= t.elements /\ BeginRead(r, {i}, t.at + w, w)
      BY <2>5 DEF ReadF32TensorRange, t
    <3>2. t.bytes # Absent
      <4> DEFINE c == t.elements
                 e == ElementBytes
      <4>1. c \in Nat /\ e \in Nat
        BY <2>1, <2>2
      <4> HIDE DEF c, e
      <4>2. c * e \in Nat
        BY <4>1
      <4> QED BY <3>1, <4>2 DEF c, e, Absent
    <3> HIDE DEF w
    <3>3. w \in Nat /\ w \in Int /\ t.at + w \in Nat
      <4>1. w \in Nat
        BY <2>2 DEF w
      <4> QED BY <2>1, <4>1
    <3>4. \A x \in {i} : x \in DOMAIN source.tensors /\ source.tensors[x].bytes # Absent
      BY <2>1, <3>2
    <3> QED BY <3>1, <3>3, <3>4, BeginKeeps
  <2> QED BY <1>1, <2>3, <2>4, <2>5
<1>2. ASSUME NEW tensors \in Spans,
             ReadCoalescedTensorRange(r, tensors, StartOf(tensors), EndOf(tensors) - StartOf(tensors))
      PROVE  SourceInv'
  <2> DEFINE a == StartOf(tensors)
             b == EndOf(tensors)
  <2>1. /\ a \in Nat /\ b \in Nat
        /\ \A i \in tensors : i \in DOMAIN source.tensors /\ source.tensors[i].bytes # Absent
    BY SpanNumbers
  <2>2. BeginRead(r, tensors, a, b - a)
    BY <1>2 DEF ReadCoalescedTensorRange
  <2> HIDE DEF a, b
  <2>3. b - a \in Int
    BY <2>1
  <2> QED BY <2>1, <2>2, <2>3, BeginKeeps
<1> QED BY <1>1, <1>2

\* The next piece of a read lies in one shard.
LEMMA PieceHeld ==
    ASSUME SourceInv, NEW r \in Readers, InProgress(r)
    PROVE  /\ source # Closed /\ reads[r] # NoRead
           /\ SourceHeld(directory, source) /\ ReadHeld(source, reads[r])
           /\ \E v \in Nat :
                 LET p == Piece(r)
                     shards == source.shards
                 IN  /\ v = reads[r].start + Len(reads[r].bytes)
                     /\ p.shard \in DOMAIN shards /\ p.length \in Nat /\ p.physical \in Nat
                     /\ VirtualStart(shards, p.shard) \in Nat /\ VirtualLength(shards, p.shard) \in Nat
                     /\ PhysicalStart(shards, p.shard) \in Nat
                     /\ VirtualStart(shards, p.shard) <= v
                     /\ v + p.length <= VirtualStart(shards, p.shard) + VirtualLength(shards, p.shard)
                     /\ p.physical = (v - VirtualStart(shards, p.shard)) + PhysicalStart(shards, p.shard)
<1> DEFINE d == reads[r]
           shards == source.shards
           length == Lengths(shards)
           v == d.start + Len(d.bytes)
           x == ShardAt(v)
           at == VirtualStart(shards, x)
           l == VirtualLength(shards, x)
           f == PhysicalStart(shards, x)
           end == at + l
           rest == d.length - Len(d.bytes)
           p == Piece(r)
<1>1. d # NoRead /\ source # Closed /\ Len(d.bytes) < d.length
  <2>1. d.phase = "reading" /\ Len(d.bytes) < d.length
    BY DEF InProgress
  <2>2. d # NoRead
    BY <2>1 DEF NoRead
  <2> HIDE DEF d
  <2>3. source # Closed
    BY <2>2 DEF SourceInv, ReadsHeld, d
  <2> QED BY <2>1, <2>2, <2>3
<1>2. SourceHeld(directory, source) /\ ReadHeld(source, d) /\ directory \in Directories
  BY <1>1 DEF SourceInv, ReadsHeld
<1>3. PICK n : ShardsHeld(directory, shards, n)
  BY <1>2 DEF SourceHeld
<1>4. /\ DOMAIN shards = 1..n /\ n \in Nat \ {0}
      /\ \A i \in 1..n : /\ length[i] \in Nat /\ length[i] = VirtualLength(shards, i)
                         /\ PhysicalStart(shards, i) \in Nat
                         /\ VirtualStart(shards, i) \in Nat
                         /\ VirtualStart(shards, i) = StartOfPart(length, i)
      /\ VirtualSize(shards) = StartOfPart(length, n + 1)
  BY <1>2, <1>3, AddressSpace
<1>5. /\ d.start \in Nat /\ d.length \in Int /\ d.start + d.length <= source.size /\ Len(d.bytes) \in Nat
      /\ source.size = VirtualSize(shards)
  BY <1>2 DEF ReadHeld, SourceHeld
<1> HIDE DEF d, shards, length
<1>6. VirtualSize(shards) \in Nat
  <2>1. n + 1 \in 1..(n + 1) /\ n \in Nat /\ \A i \in 1..n : length[i] \in Nat
    BY <1>4
  <2>2. StartOfPart(length, n + 1) \in Nat
    BY <2>1, PartsStart
  <2> QED BY <1>4, <2>2
<1>7. v \in Nat /\ v < StartOfPart(length, n + 1) /\ rest \in Nat /\ rest > 0
  <2> DEFINE a == Len(d.bytes)
             b == StartOfPart(length, n + 1)
  <2>1. a \in Nat /\ a < d.length /\ d.start + d.length <= b /\ b \in Nat
    BY <1>1, <1>4, <1>5, <1>6, Zenon
  <2> HIDE DEF a, b
  <2>2. d.start + a \in Nat /\ d.start + a < b /\ d.length - a \in Nat /\ d.length - a > 0
    BY <1>5, <2>1
  <2> QED BY <2>2 DEF a, b
<1> HIDE DEF v
<1>8. \E i \in 1..n : StartOfPart(length, i) <= v /\ v < StartOfPart(length, i) + length[i]
  <2>1. n \in Nat /\ \A i \in 1..n : length[i] \in Nat
    BY <1>4
  <2> QED BY <1>7, <2>1, PartAt
<1>9. \E i \in DOMAIN shards : v >= VirtualStart(shards, i) /\ v < VirtualStart(shards, i) + VirtualLength(shards, i)
  <2>1. PICK i \in 1..n : StartOfPart(length, i) <= v /\ v < StartOfPart(length, i) + length[i]
    BY <1>8
  <2>2. VirtualStart(shards, i) <= v /\ v < VirtualStart(shards, i) + VirtualLength(shards, i)
        /\ VirtualStart(shards, i) \in Nat
    BY <1>4, <2>1
  <2>3. v >= VirtualStart(shards, i)
    BY <1>7, <2>2
  <2> QED BY <1>4, <2>2, <2>3
<1>10. x \in DOMAIN shards /\ v >= at /\ v < at + l
  BY <1>9, Zenon DEF ShardAt, shards
<1> HIDE DEF x
<1>11. at \in Nat /\ l \in Nat /\ f \in Nat
  <2>1. x \in 1..n
    BY <1>4, <1>10
  <2>2. VirtualStart(shards, x) \in Nat /\ VirtualLength(shards, x) \in Nat /\ PhysicalStart(shards, x) \in Nat
    BY <1>4, <2>1
  <2> QED BY <2>2
<1>12. p = [shard |-> x, length |-> Lesser(end - v, rest), physical |-> v - at + f]
  BY Zenon DEF Piece, x, v, d, shards
<1> HIDE DEF p
<1>13. p.shard = x /\ p.length = Lesser(end - v, rest) /\ p.physical = (v - at) + f
  BY <1>12
<1> DEFINE k == Lesser(end - v, rest)
<1> HIDE DEF at, l, f, rest
<1>14. k \in Nat /\ v + k <= at + l /\ at <= v /\ (v - at) + f \in Nat
  BY <1>7, <1>10, <1>11 DEF Lesser
<1> HIDE DEF end
<1>15. /\ p.shard \in DOMAIN shards /\ p.length \in Nat /\ p.physical \in Nat
       /\ VirtualStart(shards, p.shard) = at /\ VirtualLength(shards, p.shard) = l
       /\ PhysicalStart(shards, p.shard) = f
       /\ v + p.length <= at + l /\ p.physical = (v - at) + f
  BY <1>10, <1>13, <1>14, Zenon DEF at, l, f
<1> HIDE DEF k
<1>16. v \in Nat /\ at <= v /\ at \in Nat /\ l \in Nat /\ f \in Nat
  BY <1>7, <1>11, <1>14
<1> QED BY <1>1, <1>2, <1>15, <1>16, Zenon DEF v, p, d, shards

\* The seek that there is, or is not, before a piece.
LEMMA SeekCounted ==
    ASSUME NEW rs, IoHeld(rs, io), NEW p, NEW x, x = WithSeek(p)
    PROVE  /\ x \in IoRecords
           /\ x.bytes_read = x.logical_tensor_bytes + x.coalesced_gap_bytes
           /\ x.read_operations = io.read_operations
           /\ x.seek_operations + x.seeks_avoided = (io.seek_operations + io.seeks_avoided) + 1
<1>1. io \in IoRecords /\ io.bytes_read = io.logical_tensor_bytes + io.coalesced_gap_bytes
  BY DEF IoHeld
<1>2. CASE Positioned(p)
  <2>1. x = [io EXCEPT !.seeks_avoided = @ + 1]
    BY <1>2 DEF WithSeek
  <2> QED BY <1>1, <2>1 DEF IoRecords
<1>3. CASE ~Positioned(p)
  <2>1. x = [io EXCEPT !.seek_operations = @ + 1]
    BY <1>3 DEF WithSeek
  <2> QED BY <1>1, <2>1 DEF IoRecords
<1> QED BY <1>2, <1>3

\* The cursor of one shard moves.
WithCursor(s, i, p, c) == [s EXCEPT !.position[i] = p, !.cursor[i] = c]

LEMMA CursorMoved ==
    ASSUME NEW dir, NEW s, SourceHeld(dir, s), NEW i \in DOMAIN s.shards,
           NEW p \in Int, NEW c \in Int, p # Absent => p = c,
           NEW t, t = WithCursor(s, i, p, c)
    PROVE  /\ SourceHeld(dir, t) /\ t # Closed
           /\ t.shards = s.shards /\ t.tensors = s.tensors /\ t.size = s.size
<1>1. PICK n : /\ ShardsHeld(dir, s.shards, n)
               /\ s.position \in [1..n -> Int] /\ s.cursor \in [1..n -> Int]
               /\ \A j \in 1..n : s.position[j] # Absent => s.position[j] = s.cursor[j]
  BY DEF SourceHeld
<1>2. i \in 1..n /\ s.shards # <<>>
  BY <1>1 DEF ShardsHeld
<1>3. s = [shards |-> s.shards, tensors |-> s.tensors, size |-> s.size, data_start |-> s.data_start,
           position |-> s.position, cursor |-> s.cursor, started |-> s.started]
  BY DEF SourceHeld
<1>4. /\ t.shards = s.shards /\ t.tensors = s.tensors /\ t.size = s.size
      /\ t.position = [s.position EXCEPT ![i] = p] /\ t.cursor = [s.cursor EXCEPT ![i] = c]
      /\ t = [shards |-> t.shards, tensors |-> t.tensors, size |-> t.size, data_start |-> t.data_start,
              position |-> t.position, cursor |-> t.cursor, started |-> t.started]
  <2>1. t = [s EXCEPT !.position = [s.position EXCEPT ![i] = p], !.cursor = [s.cursor EXCEPT ![i] = c]]
    BY <1>3 DEF WithCursor
  <2> QED BY <1>3, <2>1
<1>5. /\ t.position \in [1..n -> Int] /\ t.cursor \in [1..n -> Int]
      /\ \A j \in 1..n : t.position[j] # Absent => t.position[j] = t.cursor[j]
  BY <1>1, <1>2, <1>4
<1>6. SourceHeld(dir, t)
  <2>1. t.tensors = MergedTensors(t.shards) /\ t.size = VirtualSize(t.shards)
    BY <1>4 DEF SourceHeld
  <2> QED BY <1>1, <1>4, <1>5, <2>1 DEF SourceHeld
<1>7. t # Closed
  BY <1>2, <1>4 DEF Closed
<1> QED BY <1>4, <1>6, <1>7

\* all is b, m bytes long, with l more.
Extends(all, b, m, more, l) ==
    /\ Len(all) = m + l /\ Len(all) \in Nat /\ DOMAIN all = 1..Len(all) /\ all \in Seq(Range(all))
    /\ \A k \in 1..m : all[k] = b[k]
    /\ \A k \in 1..l : all[m + k] = more[k]

LEMMA Lengthened ==
    ASSUME NEW b, b \in Seq(Range(b)), NEW m, m = Len(b), NEW l \in Nat,
           NEW more, more \in [1..l -> Range(more)]
    PROVE  Extends(b \o more, b, m, more, l)
<1> DEFINE T == Range(b) \union Range(more)
           all == b \o more
<1>1. more \in Seq(Range(more)) /\ Len(more) = l
  <2>1. DOMAIN more = 1..l
    OBVIOUS
  <2>3. more \in Seq(Range(more))
    OBVIOUS
  <2>4. Len(more) = l
    BY <2>1, <2>3, LenProperties
  <2> QED BY <2>3, <2>4
<1>2. b \in Seq(T) /\ more \in Seq(T)
  <2>1. Range(b) \subseteq T /\ Range(more) \subseteq T
    OBVIOUS
  <2> HIDE DEF T
  <2>2. b \in Seq(T)
    BY <2>1
  <2>3. more \in Seq(T)
    BY <1>1, <2>1
  <2> QED BY <2>2, <2>3
<1> HIDE DEF T
<1>3. /\ all \in Seq(T) /\ Len(all) = m + l
      /\ \A k \in 1..m : all[k] = b[k]
      /\ \A k \in 1..l : all[m + k] = more[k]
  <2>1. l = Len(more)
    BY <1>1
  <2> QED BY <1>2, <2>1, TwoPlaces
<1> HIDE DEF all
<1>4. Len(all) \in Nat /\ DOMAIN all = 1..Len(all)
  BY <1>3, LenProperties
<1>5. all \in [1..Len(all) -> Range(all)]
  <2>1. all = [k \in 1..Len(all) |-> all[k]]
    BY <1>3, LenProperties
  <2> QED BY <1>4, <2>1 DEF Range
<1>6. all \in Seq(Range(all))
  BY <1>4, <1>5
<1>7. Extends(all, b, m, more, l)
  BY <1>3, <1>4, <1>6 DEF Extends
<1> QED BY <1>7 DEF all

\* A read has some more bytes.
Grown(d, more) == [d EXCEPT !.bytes = @ \o more, !.operations = @ + 1]

LEMMA ReadGrows ==
    ASSUME NEW s, NEW d, ReadHeld(s, d), NEW l \in Nat, NEW more, more \in [1..l -> Range(more)],
           \A k \in 1..l : IsByte(s.shards, d.start + (Len(d.bytes) + (k - 1)), more[k]),
           NEW e, e = Grown(d, more)
    PROVE  ReadHeld(s, e) /\ e # NoRead /\ OperationsOf(e) = OperationsOf(d) + 1
<1> DEFINE b == d.bytes
           o == d.operations
           m == Len(b)
           all == b \o more
<1>1. /\ d = [phase |-> d.phase, tensors |-> d.tensors, start |-> d.start, length |-> d.length,
              bytes |-> b, operations |-> o]
      /\ d.start \in Nat /\ o \in Nat /\ d.phase # "idle"
      /\ b \in Seq(Range(b)) /\ m \in Nat /\ DOMAIN b = 1..m
      /\ \A j \in 1..m : IsByte(s.shards, d.start + (j - 1), b[j])
  BY DEF ReadHeld
<1>2. e = [d EXCEPT !.bytes = all, !.operations = o + 1]
  BY Zenon DEF Grown
<1> HIDE DEF b, o, all
<1>3. /\ e.bytes = all /\ e.operations = o + 1
      /\ e.phase = d.phase /\ e.tensors = d.tensors /\ e.start = d.start /\ e.length = d.length
      /\ e = [phase |-> e.phase, tensors |-> e.tensors, start |-> e.start, length |-> e.length,
              bytes |-> e.bytes, operations |-> e.operations]
  <2> HIDE DEF m
  <2>1. e = [[phase |-> d.phase, tensors |-> d.tensors, start |-> d.start, length |-> d.length,
              bytes |-> b, operations |-> o] EXCEPT !.bytes = all, !.operations = o + 1]
    BY <1>1, <1>2, Zenon
  <2> QED BY <2>1
<1> HIDE DEF m
<1>6. /\ Len(all) = m + l /\ Len(all) \in Nat /\ DOMAIN all = 1..Len(all) /\ all \in Seq(Range(all))
      /\ \A k \in 1..m : all[k] = b[k]
      /\ \A k \in 1..l : all[m + k] = more[k]
  <2>1. b \in Seq(Range(b)) /\ m = Len(b)
    BY <1>1 DEF m
  <2>2. Extends(b \o more, b, m, more, l)
    BY <2>1, Lengthened
  <2> QED BY <2>2, Zenon DEF Extends, all
<1>7. Len(all) \in Nat /\ DOMAIN all = 1..Len(all) /\ all \in Seq(Range(all))
  BY <1>6
<1>8. ASSUME NEW j \in 1..Len(all) PROVE IsByte(s.shards, d.start + (j - 1), all[j])
  <2>1. j \in 1..(m + l)
    BY <1>6
  <2>2. CASE j <= m
    <3>1. j \in 1..m
      BY <1>1, <2>1, <2>2
    <3> QED BY <1>1, <1>6, <3>1
  <2>3. CASE ~(j <= m)
    <3> DEFINE k == j - m
    <3>1. k \in 1..l /\ m + k = j /\ m + (k - 1) = j - 1
      BY <1>1, <2>1, <2>3
    <3> HIDE DEF k
    <3>2. all[j] = more[k]
      BY <1>6, <3>1
    <3>3. IsByte(s.shards, d.start + (m + (k - 1)), more[k])
      BY <3>1, Zenon DEF m, b
    <3> QED BY <3>1, <3>2, <3>3, Zenon
  <2> QED BY <2>2, <2>3
<1>9. ReadHeld(s, e)
  <2>1. /\ d.length \in Int /\ d.start + d.length <= s.size
        /\ \A i \in d.tensors : i \in DOMAIN s.tensors /\ s.tensors[i].bytes # Absent
    BY DEF ReadHeld
  <2>2. o + 1 \in Nat
    BY <1>1
  <2> QED BY <1>1, <1>3, <1>7, <1>8, <2>1, <2>2 DEF ReadHeld
<1>10. e # NoRead /\ d # NoRead
  <2>1. e.phase # "idle" /\ d.phase # "idle"
    BY <1>1, <1>3
  <2> QED BY <2>1 DEF NoRead
<1> QED BY <1>3, <1>9, <1>10 DEF OperationsOf, o

LEMMA PieceKeeps ==
    ASSUME SourceInv, NEW r \in Readers, ReadPiece(r)
    PROVE  SourceInv'
<1> DEFINE d == reads[r]
           p == Piece(r)
           from == IF Positioned(p) THEN source.cursor[p.shard] ELSE p.physical
           name == source.shards[p.shard].name
           more == [k \in 1..p.length |-> <<name, from + k - 1>>]
           e == [d EXCEPT !.bytes = @ \o more, !.operations = @ + 1]
           start == VirtualStart(source.shards, p.shard)
           l == VirtualLength(source.shards, p.shard)
           f == PhysicalStart(source.shards, p.shard)
<1>0. InProgress(r)
  BY DEF ReadPiece
<1>1. /\ reads' = [reads EXCEPT ![r].bytes = @ \o more, ![r].operations = @ + 1]
      /\ source' = [source EXCEPT !.position[p.shard] = p.physical + p.length,
                                  !.cursor[p.shard] = from + p.length]
      /\ io' = WithSeek(p) /\ directory' = directory
  BY Zenon DEF ReadPiece
<1>2. /\ source # Closed /\ d # NoRead /\ SourceHeld(directory, source) /\ ReadHeld(source, d)
      /\ ReadsHeld(source, reads) /\ IoHeld(reads, io)
  BY <1>0, PieceHeld DEF SourceInv
<1>3. PICK v \in Nat :
         /\ v = d.start + Len(d.bytes)
         /\ p.shard \in DOMAIN source.shards /\ p.length \in Nat /\ p.physical \in Nat
         /\ start \in Nat /\ l \in Nat /\ f \in Nat
         /\ start <= v /\ v + p.length <= start + l /\ p.physical = (v - start) + f
  BY <1>0, PieceHeld, Zenon
<1> HIDE DEF p, from, name, start, l, f
<1>4. from = p.physical
  <2>1. CASE Positioned(p)
    <3>1. source.position[p.shard] = p.physical
      BY <2>1 DEF Positioned
    <3>2. source.position[p.shard] # Absent
      BY <1>3, <3>1 DEF Absent
    <3>3. source.position[p.shard] = source.cursor[p.shard]
      BY <1>2, <1>3, <3>2 DEF SourceHeld, ShardsHeld
    <3> QED BY <2>1, <3>1, <3>3 DEF from
  <2>2. CASE ~Positioned(p)
    BY <2>2 DEF from
  <2> QED BY <2>1, <2>2
<1>5. ReadHeld(source, e) /\ e # NoRead /\ OperationsOf(e) = OperationsOf(d) + 1
  <2>1. more \in [1..p.length -> Range(more)] /\ \A k \in 1..p.length : more[k] = <<name, from + k - 1>>
    BY DEF Range
  <2>2. e = Grown(d, more)
    BY Zenon DEF Grown
  <2> HIDE DEF d, e, more
  <2>3. ASSUME NEW k \in 1..p.length PROVE IsByte(source.shards, d.start + (Len(d.bytes) + (k - 1)), more[k])
    <3> DEFINE m == Len(d.bytes)
               w == d.start + (m + (k - 1))
    <3>1. d.start \in Nat /\ m \in Nat
      BY <1>2 DEF ReadHeld
    <3>2. start <= w /\ w < start + l /\ (w - start) + f = from + k - 1
      <4> DEFINE length == p.length
                 physical == p.physical
                 s == d.start
      <4>1. /\ physical = (v - start) + f /\ v = s + m /\ v + length <= start + l /\ start <= v
            /\ k \in 1..length /\ from = physical
            /\ s \in Nat /\ m \in Nat /\ length \in Nat /\ start \in Nat /\ f \in Nat /\ l \in Nat
        BY <1>3, <1>4, <3>1, Zenon
      <4>2. w = s + (m + (k - 1))
        OBVIOUS
      <4> HIDE DEF length, physical, s, m, w
      <4>3. k \in Nat /\ k >= 1 /\ k <= length
        BY <4>1
      <4>4. w = (v + k) - 1
        BY <4>1, <4>2, <4>3
      <4>5. start <= (v + k) - 1 /\ (v + k) - 1 < start + l /\ (((v + k) - 1) - start) + f = from + k - 1
        BY <4>1, <4>3
      <4> QED BY <4>4, <4>5
    <3> HIDE DEF w
    <3>3. IsByte(source.shards, w, more[k])
      <4>1. /\ VirtualStart(source.shards, p.shard) <= w
            /\ w < VirtualStart(source.shards, p.shard) + VirtualLength(source.shards, p.shard)
            /\ more[k] = <<source.shards[p.shard].name,
                           (w - VirtualStart(source.shards, p.shard)) + PhysicalStart(source.shards, p.shard)>>
        <5>1. more[k] = <<name, from + k - 1>>
          BY <2>1
        <5> QED BY <3>2, <5>1, Zenon DEF start, l, f, name
      <4> QED BY <1>3, <4>1 DEF IsByte
    <3> QED BY <3>3 DEF w
  <2>4. p.length \in Nat
    BY <1>3
  <2> DEFINE length == p.length
  <2>5. /\ length \in Nat /\ more \in [1..length -> Range(more)]
        /\ \A k \in 1..length : IsByte(source.shards, d.start + (Len(d.bytes) + (k - 1)), more[k])
    BY <2>1, <2>3, <2>4
  <2> HIDE DEF length
  <2> QED BY <1>2, <2>2, <2>5, ReadGrows
<1>6. reads' = [reads EXCEPT ![r] = e]
  BY <1>1, Zenon
<1> HIDE DEF d, e, more
<1>7. /\ SourceHeld(directory, source') /\ source' # Closed
      /\ source'.shards = source.shards /\ source'.tensors = source.tensors /\ source'.size = source.size
  <2> DEFINE q == p.physical + p.length
             i == p.shard
  <2>1. source' = WithCursor(source, i, q, q)
    <3>1. source' = [source EXCEPT !.position[i] = q, !.cursor[i] = q]
      BY <1>1, <1>4, Zenon
    <3> QED BY <3>1, Zenon DEF WithCursor
  <2>2. q \in Int /\ i \in DOMAIN source.shards /\ (q # Absent => q = q)
    BY <1>3
  <2> HIDE DEF q, i
  <2> QED BY <1>2, <2>1, <2>2, CursorMoved
<1>8. ReadsHeld(source', reads')
  BY <1>2, <1>5, <1>6, <1>7, OneReadGoesOn
<1>9. IoHeld(reads', io')
  <2>1. /\ io' \in IoRecords
        /\ io'.bytes_read = io'.logical_tensor_bytes + io'.coalesced_gap_bytes
        /\ io'.read_operations = io.read_operations
        /\ io'.seek_operations + io'.seeks_avoided = (io.seek_operations + io.seeks_avoided) + 1
    BY <1>1, <1>2, SeekCounted
  <2>2. Operations(reads') = Operations(reads) + 1 /\ Operations(reads) \in Int
    <3>1. reads = [q \in Readers |-> reads[q]] /\ \A q \in Readers : OperationsOf(reads[q]) \in Nat
      BY <1>2, OperationsCount DEF ReadsHeld
    <3>2. OperationsOf(d) \in Nat /\ OperationsOf(e) \in Nat
      BY <1>5, <3>1 DEF d
    <3>3. /\ Operations(reads) \in Int
          /\ Operations([reads EXCEPT ![r] = e]) = (Operations(reads) - OperationsOf(reads[r])) + OperationsOf(e)
      BY <3>1, <3>2, OperationsChange
    <3> DEFINE a == Operations(reads)
               b == OperationsOf(d)
               c == OperationsOf(e)
    <3>4. a \in Int /\ b \in Nat /\ c = b + 1
      BY <1>5, <3>2, <3>3
    <3>5. Operations(reads') = (a - b) + c
      BY <1>6, <3>3, Zenon DEF d
    <3> HIDE DEF a, b, c
    <3>6. Operations(reads') = a + 1
      BY <3>4, <3>5
    <3> QED BY <3>4, <3>6 DEF a
  <2>3. io.read_operations + Operations(reads) <= io.seek_operations + io.seeks_avoided /\ io \in IoRecords
    BY <1>2 DEF IoHeld
  <2>4. io'.read_operations + Operations(reads') <= io'.seek_operations + io'.seeks_avoided
    <3> DEFINE a == Operations(reads)
               x == io.read_operations
               y == io.seek_operations + io.seeks_avoided
    <3>1. a \in Int /\ x \in Int /\ y \in Int /\ x + a <= y
      BY <2>2, <2>3 DEF IoRecords
    <3>2. io'.seek_operations + io'.seeks_avoided = y + 1 /\ io'.read_operations = x /\ Operations(reads') = a + 1
      BY <2>1, <2>2
    <3> HIDE DEF a, x, y
    <3>3. x + (a + 1) <= y + 1
      BY <3>1
    <3> QED BY <3>2, <3>3, Zenon
  <2> QED BY <2>1, <2>4 DEF IoHeld
<1> QED BY <1>1, <1>7, <1>8, <1>9 DEF SourceInv

LEMMA FailureKeeps ==
    ASSUME SourceInv, NEW r \in Readers, ReadPieceFails(r)
    PROVE  SourceInv'
<1> DEFINE d == reads[r]
           p == Piece(r)
           i == p.shard
           e == [d EXCEPT !.phase = "failed"]
<1>0. InProgress(r)
  BY DEF ReadPieceFails
<1>1. /\ source # Closed /\ d # NoRead /\ SourceHeld(directory, source) /\ ReadHeld(source, d)
      /\ ReadsHeld(source, reads) /\ IoHeld(reads, io)
      /\ i \in DOMAIN source.shards /\ p.length \in Nat /\ p.physical \in Nat
  BY <1>0, PieceHeld DEF SourceInv
<1>2. /\ source' \in {[source EXCEPT !.position[i] = PositionAfterFailure(p), !.cursor[i] = c] :
                         c \in {source.cursor[i], p.physical + p.length - 1}}
      /\ io' = WithSeek(p) /\ directory' = directory
      /\ reads' = [reads EXCEPT ![r].phase = "failed"]
  BY Zenon DEF ReadPieceFails
<1> HIDE DEF p, i
<1>3. PICK c \in {source.cursor[i], p.physical + p.length - 1} : source' = WithCursor(source, i, Absent, c)
  <2>1. PICK c \in {source.cursor[i], p.physical + p.length - 1} :
           source' = [source EXCEPT !.position[i] = PositionAfterFailure(p), !.cursor[i] = c]
    BY <1>2, Zenon
  <2> QED BY <2>1, Zenon DEF PositionAfterFailure, WithCursor
<1>4. c \in Int
  <2>1. source.cursor[i] \in Int
    BY <1>1 DEF SourceHeld, ShardsHeld
  <2>2. p.physical + p.length - 1 \in Int
    BY <1>1
  <2> QED BY <2>1, <2>2
<1>5. /\ SourceHeld(directory, source') /\ source' # Closed
      /\ source'.shards = source.shards /\ source'.tensors = source.tensors /\ source'.size = source.size
  <2>1. Absent \in Int /\ (Absent # Absent => Absent = c)
    BY DEF Absent
  <2> QED BY <1>1, <1>3, <1>4, <2>1, CursorMoved
<1>6. ReadHeld(source, e) /\ e # NoRead /\ OperationsOf(e) = OperationsOf(d)
  <2>1. /\ e.phase = "failed" /\ e.tensors = d.tensors /\ e.start = d.start /\ e.length = d.length
        /\ e.bytes = d.bytes /\ e.operations = d.operations
        /\ e = [phase |-> e.phase, tensors |-> e.tensors, start |-> e.start, length |-> e.length,
                bytes |-> e.bytes, operations |-> e.operations]
    <3>1. d = [phase |-> d.phase, tensors |-> d.tensors, start |-> d.start, length |-> d.length,
               bytes |-> d.bytes, operations |-> d.operations]
      BY <1>1 DEF ReadHeld
    <3> HIDE DEF d
    <3> QED BY <3>1
  <2> HIDE DEF d, e
  <2>2. ReadHeld(source, e)
    BY <1>1, <2>1 DEF ReadHeld
  <2>3. e # NoRead
    BY <2>1 DEF NoRead
  <2> QED BY <1>1, <2>1, <2>2, <2>3 DEF OperationsOf
<1>7. reads' = [reads EXCEPT ![r] = e]
  BY <1>2, Zenon
<1> HIDE DEF d, e
<1>8. ReadsHeld(source', reads')
  BY <1>1, <1>5, <1>6, <1>7, OneReadGoesOn
<1>9. IoHeld(reads', io')
  <2>1. /\ io' \in IoRecords
        /\ io'.bytes_read = io'.logical_tensor_bytes + io'.coalesced_gap_bytes
        /\ io'.read_operations = io.read_operations
        /\ io'.seek_operations + io'.seeks_avoided = (io.seek_operations + io.seeks_avoided) + 1
    BY <1>1, <1>2, SeekCounted
  <2>2. Operations(reads') = Operations(reads) /\ Operations(reads) \in Int
    <3>1. reads = [q \in Readers |-> reads[q]] /\ \A q \in Readers : OperationsOf(reads[q]) \in Nat
      BY <1>1, OperationsCount DEF ReadsHeld
    <3>2. OperationsOf(e) \in Nat /\ OperationsOf(e) = OperationsOf(reads[r])
      BY <1>6, <3>1 DEF d
    <3>3. /\ Operations(reads) \in Int
          /\ Operations([reads EXCEPT ![r] = e]) = (Operations(reads) - OperationsOf(reads[r])) + OperationsOf(e)
      BY <3>1, <3>2, OperationsChange
    <3> DEFINE a == Operations(reads)
               b == OperationsOf(e)
    <3>4. a \in Int /\ b \in Nat
      BY <3>2, <3>3
    <3>5. Operations(reads') = (a - b) + b
      BY <1>7, <3>2, <3>3, Zenon
    <3> HIDE DEF a, b
    <3>6. Operations(reads') = a
      BY <3>4, <3>5
    <3> QED BY <3>4, <3>6 DEF a
  <2>3. io.read_operations + Operations(reads) <= io.seek_operations + io.seeks_avoided /\ io \in IoRecords
    BY <1>1 DEF IoHeld
  <2>4. io'.read_operations + Operations(reads') <= io'.seek_operations + io'.seeks_avoided
    <3> DEFINE a == Operations(reads)
               x == io.read_operations
               y == io.seek_operations + io.seeks_avoided
    <3>1. a \in Int /\ x \in Int /\ y \in Int /\ x + a <= y
      BY <2>2, <2>3 DEF IoRecords
    <3>2. io'.seek_operations + io'.seeks_avoided = y + 1 /\ io'.read_operations = x /\ Operations(reads') = a
      BY <2>1, <2>2
    <3> HIDE DEF a, x, y
    <3>3. x + a <= y + 1
      BY <3>1
    <3> QED BY <3>2, <3>3, Zenon
  <2> QED BY <2>1, <2>4 DEF IoHeld
<1> QED BY <1>2, <1>1, <1>5, <1>8, <1>9 DEF SourceInv

LEMMA EndKeeps ==
    ASSUME SourceInv, NEW r \in Readers, EndRead(r)
    PROVE  SourceInv'
<1> DEFINE d == reads[r]
           n == d.length
           o == d.operations
           c == Cardinality(d.tensors)
           many == c > 1
           failed == d.phase = "failed"
           logical == IF many THEN LogicalBytes(d.tensors) ELSE n
           x == [io EXCEPT !.bytes_read = IF failed THEN @ ELSE @ + n,
                           !.read_operations = IF failed THEN @ ELSE @ + o,
                           !.read_failures = IF failed THEN @ + 1 ELSE @,
                           !.logical_tensor_reads = @ + c,
                           !.logical_tensor_bytes = IF failed THEN @ ELSE @ + logical,
                           !.coalesced_ranges = IF many /\ ~failed THEN @ + 1 ELSE @,
                           !.coalesced_gap_bytes = IF many /\ ~failed THEN @ + n - logical ELSE @]
<1>1. d # NoRead /\ reads' = [reads EXCEPT ![r] = NoRead] /\ directory' = directory /\ source' = source
      /\ io' = RecordedRead(r, failed)
  BY DEF EndRead
<1>2. io' = x
  BY <1>1, Zenon DEF RecordedRead
<1>3. source # Closed /\ SourceHeld(directory, source) /\ ReadsHeld(source, reads) /\ IoHeld(reads, io)
      /\ ReadHeld(source, d)
  <2>1. ReadsHeld(source, reads)
    BY DEF SourceInv
  <2>2. source # Closed
    BY <1>1, <2>1 DEF ReadsHeld
  <2> QED BY <1>1, <2>1, <2>2 DEF SourceInv, ReadsHeld
<1>4. n \in Int /\ o \in Nat /\ d.tensors \subseteq DOMAIN source.tensors
      /\ \A i \in d.tensors : source.tensors[i].bytes # Absent
  BY <1>3 DEF ReadHeld
<1>5. c \in Nat
  <2>1. PICK l \in Nat : DOMAIN source.tensors = 1..l
    BY <1>3, OpenTensors
  <2>2. IsFiniteSet(1..l)
    BY FS_Interval
  <2>4. d.tensors \in SUBSET (1..l)
    BY <1>4, <2>1, Zenon
  <2>3. IsFiniteSet(d.tensors)
    BY <2>2, <2>4, FS_Subset
  <2> QED BY <2>3, FS_CardinalityType
<1>6. logical \in Int /\ (~many => logical = n)
  <2> DEFINE L == LogicalBytes(d.tensors)
  <2>1. L \in Nat
    BY <1>3, <1>4, LogicalNumber
  <2> HIDE DEF L, n, many
  <2> QED BY <1>4, <2>1 DEF L
<1>7. io \in IoRecords /\ io.bytes_read = io.logical_tensor_bytes + io.coalesced_gap_bytes
      /\ io.read_operations + Operations(reads) <= io.seek_operations + io.seeks_avoided
  BY <1>3 DEF IoHeld
<1>8. OperationsOf(d) = o
  BY <1>1 DEF OperationsOf
<1> HIDE DEF logical, many, failed, n, o, c
<1>9. /\ x \in IoRecords
      /\ x.bytes_read = IF failed THEN io.bytes_read ELSE io.bytes_read + n
      /\ x.read_operations = IF failed THEN io.read_operations ELSE io.read_operations + o
      /\ x.logical_tensor_bytes = IF failed THEN io.logical_tensor_bytes ELSE io.logical_tensor_bytes + logical
      /\ x.coalesced_gap_bytes = IF many /\ ~failed THEN io.coalesced_gap_bytes + n - logical
                                 ELSE io.coalesced_gap_bytes
      /\ x.seek_operations = io.seek_operations /\ x.seeks_avoided = io.seeks_avoided
  <2> DEFINE A == IF failed THEN io.bytes_read ELSE io.bytes_read + n
             B == IF failed THEN io.read_operations ELSE io.read_operations + o
             C == IF failed THEN io.read_failures + 1 ELSE io.read_failures
             D == io.logical_tensor_reads + c
             E == IF failed THEN io.logical_tensor_bytes ELSE io.logical_tensor_bytes + logical
             F == IF many /\ ~failed THEN io.coalesced_ranges + 1 ELSE io.coalesced_ranges
             G == IF many /\ ~failed THEN io.coalesced_gap_bytes + n - logical ELSE io.coalesced_gap_bytes
  <2>1. x = [io EXCEPT !.bytes_read = A, !.read_operations = B, !.read_failures = C,
                       !.logical_tensor_reads = D, !.logical_tensor_bytes = E,
                       !.coalesced_ranges = F, !.coalesced_gap_bytes = G]
    BY Zenon
  <2> HIDE DEF x
  <2>2. A \in Int /\ B \in Int /\ C \in Int /\ D \in Int /\ E \in Int /\ F \in Int /\ G \in Int
    BY <1>4, <1>5, <1>6, <1>7 DEF IoRecords
  <2> HIDE DEF A, B, C, D, E, F, G
  <2>3. /\ x \in IoRecords
        /\ x.bytes_read = A /\ x.read_operations = B /\ x.logical_tensor_bytes = E
        /\ x.coalesced_gap_bytes = G
        /\ x.seek_operations = io.seek_operations /\ x.seeks_avoided = io.seeks_avoided
    BY <1>7, <2>1, <2>2 DEF IoRecords
  <2> QED BY <2>3, Zenon DEF A, B, E, G
<1> HIDE DEF x
<1>10. x.bytes_read = x.logical_tensor_bytes + x.coalesced_gap_bytes
  BY <1>4, <1>6, <1>7, <1>9 DEF IoRecords
<1>11. /\ Operations(reads) \in Int
       /\ Operations(reads') = Operations(reads) - o
  <2>1. reads = [q \in Readers |-> reads[q]] /\ \A q \in Readers : OperationsOf(reads[q]) \in Nat
    BY <1>3, OperationsCount DEF ReadsHeld
  <2>2. OperationsOf(NoRead) = 0 /\ OperationsOf(NoRead) \in Nat
    BY DEF OperationsOf
  <2>3. /\ Operations(reads) \in Int
        /\ Operations([reads EXCEPT ![r] = NoRead])
             = (Operations(reads) - OperationsOf(reads[r])) + OperationsOf(NoRead)
    BY <2>1, <2>2, OperationsChange
  <2> DEFINE a == Operations(reads)
  <2>4. Operations(reads') = (a - o) + 0
    BY <1>1, <1>8, <2>2, <2>3, Zenon
  <2>5. a \in Int
    BY <2>3
  <2> HIDE DEF a
  <2>6. Operations(reads') = a - o
    BY <1>4, <2>4, <2>5
  <2> QED BY <2>5, <2>6, Zenon DEF a
<1>12. x.read_operations + Operations(reads') <= x.seek_operations + x.seeks_avoided
  <2> DEFINE a == Operations(reads)
             b == Operations(reads')
  <2>1. a \in Int /\ b = a - o /\ io.read_operations + a <= io.seek_operations + io.seeks_avoided
    BY <1>7, <1>11, Zenon
  <2> HIDE DEF a, b
  <2>2. x.read_operations + b <= x.seek_operations + x.seeks_avoided
    BY <1>4, <1>7, <1>9, <2>1 DEF IoRecords
  <2> QED BY <2>2 DEF b
<1>13. IoHeld(reads', io')
  BY <1>2, <1>9, <1>10, <1>12 DEF IoHeld
<1>14. ReadsHeld(source, [reads EXCEPT ![r] = NoRead])
  BY <1>3, OneReadGoesOn
<1> QED BY <1>1, <1>3, <1>13, <1>14 DEF SourceInv

LEMMA SourceStep ==
    ASSUME SourceInv, [SourceNext]_sourceVars
    PROVE  SourceInv'
<1>1. ASSUME Open(DiscoverFromDir(directory)) PROVE SourceInv'
  <2>1. directory \in Directories /\ DiscoverFromDir(directory) # <<>>
    BY <1>1 DEF SourceInv, Open
  <2>2. PICK n : ShardsHeld(directory, DiscoverFromDir(directory), n)
    BY <2>1, FromDir
  <2> QED BY <1>1, <2>2, OpenKeeps
<1>2. ASSUME NEW name \in DOMAIN directory, Open(DiscoverFromFile(directory, name)) PROVE SourceInv'
  <2>1. directory \in Directories /\ DiscoverFromFile(directory, name) # <<>>
    BY <1>2 DEF SourceInv, Open
  <2>2. PICK n : ShardsHeld(directory, DiscoverFromFile(directory, name), n)
    BY <2>1, FromFile
  <2> QED BY <1>2, <2>2, OpenKeeps
<1>3. ASSUME NEW r \in Readers, source # Closed,
             \/ \E i \in DOMAIN source.tensors :
                   ReadTensor(r, i) \/ ReadTensorRange(r, i, 1, 1) \/ ReadF32TensorRange(r, i, 1, 1)
             \/ \E tensors \in Spans :
                   ReadCoalescedTensorRange(r, tensors, StartOf(tensors), EndOf(tensors) - StartOf(tensors))
      PROVE  SourceInv'
  BY <1>3, ReadsBegin
<1>4. ASSUME UNCHANGED sourceVars PROVE SourceInv'
  BY <1>4 DEF sourceVars, SourceInv
<1> QED BY <1>1, <1>2, <1>3, <1>4, ResetKeeps, PieceKeeps, FailureKeeps, EndKeeps DEF SourceNext

(* From files to bytes: a set found is one model, a read that did not fail *)
(* has its tensors' own bytes, across shard boundaries, with seeks         *)
(* skipped, beside other reads and after reads that failed half-way, and   *)
(* the I/O profile accounts for them.                                      *)
THEOREM TensorReadsTheorem == SourceSpec => []TensorReadsFaithful
<1>1. SourceInit => SourceInv
  BY SourceStarts
<1>2. SourceInv /\ [SourceNext]_sourceVars => SourceInv'
  BY SourceStep
<1>3. SourceInv => TensorReadsFaithful
  BY SourcePromises
<1> QED BY <1>1, <1>2, <1>3, PTL DEF SourceSpec

-----------------------------------------------------------------------------
(***************************************************************************)
(* The terminal: frames.                                                   *)
(***************************************************************************)

\* A line that can be shown as it is in a window of that many columns.
Clipped(line, width) ==
    /\ line \in Seq(Range(line))
    /\ Len(line) <= width
    /\ \A i \in DOMAIN line : line[i] \notin {"tab", "control"}

\* A sequence is one of its own elements.
LEMMA OwnRange ==
    ASSUME NEW S, NEW s \in Seq(S)
    PROVE  s \in Seq(Range(s))
<1>1. /\ Len(s) \in Nat
      /\ DOMAIN s = 1..Len(s)
      /\ s = [i \in 1..Len(s) |-> s[i]]
  BY LenProperties
<1>2. \A i \in 1..Len(s) : s[i] \in Range(s)
  BY <1>1 DEF Range
<1>3. s \in [1..Len(s) -> Range(s)]
  BY <1>1, <1>2
<1> QED BY <1>1, <1>3, SeqDef

\* One character more and the line can still be shown.
LEMMA PutClips ==
    ASSUME NEW width \in Nat, NEW S, "blank" \in S, NEW out \in Seq(S), Clipped(out, width),
           NEW c \in S
    PROVE  PutCharacter(out, c, width) \in Seq(S) /\ Clipped(PutCharacter(out, c, width), width)
<1> DEFINE n == Len(out)
           blanks == IF width - n < 4 THEN width - n ELSE 4
           B == [i \in 1..blanks |-> "blank"]
           res == PutCharacter(out, c, width)
<1>1. n \in Nat /\ n <= width /\ DOMAIN out = 1..n /\ \A i \in 1..n : out[i] \in S
  BY LenProperties DEF Clipped
<1>2. SUFFICES res \in Seq(S) /\ Len(res) <= width /\ \A i \in 1..Len(res) : res[i] \notin {"tab", "control"}
  <2> SUFFICES Clipped(res, width)
    OBVIOUS
  <2> HIDE DEF res
  <2> QED BY <1>2, OwnRange, LenProperties DEF Clipped
<1>3. CASE n >= width \/ c = "control"
  <2>1. res = out
    BY <1>1, <1>3 DEF PutCharacter
  <2> QED BY <1>1, <2>1 DEF Clipped
<1>4. CASE n < width /\ c = "tab"
  <2>1. blanks \in Nat /\ n + blanks <= width
    BY <1>1, <1>4
  <2>2. B \in Seq(S) /\ Len(B) = blanks
    BY <2>1
  <2>3. res = out \o B
    <3>1. ~(Len(out) >= width \/ c = "control") /\ c = "tab"
      BY <1>1, <1>4
    <3> QED BY <3>1, Zenon DEF PutCharacter
  <2>4. /\ out \o B \in Seq(S) /\ Len(out \o B) = n + blanks
        /\ \A i \in 1..(n + blanks) : (out \o B)[i] = IF i <= n THEN out[i] ELSE B[i - n]
    <3> HIDE DEF B, n, blanks
    <3>1. /\ out \o B \in Seq(S) /\ Len(out \o B) = Len(out) + Len(B)
          /\ \A i \in 1..(Len(out) + Len(B)) : (out \o B)[i] = IF i <= Len(out) THEN out[i] ELSE B[i - Len(out)]
      BY <2>2, ConcatProperties
    <3> QED BY <2>2, <3>1 DEF n
  <2>5. \A i \in 1..(n + blanks) : (out \o B)[i] \notin {"tab", "control"}
    <3> TAKE i \in 1..(n + blanks)
    <3>1. CASE i <= n
      BY <1>1, <2>4, <3>1 DEF Clipped
    <3>2. CASE i > n
      <4>1. i - n \in 1..blanks
        BY <1>1, <2>1, <3>2
      <4>2. B[i - n] = "blank"
        BY <4>1
      <4> QED BY <1>1, <2>1, <2>4, <3>2, <4>2
    <3> QED BY <1>1, <2>1, <3>1, <3>2
  <2> HIDE DEF B, res
  <2> QED BY <2>1, <2>3, <2>4, <2>5
<1>5. CASE n < width /\ c \notin {"tab", "control"}
  <2>1. res = Append(out, c)
    <3>1. ~(Len(out) >= width \/ c = "control") /\ ~(c = "tab")
      BY <1>1, <1>5
    <3> QED BY <3>1, Zenon DEF PutCharacter
  <2>2. /\ Append(out, c) \in Seq(S) /\ Len(Append(out, c)) = n + 1
        /\ \A i \in 1..n : Append(out, c)[i] = out[i]
        /\ Append(out, c)[n + 1] = c
    BY AppendProperties
  <2>3. \A i \in 1..(n + 1) : Append(out, c)[i] \notin {"tab", "control"}
    BY <1>1, <1>5, <2>2 DEF Clipped
  <2> HIDE DEF res
  <2> QED BY <1>1, <1>5, <2>1, <2>2, <2>3
<1> QED BY <1>1, <1>3, <1>4, <1>5

\* How a line is clipped: one character after the other.
ClipsBy(h, line, width) ==
    /\ h[0] = <<>>
    /\ \A i \in 1..Len(line) : h[i] = PutCharacter(h[i - 1], line[i], width)
    /\ SanitizeAndClip(line, width) = h[Len(line)]

LEMMA ClipRuns ==
    ASSUME NEW width \in Nat, NEW S, "blank" \in S, NEW line \in Seq(S)
    PROVE  \E h : ClipsBy(h, line, width)
<1> DEFINE n == Len(line)
           D == 1..n
           A == {out \in Seq(S) : Clipped(out, width)}
           step == [x \in A \X D |-> PutCharacter(x[1], line[x[2]], width)]
           Runs(h) == h = [s \in SUBSET D |-> IF s = {} THEN <<>>
                                             ELSE PutCharacter(h[s \ {Max(s)}], line[Max(s)], width)]
<1>1. n \in Nat /\ DOMAIN line = D /\ \A i \in D : line[i] \in S
  BY LenProperties
<1>2. <<>> \in A
  BY EmptySeq DEF Clipped
<1>3. \A p \in A, i \in D : PutCharacter(p, line[i], width) \in A
  <2> TAKE p \in A, i \in D
  <2>1. p \in Seq(S) /\ Clipped(p, width) /\ line[i] \in S
    BY <1>1
  <2>2. PutCharacter(p, line[i], width) \in Seq(S) /\ Clipped(PutCharacter(p, line[i], width), width)
    BY <2>1, PutClips
  <2> QED BY <2>2
<1> HIDE DEF A
<1>4. step \in [A \X D -> A]
  BY <1>3
<1>5. \A p \in A, i \in D : step[<<p, i>>] = PutCharacter(p, line[i], width)
  OBVIOUS
<1> HIDE DEF step
<1>6. PICK g \in [SUBSET D -> A] : StepsBy(g, step, <<>>, n)
  <2> HIDE DEF n
  <2> QED BY <1>1, <1>2, <1>4, FoldRuns
<1>7. Runs(g)
  <2>1. \A s \in SUBSET D : s # {} => Max(s) \in D /\ g[s \ {Max(s)}] \in A
    <3> SUFFICES ASSUME NEW s \in SUBSET D, s # {} PROVE Max(s) \in s
      OBVIOUS
    <3>1. IsFiniteSet(D)
      BY <1>1, FS_Interval
    <3>2. s \subseteq Nat
      OBVIOUS
    <3>3. IsFiniteSet(s)
      <4> HIDE DEF D
      <4> QED BY <3>1, FS_Subset
    <3> QED BY <3>2, <3>3, GreatestOf
  <2>2. \A s \in SUBSET D : s # {} =>
           step[<<g[s \ {Max(s)}], Max(s)>>] = PutCharacter(g[s \ {Max(s)}], line[Max(s)], width)
    <3> HIDE DEF D
    <3> QED BY <1>5, <2>1
  <2> QED BY <1>6, <2>2 DEF StepsBy
<1> DEFINE H == CHOOSE h : Runs(h)
<1>8. Runs(H)
  <2> HIDE DEF Runs
  <2> QED BY <1>7
<1>9. SanitizeAndClip(line, width) = H[D]
  BY <1>1 DEF SanitizeAndClip, FoldLeft, MapThenFoldSet
<1> HIDE DEF H
<1>10. H[{}] = <<>> /\ 1..0 = {}
  BY <1>8
<1>11. \A i \in D : H[1..i] = PutCharacter(H[1..(i - 1)], line[i], width)
  <2> TAKE i \in D
  <2>1. Max(1..i) = i /\ (1..i) \ {i} = 1..(i - 1) /\ 1..i # {} /\ 1..i \in SUBSET D
    BY <1>1, GreatestOfFirst
  <2>2. H[1..i] = PutCharacter(H[(1..i) \ {Max(1..i)}], line[Max(1..i)], width)
    <3> HIDE DEF D
    <3> QED BY <1>8, <2>1
  <2> QED BY <2>1, <2>2
<1> HIDE DEF Runs
<1> DEFINE f == [i \in 0..n |-> H[1..i]]
<1>12. \A i \in 0..n : f[i] = H[1..i]
  OBVIOUS
<1>13. f[0] = <<>> /\ SanitizeAndClip(line, width) = f[n]
  BY <1>1, <1>9, <1>10
<1>14. \A i \in D : f[i] = PutCharacter(f[i - 1], line[i], width)
  <2> TAKE i \in D
  <2>1. i \in 0..n /\ i - 1 \in 0..n
    BY <1>1
  <2> HIDE DEF f
  <2> QED BY <1>11, <1>12, <2>1
<1> HIDE DEF f
<1> QED BY <1>13, <1>14 DEF ClipsBy

\* A clipped line has no more columns than the window, and no control
\* character or tab.
LEMMA ClipClips ==
    ASSUME NEW width \in Nat, NEW line, line \in Seq(Range(line))
    PROVE  Clipped(SanitizeAndClip(line, width), width)
<1> DEFINE S == Range(line) \cup {"blank"}
           n == Len(line)
<1>1. n \in Nat /\ DOMAIN line = 1..n /\ \A i \in 1..n : line[i] \in S
  BY LenProperties DEF Range
<1>2. line \in Seq(S) /\ "blank" \in S
  BY SeqMonotonic
<1> HIDE DEF S
<1>3. PICK h : ClipsBy(h, line, width)
  BY <1>2, ClipRuns
<1> DEFINE T == {i \in 0..n : h[i] \in Seq(S) /\ Clipped(h[i], width)}
<1>4. 0 \in T
  <2>1. h[0] = <<>>
    BY <1>3 DEF ClipsBy
  <2>2. <<>> \in Seq(S) /\ Clipped(<<>>, width)
    BY EmptySeq DEF Clipped
  <2>3. h[0] \in Seq(S) /\ Clipped(h[0], width)
    BY <2>1, <2>2, Zenon
  <2>4. 0 \in 0..n
    BY <1>1
  <2> QED BY <2>3, <2>4
<1>5. \A i \in 1..n : i - 1 \in T => i \in T
  <2> SUFFICES ASSUME NEW i \in 1..n, i - 1 \in T PROVE i \in T
    OBVIOUS
  <2>1. h[i - 1] \in Seq(S) /\ Clipped(h[i - 1], width) /\ line[i] \in S
    BY <1>1
  <2>2. h[i] = PutCharacter(h[i - 1], line[i], width)
    BY <1>3 DEF ClipsBy
  <2>3. h[i] \in Seq(S) /\ Clipped(h[i], width)
    BY <1>2, <2>1, <2>2, PutClips
  <2>4. i \in 0..n
    BY <1>1
  <2> QED BY <2>3, <2>4
<1>6. n \in 0..n
  BY <1>1
<1>7. n \in T
  <2> HIDE DEF T, n
  <2> QED BY <1>1, <1>4, <1>5, <1>6, UpTo
<1> QED BY <1>3, <1>7 DEF ClipsBy

\* Clipping a clipped line again changes nothing.
LEMMA ClipAgain ==
    ASSUME NEW width \in Nat, NEW line, Clipped(line, width)
    PROVE  SanitizeAndClip(line, width) = line
<1> DEFINE S == Range(line) \cup {"blank"}
           n == Len(line)
<1>1. n \in Nat /\ n <= width /\ DOMAIN line = 1..n /\ line \in Seq(Range(line))
  BY LenProperties DEF Clipped
<1>2. line \in Seq(S) /\ "blank" \in S
  BY <1>1, SeqMonotonic
<1> HIDE DEF S
<1>3. PICK h : ClipsBy(h, line, width)
  BY <1>2, ClipRuns
<1> DEFINE T == {i \in 0..n : /\ h[i] \in Seq(S) /\ Len(h[i]) = i
                             /\ \A j \in 1..i : h[i][j] = line[j]}
<1>4. 0 \in T
  <2>1. h[0] = <<>>
    BY <1>3 DEF ClipsBy
  <2>2. <<>> \in Seq(S) /\ Len(<<>>) = 0
    BY EmptySeq
  <2>3. h[0] \in Seq(S) /\ Len(h[0]) = 0
    BY <2>1, <2>2, Zenon
  <2>4. 0 \in 0..n
    BY <1>1
  <2>5. \A j \in 1..0 : h[0][j] = line[j]
    OBVIOUS
  <2> QED BY <2>3, <2>4, <2>5
<1>5. \A i \in 1..n : i - 1 \in T => i \in T
  <2> SUFFICES ASSUME NEW i \in 1..n, i - 1 \in T PROVE i \in T
    OBVIOUS
  <2>1. i \in 0..n /\ i \in Nat
    BY <1>1
  <2> DEFINE out == h[i - 1]
  <2>2. out \in Seq(S) /\ Len(out) = i - 1 /\ \A j \in 1..(i - 1) : out[j] = line[j]
    OBVIOUS
  <2>3. h[i] = PutCharacter(out, line[i], width)
    BY <1>3 DEF ClipsBy
  <2>4. line[i] \in S /\ line[i] \notin {"tab", "control"}
    BY <1>1, <1>2, LenProperties DEF Clipped
  <2> HIDE DEF out, T
  <2>5. h[i] = Append(out, line[i])
    <3>1. ~(Len(out) >= width \/ line[i] = "control") /\ ~(line[i] = "tab")
      BY <1>1, <2>2, <2>4
    <3> QED BY <2>3, <3>1, Zenon DEF PutCharacter
  <2>6. /\ Append(out, line[i]) \in Seq(S) /\ Len(Append(out, line[i])) = Len(out) + 1
        /\ \A j \in 1..Len(out) : Append(out, line[i])[j] = out[j]
        /\ Append(out, line[i])[Len(out) + 1] = line[i]
    BY <2>2, <2>4, AppendProperties
  <2>7. /\ h[i] \in Seq(S) /\ Len(h[i]) = i
        /\ \A j \in 1..(i - 1) : h[i][j] = line[j]
        /\ h[i][i] = line[i]
    BY <2>1, <2>2, <2>5, <2>6
  <2>8. \A j \in 1..i : h[i][j] = line[j]
    BY <2>1, <2>7
  <2> QED BY <2>1, <2>7, <2>8 DEF T
<1>6. n \in 0..n
  BY <1>1
<1>7. n \in T
  <2> HIDE DEF T, n
  <2> QED BY <1>1, <1>4, <1>5, <1>6, UpTo
<1>8. h[n] \in Seq(S) /\ Len(h[n]) = n /\ \A j \in 1..n : h[n][j] = line[j]
  BY <1>7
<1>9. h[n] = line
  <2> HIDE DEF T
  <2> QED BY <1>1, <1>2, <1>8, SeqEqual
<1> QED BY <1>3, <1>9 DEF ClipsBy

\* The lines that are shown: no more than the window has rows, the first and,
\* of two rows or more, the last among them, and at most one other.
LEMMA VisibleShows ==
    ASSUME NEW T, NEW lines \in Seq(T), NEW height \in Nat \ {0},
           Visible(lines, height) # <<>>
    PROVE  LET V == Visible(lines, height)
           IN  /\ lines # <<>>
               /\ V \in Seq(T \cup {ClippedNotice})
               /\ Len(V) <= height /\ Len(V) \in Nat \ {0}
               /\ V[1] = lines[1]
               /\ height > 1 => Last(V) = Last(lines)
<1> DEFINE U == T \cup {ClippedNotice}
           N == ClippedNotice
           V == Visible(lines, height)
           n == Len(lines)
           head == (height - 1) \div 2
           tail == height - head - 1
           Shows(v) == /\ lines # <<>> /\ v \in Seq(U)
                       /\ Len(v) <= height /\ Len(v) \in Nat \ {0}
                       /\ v[1] = lines[1]
                       /\ height > 1 => Last(v) = Last(lines)
<1> SUFFICES Shows(V)
  OBVIOUS
<1>1. /\ n \in Nat /\ DOMAIN lines = 1..n /\ \A i \in 1..n : lines[i] \in T
      /\ lines \in Seq(U)
  BY LenProperties, SeqMonotonic
<1>2. CASE n <= height
  <2>1. V = lines
    BY <1>1, <1>2 DEF Visible
  <2>2. n # 0
    BY <1>1, <2>1, EmptySeq
  <2> QED BY <1>1, <1>2, <2>1, <2>2, EmptySeq
<1>3. CASE n > height
  <2>1. lines # <<>> /\ n \in Nat \ {0}
    BY <1>1, <1>3, EmptySeq
  <2>2. CASE height = 1
    <3>1. V = <<lines[1]>>
      BY <1>1, <1>3, <2>2 DEF Visible
    <3>2. lines[1] \in U
      BY <1>1, <2>1
    <3> HIDE DEF V, U
    <3>3. V \in Seq(U) /\ Len(V) = 1 /\ V[1] = lines[1]
      BY <3>1, <3>2
    <3> QED BY <2>1, <2>2, <3>3
  <2>3. CASE height = 2
    <3>1. V = <<lines[1], Last(lines)>>
      BY <1>1, <1>3, <2>3 DEF Visible
    <3>2. Last(lines) \in U /\ lines[1] \in U
      BY <1>1, <2>1 DEF Last
    <3>3. Last(V) = Last(lines)
      BY <3>1 DEF Last
    <3> HIDE DEF V, U
    <3>4. V \in Seq(U) /\ Len(V) = 2 /\ V[1] = lines[1]
      BY <3>1, <3>2
    <3> QED BY <2>1, <2>3, <3>3, <3>4
  <2>4. CASE height > 2
    <3> DEFINE A == SubSeq(lines, 1, head)
               B == SubSeq(lines, n - tail + 1, n)
    <3>1. V = A \o <<N>> \o B
      <4>1. ~(Len(lines) <= height) /\ ~(height = 1) /\ ~(height = 2)
        BY <1>1, <1>3, <2>4
      <4> QED BY <4>1, Zenon DEF Visible
    <3>2. head \in Nat \ {0} /\ tail \in Nat \ {0} /\ head + 1 + tail = height
      BY <2>4
    <3> HIDE DEF head, tail
    <3>3. A \in Seq(U) /\ Len(A) = head /\ A[1] = lines[1]
      <4>1. 1 \in 1..(n + 1) /\ head \in 0..n
        BY <1>1, <1>3, <3>2
      <4> QED BY <1>1, <3>2, <4>1, SubSeqProperties
    <3>4. B \in Seq(U) /\ Len(B) = tail /\ B[tail] = lines[n]
      <4>1. n - tail + 1 \in 1..(n + 1) /\ n \in 0..n /\ n - (n - tail + 1) + 1 = tail
        BY <1>1, <1>3, <3>2
      <4> QED BY <1>1, <3>2, <4>1, SubSeqProperties
    <3> HIDE DEF A, B, V
    <3>5. <<N>> \in Seq(U) /\ Len(<<N>>) = 1
      OBVIOUS
    <3> DEFINE C == A \o <<N>>
    <3>6. C \in Seq(U) /\ Len(C) = head + 1 /\ C[1] = lines[1]
      BY <3>2, <3>3, <3>5, ConcatProperties
    <3> HIDE DEF C
    <3>7. C \o B \in Seq(U) /\ Len(C \o B) = height /\ (C \o B)[1] = lines[1]
          /\ (C \o B)[height] = B[tail]
      <4>1. /\ C \o B \in Seq(U) /\ Len(C \o B) = Len(C) + Len(B)
            /\ \A i \in 1..(Len(C) + Len(B)) : (C \o B)[i] = IF i <= Len(C) THEN C[i] ELSE B[i - Len(C)]
        BY <3>4, <3>6, ConcatProperties
      <4>2. 1 \in 1..height /\ height \in 1..height /\ 1 <= head + 1 /\ ~(height <= head + 1)
            /\ height - (head + 1) = tail
        BY <3>2
      <4> QED BY <3>2, <3>4, <3>6, <4>1, <4>2
    <3>8. V = C \o B
      BY <3>1 DEF C
    <3>9. Last(V) = Last(lines)
      <4>1. V[Len(V)] = lines[Len(lines)]
        BY <3>4, <3>7, <3>8
      <4> QED BY <4>1, Zenon DEF Last
    <3>10. V \in Seq(U) /\ Len(V) = height /\ V[1] = lines[1]
      BY <3>7, <3>8
    <3> QED BY <2>1, <3>9, <3>10
  <2> QED BY <2>2, <2>3, <2>4
<1> QED BY <1>1, <1>2, <1>3

\* The frame drawn last is that of a screen in a window.
DrawnFrame(screen, size) ==
    [lines |-> ComposeFrame(screen, size), screen |-> screen, size |-> size]

Drawn == frame = NoFrame \/ \E screen \in Screens, size \in WindowSizes : frame = DrawnFrame(screen, size)

\* What is composed of a screen fits the window; a line that was clipped once
\* is what it is clipped to again, so that the first and the last line shown
\* are those of the screen.
LEMMA ComposedFits ==
    ASSUME NEW screen \in Screens, NEW size \in WindowSizes,
           frame = DrawnFrame(screen, size), frame.lines # <<>>
    PROVE  FrameFits
<1> DEFINE w == size.width
           h == size.height
           n == Len(screen)
           clip(line) == SanitizeAndClip(line, w)
           lines == [i \in DOMAIN screen |-> clip(screen[i])]
           V == Visible(lines, h)
           F == ComposeFrame(screen, size)
           T == Range(lines)
<1>1. w \in Nat /\ h \in Nat \ {0} /\ w \in Nat \ {0}
  BY WindowsAssumption
<1>2. /\ n \in Nat /\ DOMAIN screen = 1..n
      /\ \A i \in 1..n : screen[i] \in Seq(Range(screen[i]))
  BY ScreensAssumption, LenProperties
<1>3. F = [i \in DOMAIN V |-> clip(V[i])]
  BY DEF ComposeFrame
<1>4. frame.lines = F /\ frame.screen = screen /\ frame.size = size
  BY DEF DrawnFrame
<1>5. \A i \in 1..n : lines[i] = clip(screen[i]) /\ Clipped(lines[i], w)
  <2> TAKE i \in 1..n
  <2>1. lines[i] = clip(screen[i])
    BY <1>2
  <2>2. Clipped(clip(screen[i]), w)
    <3>1. screen[i] \in Seq(Range(screen[i]))
      BY <1>2
    <3> QED BY <1>1, <3>1, ClipClips
  <2> HIDE DEF lines, clip
  <2> QED BY <2>1, <2>2
<1>6. DOMAIN lines = 1..n /\ Len(lines) = n /\ lines \in Seq(T)
  <2>1. DOMAIN lines = 1..n
    BY <1>2
  <2>2. \A i \in 1..n : lines[i] \in T
    BY <2>1 DEF Range
  <2>3. lines = [i \in 1..n |-> lines[i]]
    BY <1>2
  <2>4. lines \in [1..n -> T]
    <3> HIDE DEF lines, T
    <3> QED BY <2>1, <2>2, <2>3
  <2>5. lines \in Seq(T)
    <3> HIDE DEF lines, T
    <3> QED BY <1>2, <2>4, SeqDef
  <2> HIDE DEF lines, T
  <2> QED BY <1>2, <2>1, <2>5, LenProperties
<1> HIDE DEF lines, T
<1>7. V # <<>>
  <2> SUFFICES ASSUME V = <<>> PROVE F = <<>>
    BY <1>4
  <2> HIDE DEF V, clip
  <2>1. DOMAIN V = {}
    OBVIOUS
  <2> QED BY <1>3, <2>1
<1>8. /\ lines # <<>>
      /\ V \in Seq(T \cup {ClippedNotice})
      /\ Len(V) <= h /\ Len(V) \in Nat \ {0}
      /\ V[1] = lines[1]
      /\ h > 1 => Last(V) = Last(lines)
  BY <1>1, <1>6, <1>7, VisibleShows
<1> HIDE DEF V
<1>9. DOMAIN V = 1..Len(V) /\ \A i \in 1..Len(V) : V[i] \in T \cup {ClippedNotice}
  BY <1>8, LenProperties
<1>10. DOMAIN F = 1..Len(V) /\ Len(F) = Len(V) /\ \A i \in 1..Len(V) : F[i] = clip(V[i])
  <2> HIDE DEF clip, F
  <2> QED BY <1>3, <1>8, <1>9
<1>11. ClippedNotice \in Seq(Range(ClippedNotice))
  <2> DEFINE S == {"...", "content", "clipped", "to", "terminal", "size"}
  <2>1. \A a, b, c, d, e, f, g \in S : <<a, b, c, d, e, f, g>> \in Seq(S)
    <3> HIDE DEF S
    <3> QED OBVIOUS
  <2>2. /\ "..." \in S /\ "content" \in S /\ "clipped" \in S
        /\ "to" \in S /\ "terminal" \in S /\ "size" \in S
    OBVIOUS
  <2> HIDE DEF S
  <2>3. <<"...", "content", "clipped", "to", "terminal", "size", "...">> \in Seq(S)
    BY <2>1, <2>2, Zenon
  <2>4. ClippedNotice \in Seq(S)
    BY <2>3, Zenon DEF ClippedNotice
  <2> QED BY <2>4, OwnRange
<1>12. ASSUME NEW i \in 1..Len(V) PROVE V[i] \in Seq(Range(V[i]))
  <2>1. CASE V[i] = ClippedNotice
    BY <1>11, <2>1
  <2>2. CASE V[i] \in T
    <3>1. PICK j \in 1..n : V[i] = lines[j]
      BY <1>6, <2>2 DEF T, Range
    <3>2. Clipped(V[i], w)
      BY <1>5, <3>1
    <3> QED BY <3>2 DEF Clipped
  <2> QED BY <1>9, <1>12, <2>1, <2>2
<1>13. ASSUME NEW i \in 1..Len(V) PROVE Clipped(F[i], w)
  <2>1. Clipped(clip(V[i]), w)
    BY <1>1, <1>12, <1>13, ClipClips
  <2> HIDE DEF clip, F
  <2> QED BY <1>10, <2>1
<1>14. n \in Nat \ {0}
  BY <1>2, <1>6, <1>8, EmptySeq
<1>15. ASSUME NEW j \in 1..n PROVE clip(lines[j]) = clip(screen[j])
  <2>1. Clipped(lines[j], w) /\ lines[j] = clip(screen[j])
    BY <1>5
  <2>2. clip(lines[j]) = lines[j]
    BY <1>1, <2>1, ClipAgain
  <2> HIDE DEF clip
  <2> QED BY <2>1, <2>2
<1> HIDE DEF clip
<1>16. F[1] = clip(screen[1])
  <2>1. 1 \in 1..Len(V) /\ 1 \in 1..n
    BY <1>8, <1>14
  <2>2. F[1] = clip(V[1])
    BY <1>10, <2>1
  <2>3. clip(lines[1]) = clip(screen[1])
    BY <1>15, <2>1
  <2> HIDE DEF F
  <2> QED BY <1>8, <2>2, <2>3
<1>17. ASSUME h > 1 PROVE Last(F) = clip(Last(screen))
  <2>1. Len(V) \in 1..Len(V) /\ n \in 1..n
    BY <1>8, <1>14
  <2>2. F[Len(V)] = clip(V[Len(V)])
    BY <1>10, <2>1
  <2>3. clip(lines[n]) = clip(screen[n])
    BY <1>15, <2>1
  <2>4. V[Len(V)] = lines[n]
    BY <1>6, <1>8, <1>17 DEF Last
  <2>5. F[Len(F)] = clip(screen[Len(screen)])
    <3> HIDE DEF F
    <3> QED BY <1>10, <2>2, <2>3, <2>4
  <2> HIDE DEF F
  <2> QED BY <2>5 DEF Last
<1>20. ASSUME n <= h
       PROVE  Len(F) = n /\ \A i \in DOMAIN F : F[i] = clip(screen[i])
  <2>1. V = lines
    BY <1>6, <1>20, Zenon DEF V, Visible
  <2>2. \A i \in 1..n : F[i] = clip(screen[i])
    <3> HIDE DEF F
    <3> QED BY <1>6, <1>10, <1>15, <2>1
  <2> HIDE DEF F
  <2> QED BY <1>6, <1>10, <2>1, <2>2
<1>18. \A i \in DOMAIN F : Len(F[i]) <= w /\ "control" \notin Range(F[i])
  <2> TAKE i \in DOMAIN F
  <2>1. Clipped(F[i], w)
    BY <1>10, <1>13
  <2> HIDE DEF F
  <2> QED BY <2>1 DEF Clipped, Range
<1>19. Len(F) <= h
  BY <1>8, <1>10
<1> HIDE DEF F
<1> QED BY <1>4, <1>16, <1>17, <1>18, <1>19, <1>20 DEF FrameFits, clip

(***************************************************************************)
(* The terminal's mode and cursor are as they were found before the        *)
(* session is opened, and whenever run has ended all but for what a        *)
(* restoring call failed to do.                                            *)
(***************************************************************************)
ScreenInv ==
    /\ reader = "new" => tty = Restored
    /\ TerminalRestored
    /\ Drawn

\* A drop restores whatever it finds.
LEMMA DropRestores ==
    ASSUME NEW found, DropSession(found)
    PROVE  TerminalRestored' /\ reader' # "new"
BY DEF DropSession, TerminalRestored

LEMMA ScreenSteps ==
    ASSUME ScreenInv, [TerminalNext]_terminalVars
    PROVE  ScreenInv'
<1>1. CASE UNCHANGED terminalVars
  BY <1>1 DEF ScreenInv, Drawn, TerminalRestored, terminalVars
<1>2. ASSUME NEW command, Deliver(command), UNCHANGED frame \/ frame' = NoFrame
      PROVE  ScreenInv'
  <2>1. Drawn'
    BY <1>2 DEF ScreenInv, Drawn
  <2>2. CASE reader' = "draw"
    BY <2>1, <2>2 DEF ScreenInv, TerminalRestored, Ended
  <2>3. CASE DropSession(tty)
    BY <2>1, <2>3, DropRestores DEF ScreenInv
  <2> QED BY <1>2, <2>2, <2>3 DEF Deliver
<1>3. CASE OpenRefused
  BY <1>3 DEF OpenRefused, ScreenInv, Drawn, TerminalRestored, Restored, session
<1>4. CASE OpenSession
  BY <1>4 DEF OpenSession, ScreenInv, Drawn, TerminalRestored, Ended
<1>5. CASE OpenFails
  BY <1>5, DropRestores DEF OpenFails, ScreenInv, Drawn
<1>6. CASE Draw
  <2>1. PICK screen \in Screens, size \in WindowSizes : frame' = DrawnFrame(screen, size)
    BY <1>6 DEF Draw, DrawnFrame
  <2>2. reader' = "first"
    BY <1>6 DEF Draw
  <2> QED BY <2>1, <2>2 DEF ScreenInv, Drawn, TerminalRestored, Ended
<1>7. CASE SessionFails
  BY <1>7, DropRestores DEF SessionFails, ScreenInv, Drawn
<1>8. CASE ReadFirst
  <2>1. CASE \E command : Deliver(command)
    BY <1>2, <1>8, <2>1 DEF ReadFirst
  <2>2. CASE reader' \in {"escape", "utf8"}
    BY <1>8, <2>2 DEF ReadFirst, ScreenInv, Drawn, TerminalRestored, Ended
  <2> QED BY <1>8, <2>1, <2>2 DEF ReadFirst
<1>9. ASSUME reader \notin {"new"} \cup Ended, UNCHANGED <<session, reader, frame>> PROVE ScreenInv'
  BY <1>9 DEF ScreenInv, Drawn, TerminalRestored, session
<1>10. CASE ReadEscape
  <2>1. CASE \E command : Deliver(command)
    BY <1>2, <1>10, <2>1 DEF ReadEscape
  <2>2. CASE reader' = "drain"
    BY <1>10, <2>2 DEF ReadEscape, ScreenInv, Drawn, TerminalRestored, Ended
  <2>3. CASE UNCHANGED <<session, reader>>
    BY <1>9, <1>10, <2>3 DEF ReadEscape, Ended
  <2> QED BY <1>10, <2>1, <2>2, <2>3 DEF ReadEscape
<1>11. CASE EscapeTimeout
  BY <1>2, <1>11 DEF EscapeTimeout
<1>12. CASE DrainByte
  BY <1>2, <1>9, <1>12 DEF DrainByte, Ended
<1>13. CASE DrainTimeout
  BY <1>2, <1>13 DEF DrainTimeout
<1>14. CASE ReadUtf8
  BY <1>2, <1>9, <1>14 DEF ReadUtf8, Ended
<1>15. CASE Utf8Timeout
  BY <1>2, <1>15 DEF Utf8Timeout
<1>16. CASE KeyPressed \/ ByteArrives
  BY <1>16 DEF KeyPressed, ByteArrives, ScreenInv, Drawn, TerminalRestored, session
<1> QED
  BY <1>1, <1>3, <1>4, <1>5, <1>6, <1>7, <1>8, <1>10, <1>11, <1>12, <1>13, <1>14, <1>15, <1>16
     DEF TerminalNext

(***************************************************************************)
(* However run ends, the terminal is given back as it was found but for    *)
(* what a restoring call failed to do, and a frame has no more rows than   *)
(* the window and no more characters in a row than it has columns, no      *)
(* control character and its first and last line, for every text and every *)
(* window of at least one row and one column (compose_frame,               *)
(* TerminalSession::new and drop).                                         *)
(***************************************************************************)
THEOREM ScreenTheorem == TerminalSpec => []ScreenRespected
<1>1. TerminalInit => ScreenInv
  BY DEF TerminalInit, ScreenInv, Drawn, TerminalRestored, Ended
<1>2. ScreenInv /\ [TerminalNext]_terminalVars => ScreenInv'
  BY ScreenSteps
<1>3. ScreenInv => ScreenRespected
  <2> SUFFICES ASSUME ScreenInv PROVE ScreenRespected
    OBVIOUS
  <2>1. TerminalRestored
    BY DEF ScreenInv
  <2>2. CASE frame.lines = <<>>
    BY <2>1, <2>2 DEF ScreenRespected, FrameFits
  <2>3. CASE frame.lines # <<>>
    <3>1. frame # NoFrame
      BY <2>3 DEF NoFrame
    <3>2. PICK screen \in Screens, size \in WindowSizes : frame = DrawnFrame(screen, size)
      BY <3>1 DEF ScreenInv, Drawn
    <3> QED BY <2>1, <2>3, <3>2, ComposedFits DEF ScreenRespected
  <2> QED BY <2>2, <2>3
<1> QED BY <1>1, <1>2, <1>3, PTL DEF TerminalSpec

-----------------------------------------------------------------------------
(***************************************************************************)
(* The simulation of prefetching.                                          *)
(***************************************************************************)

\* The runs of a strategy, of a scenario's resources.
Simulations(s, sim) ==
    [phase : {"accessing"}, strategy : {sim.strategy}, predicted : {sim.predicted},
     selected : {sim.selected}, requested : {sim.requested},
     resident : UNION {[D -> Nat] : D \in SUBSET AllNames(s)}, bytes : Nat, peak : Nat,
     violations : Nat, order : Nat, pending : SUBSET AllNames(s), staged : Nat,
     redundant : Nat, newly : Nat, ineffective : Nat, deferred : Nat, rejected : Nat,
     evicted : Nat, reread : Nat, known : BOOLEAN]

\* What is held is what is charged, and what came in by staging is in use,
\* waiting for its first use or evicted.
Accounted(s, sim) ==
    /\ sim.bytes = BytesOfAll(s, DOMAIN sim.resident)
    /\ sim.bytes <= s.budget
    /\ sim.peak <= s.budget
    /\ sim.pending \subseteq DOMAIN sim.resident
    /\ sim.staged = sim.redundant + sim.newly + sim.ineffective
    /\ sim.evicted + BytesOfAll(s, sim.pending) <= sim.newly

\* The bytes that have met their fate are those of the names.
Fated(s, sim, names) == sim.staged + sim.deferred + sim.rejected = BytesOfAll(s, names)

\* The names of a scenario and their sizes.
LEMMA ScenarioNames ==
    ASSUME NEW s \in Scenarios
    PROVE  /\ IsFiniteSet(AllNames(s)) /\ AllNames(s) \subseteq Nat
           /\ \A n \in AllNames(s) : ResourceBytes(s, n) \in Nat
           /\ \A i \in DOMAIN s.resources :
                 /\ s.resources[i].name \in AllNames(s)
                 /\ ResourceBytes(s, s.resources[i].name) = s.resources[i].bytes
<1> DEFINE r == s.resources
           D == DOMAIN r
           name == [i \in D |-> r[i].name]
<1>1. /\ r \in Seq(Range(r)) /\ \A i \in D : r[i].name \in Nat /\ r[i].bytes \in Nat
      /\ \A i, j \in D : r[i].name = r[j].name => i = j
  BY ScenariosAssumption
<1>2. IsFiniteSet(D)
  <2>1. D = 1..Len(r) /\ Len(r) \in Nat
    BY <1>1, LenProperties
  <2> QED BY <2>1, FS_Interval
<1>3. AllNames(s) = {name[i] : i \in D}
  BY DEF AllNames
<1>4. IsFiniteSet(AllNames(s))
  <2>1. name \in Surjection(D, AllNames(s))
    BY <1>3 DEF Surjection
  <2> QED BY <1>2, <2>1, FS_Surjection
<1>5. ASSUME NEW i \in D PROVE r[i].name \in AllNames(s) /\ ResourceBytes(s, r[i].name) = r[i].bytes
  <2>1. r[i].name \in AllNames(s)
    BY DEF AllNames
  <2>2. ResourceNamed(s, r[i].name) = i
    BY <1>1 DEF ResourceNamed
  <2> QED BY <2>1, <2>2 DEF ResourceBytes
<1>6. ASSUME NEW n \in AllNames(s) PROVE n \in Nat /\ ResourceBytes(s, n) \in Nat
  <2>1. PICK i \in D : n = r[i].name
    BY DEF AllNames
  <2> QED BY <1>1, <1>5, <2>1
<1> QED BY <1>4, <1>5, <1>6

\* Bytes of names, one name more or less.
LEMMA BytesOfNames ==
    ASSUME NEW s \in Scenarios, NEW names \in SUBSET AllNames(s)
    PROVE  /\ IsFiniteSet(names) /\ BytesOfAll(s, names) \in Nat /\ BytesOfAll(s, {}) = 0
           /\ \A n \in names : BytesOfAll(s, names) = ResourceBytes(s, n) + BytesOfAll(s, names \ {n})
           /\ \A n \in AllNames(s) \ names :
                 BytesOfAll(s, names \cup {n}) = BytesOfAll(s, names) + ResourceBytes(s, n)
<1> DEFINE f == [n \in AllNames(s) |-> ResourceBytes(s, n)]
<1>1. IsFiniteSet(names)
  BY ScenarioNames, FS_Subset
<1>2. \A n \in AllNames(s) : f[n] = ResourceBytes(s, n) /\ f[n] \in Nat
  BY ScenarioNames
<1>3. \A N : BytesOfAll(s, N) = SumOver(f, N)
  BY DEF BytesOfAll, SumOver
<1> HIDE DEF f
<1>4. SumOver(f, names) \in Nat
  BY <1>1, <1>2, SumNat
<1>5. ASSUME NEW n \in names PROVE SumOver(f, names) = f[n] + SumOver(f, names \ {n})
  BY <1>1, <1>2, SumRemove
<1>6. ASSUME NEW n \in AllNames(s) \ names PROVE SumOver(f, names \cup {n}) = SumOver(f, names) + f[n]
  BY <1>1, <1>2, SumAdd
<1> QED BY <1>1, <1>2, <1>3, <1>4, <1>5, <1>6, SumEmpty

\* What a resource that comes in changes.
LEMMA HoldingCounts ==
    ASSUME NEW s \in Scenarios, NEW base, NEW sim \in Simulations(s, base), Accounted(s, sim),
           NEW n \in AllNames(s) \ DOMAIN sim.resident, NEW order \in Nat,
           sim.bytes + ResourceBytes(s, n) <= s.budget
    PROVE  LET held == Holding(sim, n, order, ResourceBytes(s, n))
           IN  /\ held \in Simulations(s, base) /\ Accounted(s, held)
               /\ DOMAIN held.resident = DOMAIN sim.resident \cup {n}
               /\ held = [sim EXCEPT !.resident = held.resident, !.bytes = held.bytes]
               /\ held.bytes \in Nat /\ held.bytes <= s.budget
<1> DEFINE b == ResourceBytes(s, n)
           old == sim.resident
           new == [m \in DOMAIN old \cup {n} |-> IF m = n THEN order ELSE old[m]]
           held == [sim EXCEPT !.resident = new, !.bytes = sim.bytes + b]
<1>1. b \in Nat /\ s.budget \in Nat
  BY ScenarioNames, ScenariosAssumption
<1>2. /\ DOMAIN old \in SUBSET AllNames(s) /\ \A m \in DOMAIN old : old[m] \in Nat
      /\ sim.bytes \in Nat
  BY DEF Simulations
<1>3. Holding(sim, n, order, b) = held
  BY DEF Holding, Simulations
<1>4. new \in [DOMAIN old \cup {n} -> Nat] /\ DOMAIN old \cup {n} \in SUBSET AllNames(s)
  BY <1>2
<1>5. new \in UNION {[D -> Nat] : D \in SUBSET AllNames(s)} /\ DOMAIN new = DOMAIN old \cup {n}
  BY <1>4
<1>6. BytesOfAll(s, DOMAIN new) = sim.bytes + b
  BY <1>2, <1>5, BytesOfNames DEF Accounted
<1> HIDE DEF new, b
<1>7. held \in Simulations(s, base)
  <2>1. sim.bytes + b \in Nat
    BY <1>1, <1>2
  <2> QED BY <1>5, <2>1 DEF Simulations
<1>8. held.resident = new /\ held.bytes = sim.bytes + b
  BY DEF Simulations
<1>9. /\ held.peak = sim.peak /\ held.pending = sim.pending /\ held.staged = sim.staged
      /\ held.redundant = sim.redundant /\ held.newly = sim.newly
      /\ held.ineffective = sim.ineffective /\ held.evicted = sim.evicted
  BY DEF Simulations
<1>10. held = [sim EXCEPT !.resident = held.resident, !.bytes = held.bytes]
  BY <1>8
<1>11. sim.bytes + b <= s.budget /\ sim.bytes + b \in Nat
  BY <1>1, <1>2 DEF b
<1> HIDE DEF held
<1>12. Accounted(s, held)
  BY <1>5, <1>6, <1>8, <1>9, <1>11 DEF Accounted
<1> QED BY <1>3, <1>5, <1>7, <1>8, <1>10, <1>11, <1>12 DEF b

\* An eviction takes its resource off, and if that was waiting for its first
\* use, the bytes are counted.
Evicted(s, base, sim, n, out) ==
    /\ out \in Simulations(s, base)
    /\ Accounted(s, out)
    /\ DOMAIN out.resident = DOMAIN sim.resident \ {n}
    /\ out.staged = sim.staged /\ out.deferred = sim.deferred /\ out.rejected = sim.rejected
    /\ out.order = sim.order

LEMMA EvictCounts ==
    ASSUME NEW s \in Scenarios, NEW base, NEW sim \in Simulations(s, base), Accounted(s, sim),
           NEW n, n \in DOMAIN sim.resident
    PROVE  Evicted(s, base, sim, n, EvictResource(s, sim, n))
<1> DEFINE b == ResourceBytes(s, n)
           old == sim.resident
           new == [m \in DOMAIN old \ {n} |-> old[m]]
           ev == IF n \in sim.pending THEN sim.evicted + b ELSE sim.evicted
           less == [sim EXCEPT !.resident = new, !.bytes = sim.bytes - b, !.evicted = ev,
                              !.pending = sim.pending \ {n}]
<1>1. /\ DOMAIN old \in SUBSET AllNames(s) /\ \A m \in DOMAIN old : old[m] \in Nat
      /\ sim.bytes \in Nat /\ sim.evicted \in Nat /\ sim.pending \in SUBSET AllNames(s)
      /\ sim.newly \in Nat
  BY DEF Simulations
<1>2. b \in Nat /\ n \in AllNames(s) /\ s.budget \in Nat
  BY <1>1, ScenarioNames, ScenariosAssumption
<1>3. EvictResource(s, sim, n) = less
  BY DEF EvictResource, Simulations
<1>4. new \in [DOMAIN old \ {n} -> Nat] /\ DOMAIN old \ {n} \in SUBSET AllNames(s)
  BY <1>1
<1>5. new \in UNION {[D -> Nat] : D \in SUBSET AllNames(s)} /\ DOMAIN new = DOMAIN old \ {n}
  BY <1>4
<1>6. sim.bytes = b + BytesOfAll(s, DOMAIN new) /\ BytesOfAll(s, DOMAIN new) \in Nat
  BY <1>1, <1>4, <1>5, BytesOfNames DEF Accounted
<1>7. /\ ev \in Nat
      /\ ev + BytesOfAll(s, sim.pending \ {n}) <= sim.newly
  <2>1. /\ n \in sim.pending => BytesOfAll(s, sim.pending) = b + BytesOfAll(s, sim.pending \ {n})
        /\ n \notin sim.pending => sim.pending \ {n} = sim.pending
    BY <1>1, BytesOfNames
  <2>2. BytesOfAll(s, sim.pending) \in Nat /\ BytesOfAll(s, sim.pending \ {n}) \in Nat
    BY <1>1, BytesOfNames
  <2>3. sim.evicted + BytesOfAll(s, sim.pending) <= sim.newly
    BY DEF Accounted
  <2> HIDE DEF b
  <2>4. CASE n \in sim.pending
    <3>1. ev = sim.evicted + b
      BY <2>4
    <3> HIDE DEF ev
    <3> QED BY <1>1, <1>2, <2>1, <2>2, <2>3, <2>4, <3>1
  <2>5. CASE n \notin sim.pending
    <3>1. ev = sim.evicted
      BY <2>5
    <3> HIDE DEF ev
    <3> QED BY <1>1, <2>1, <2>2, <2>3, <2>5, <3>1
  <2> QED BY <2>4, <2>5
<1> HIDE DEF new, b, ev
<1>8. sim.bytes - b \in Nat /\ sim.bytes - b = BytesOfAll(s, DOMAIN new)
  BY <1>2, <1>6
<1>9. less \in Simulations(s, base)
  BY <1>1, <1>5, <1>7, <1>8 DEF Simulations
<1>10. /\ less.resident = new /\ less.bytes = sim.bytes - b /\ less.evicted = ev
       /\ less.pending = sim.pending \ {n}
  BY DEF Simulations
<1>11. /\ less.peak = sim.peak /\ less.staged = sim.staged /\ less.redundant = sim.redundant
       /\ less.newly = sim.newly /\ less.ineffective = sim.ineffective
       /\ less.deferred = sim.deferred /\ less.rejected = sim.rejected /\ less.order = sim.order
  BY DEF Simulations
<1> HIDE DEF less
<1>12. Accounted(s, less)
  <2>1. sim.bytes - b <= s.budget
    BY <1>1, <1>2, <1>8 DEF Accounted
  <2> QED BY <1>5, <1>7, <1>8, <1>10, <1>11, <2>1 DEF Accounted
<1>13. /\ DOMAIN less.resident = DOMAIN old \ {n}
       /\ less.staged = sim.staged /\ less.deferred = sim.deferred /\ less.rejected = sim.rejected
       /\ less.order = sim.order
  BY <1>5, <1>10, <1>11
<1>14. Evicted(s, base, sim, n, less)
  BY <1>9, <1>12, <1>13 DEF Evicted
<1> QED BY <1>3, <1>14, Zenon

\* Names in their order name each of them once.
LEMMA NamesInOrder ==
    ASSUME NEW N, IsFiniteSet(N), N \subseteq Nat
    PROVE  LET q == ByName(N)
               c == Cardinality(N)
           IN  /\ c \in Nat /\ DOMAIN q = 1..c /\ Len(q) = c
               /\ q \in [1..c -> N]
               /\ \A i, j \in 1..c : q[i] = q[j] => i = j
               /\ \A x \in N : \E i \in 1..c : q[i] = x
<1> DEFINE c == Cardinality(N)
           D == 1..c
           ranks == 0..(c - 1)
           before(x) == {m \in N : m < x}
           rank == [x \in N |-> Cardinality(before(x))]
           e(k) == CHOOSE x \in N : Cardinality({m \in N : m < x}) = k - 1
           q == ByName(N)
<1>1. c \in Nat
  BY FS_CardinalityType
<1>2. IsFiniteSet(ranks) /\ Cardinality(ranks) = c
  <2> HIDE DEF c
  <2>1. 0 \in Int /\ c - 1 \in Int
    BY <1>1
  <2>2. IsFiniteSet(ranks) /\ Cardinality(ranks) = IF 0 > c - 1 THEN 0 ELSE c - 1 - 0 + 1
    BY <2>1, FS_Interval
  <2> QED BY <1>1, <2>2
<1>3. \A x \in N : IsFiniteSet(before(x)) /\ Cardinality(before(x)) \in ranks
  <2> TAKE x \in N
  <2>1. before(x) \subseteq N /\ x \notin before(x)
    OBVIOUS
  <2>2. IsFiniteSet(before(x)) /\ Cardinality(before(x)) \in Nat
    BY <2>1, FS_Subset, FS_CardinalityType
  <2> HIDE DEF before
  <2>3. before(x) \cup {x} \subseteq N
    BY <2>1
  <2>4. Cardinality(before(x) \cup {x}) = Cardinality(before(x)) + 1
    BY <2>1, <2>2, FS_AddElement
  <2>5. Cardinality(before(x) \cup {x}) <= c
    BY <2>3, FS_Subset
  <2> HIDE DEF c
  <2> QED BY <1>1, <2>2, <2>4, <2>5
<1>4. ASSUME NEW x \in N, NEW y \in N, x < y PROVE rank[x] < rank[y]
  <2>1. before(x) \subseteq before(y) /\ x \in before(y) /\ x \notin before(x)
    <3>1. \A m \in N : m \in Nat
      OBVIOUS
    <3>2. ~(x < x) /\ \A m \in N : m < x => m < y
      BY <1>4, <3>1
    <3> QED BY <1>4, <3>2
  <2>2. IsFiniteSet(before(y)) /\ IsFiniteSet(before(x))
    BY <1>3
  <2>3. Cardinality(before(x)) \in Nat /\ Cardinality(before(y)) \in Nat
    BY <2>2, FS_CardinalityType
  <2> HIDE DEF before
  <2>4. before(x) \cup {x} \subseteq before(y)
    BY <2>1
  <2>5. Cardinality(before(x) \cup {x}) = Cardinality(before(x)) + 1
    BY <2>1, <2>2, FS_AddElement
  <2>6. Cardinality(before(x) \cup {x}) <= Cardinality(before(y))
    BY <2>2, <2>4, FS_Subset
  <2> QED BY <2>3, <2>5, <2>6
<1>5. rank \in [N -> ranks]
  BY <1>3
<1>6. \A x \in N : rank[x] \in Int
  <2>1. \A v \in ranks : v \in Int
    OBVIOUS
  <2> HIDE DEF rank, ranks
  <2> QED BY <1>5, <2>1
<1>7. \A x, y \in N : rank[x] = rank[y] => x = y
  <2> SUFFICES ASSUME NEW x \in N, NEW y \in N, x # y PROVE rank[x] # rank[y]
    OBVIOUS
  <2>1. x \in Nat /\ y \in Nat
    OBVIOUS
  <2>2. rank[x] < rank[y] \/ rank[y] < rank[x]
    BY <1>4, <2>1
  <2> HIDE DEF rank
  <2> QED BY <1>6, <2>2
<1>8. \A x \in N : rank[x] = Cardinality({m \in N : m < x})
  OBVIOUS
<1> HIDE DEF rank
<1>9. rank \in Surjection(N, ranks)
  <2>1. rank \in Injection(N, ranks)
    BY <1>5, <1>7 DEF Injection, IsInjective
  <2> QED BY <1>2, <2>1, FS_Injection
<1>10. \A v \in ranks : \E x \in N : rank[x] = v
  BY <1>9 DEF Surjection
<1>11. q = [k \in D |-> e(k)]
  BY DEF ByName
<1>12. \A p \in D : e(p) \in N /\ rank[e(p)] = p - 1
  <2> TAKE p \in D
  <2>1. e(p) = CHOOSE x \in N : rank[x] = p - 1
    BY <1>8
  <2>2. p - 1 \in ranks
    BY <1>1
  <2>3. \E x \in N : rank[x] = p - 1
    BY <1>10, <2>2
  <2> HIDE DEF e
  <2> QED BY <2>1, <2>3
<1> HIDE DEF e, q
<1>13. q \in [D -> N] /\ DOMAIN q = D /\ \A p \in D : rank[q[p]] = p - 1
  BY <1>11, <1>12
<1>14. \A i, j \in D : q[i] = q[j] => i = j
  BY <1>13
<1>15. \A x \in N : \E i \in D : q[i] = x
  <2> TAKE x \in N
  <2>1. rank[x] + 1 \in D /\ rank[x] \in Int
    BY <1>1, <1>5
  <2>2. rank[q[rank[x] + 1]] = rank[x] + 1 - 1
    BY <1>13, <2>1
  <2>3. q[rank[x] + 1] \in N /\ rank[q[rank[x] + 1]] = rank[x]
    BY <1>13, <2>1, <2>2
  <2>4. q[rank[x] + 1] = x
    BY <1>7, <2>3
  <2> QED BY <2>1, <2>4
<1>16. Len(q) = c
  BY <1>1, <1>13, LenProperties
<1> QED BY <1>1, <1>13, <1>14, <1>15, <1>16 DEF q

\* The last of some numbers of 1..n is one of them.
LEMMA LastOf ==
    ASSUME NEW n \in Nat, NEW s \in SUBSET (1..n), s # {}
    PROVE  Max(s) \in 1..n /\ s \ {Max(s)} \in SUBSET (1..n)
<1>1. IsFiniteSet(1..n)
  <2>1. 1 \in Int /\ n \in Int
    OBVIOUS
  <2> QED BY <2>1, FS_Interval
<1>2. IsFiniteSet(s) /\ s \subseteq Nat
  <2>1. IsFiniteSet(s)
    BY <1>1, FS_Subset
  <2>2. s \subseteq Nat
    OBVIOUS
  <2> QED BY <2>1, <2>2
<1>3. Max(s) \in s
  BY <1>2, GreatestOf
<1> QED BY <1>3

\* There is a victim while anything is resident.
LEMMA VictimResident ==
    ASSUME NEW s \in Scenarios, NEW base, NEW sim \in Simulations(s, base),
           DOMAIN sim.resident # {}
    PROVE  SimVictim(sim) \in DOMAIN sim.resident
<1> DEFINE R == sim.resident
           D == DOMAIN R
           orders == {R[n] : n \in D}
<1>1. D \subseteq Nat /\ \A n \in D : R[n] \in Nat
  <2>1. D \subseteq AllNames(s) /\ \A n \in D : R[n] \in Nat
    BY DEF Simulations
  <2> QED BY <2>1, ScenarioNames
<1>2. PICK least \in orders : \A k \in orders : least <= k
  <2>1. orders \subseteq Nat /\ orders # {}
    BY <1>1
  <2> HIDE DEF orders
  <2> QED BY <2>1, LeastNumber
<1> DEFINE oldest == {n \in D : R[n] = least}
<1>3. PICK v \in oldest : \A n \in oldest : v <= n
  <2>1. oldest \subseteq Nat /\ oldest # {}
    BY <1>1, <1>2
  <2> HIDE DEF oldest
  <2> QED BY <2>1, LeastNumber
<1>4. v \in D /\ R[v] = least /\ v \in Nat /\ least \in Nat
  BY <1>1, <1>3
<1>5. ASSUME NEW m \in D \ {v} PROVE R[v] < R[m] \/ (R[v] = R[m] /\ v < m)
  <2>1. R[m] \in Nat /\ m \in Nat /\ m # v /\ least <= R[m]
    BY <1>1, <1>2
  <2>2. R[m] = least => v <= m
    BY <1>3
  <2> HIDE DEF D, R
  <2> QED BY <1>4, <2>1, <2>2
<1> QED BY <1>4, <1>5 DEF SimVictim

\* One more step of making room.
Roomy(s, base, sim) ==
    {out \in Simulations(s, base) :
        /\ Accounted(s, out)
        /\ DOMAIN out.resident \subseteq DOMAIN sim.resident
        /\ out.staged = sim.staged /\ out.deferred = sim.deferred /\ out.rejected = sim.rejected
        /\ out.order = sim.order}

LEMMA RoomSteps ==
    ASSUME scenario \in Scenarios, NEW base, NEW sim,
           NEW p \in Roomy(scenario, base, sim), NEW n
    PROVE  MakeRoom(p, n) \in Roomy(scenario, base, sim)
<1>1. CASE ~TooFull(p, n)
  BY <1>1 DEF MakeRoom
<1>2. CASE TooFull(p, n)
  <2> DEFINE v == SimVictim(p)
  <2>1. p \in Simulations(scenario, base) /\ Accounted(scenario, p)
    BY DEF Roomy
  <2>2. v \in DOMAIN p.resident
    BY <1>2, <2>1, VictimResident DEF TooFull
  <2> HIDE DEF v
  <2>3. Evicted(scenario, base, p, v, EvictResource(scenario, p, v))
    BY <2>1, <2>2, EvictCounts
  <2>4. EvictResource(scenario, p, v) \in Roomy(scenario, base, sim)
    <3> DEFINE out == EvictResource(scenario, p, v)
    <3> HIDE DEF out
    <3> SUFFICES out \in Roomy(scenario, base, sim)
      BY DEF out
    <3>1. Evicted(scenario, base, p, v, out)
      BY <2>3 DEF out
    <3> QED BY <3>1 DEF Evicted, Roomy
  <2> QED BY <1>2, <2>4 DEF MakeRoom, v
<1> QED BY <1>1, <1>2

\* Making room evicts, and does nothing else.
LEMMA RoomKept ==
    ASSUME scenario \in Scenarios, NEW base, simulation \in Simulations(scenario, base),
           Accounted(scenario, simulation), NEW n
    PROVE  RoomFor(n) \in Roomy(scenario, base, simulation)
<1> DEFINE m == Cardinality(DOMAIN simulation.resident)
           D == 1..m
           A == Roomy(scenario, base, simulation)
           step == [x \in A \X D |-> MakeRoom(x[1], n)]
           Runs(h) == h = [s \in SUBSET D |-> IF s = {} THEN simulation
                                             ELSE MakeRoom(h[s \ {Max(s)}], n)]
<1>1. m \in Nat
  <2>1. DOMAIN simulation.resident \in SUBSET AllNames(scenario)
    BY DEF Simulations
  <2> QED BY <2>1, BytesOfNames, FS_CardinalityType
<1>2. simulation \in A
  BY DEF Roomy
<1>3. \A p \in A : MakeRoom(p, n) \in A
  BY RoomSteps
<1> HIDE DEF A, m
<1>4. step \in [A \X D -> A]
  BY <1>3
<1>5. \A p \in A, i \in D : step[<<p, i>>] = MakeRoom(p, n)
  OBVIOUS
<1> HIDE DEF step
<1>6. PICK g \in [SUBSET D -> A] : StepsBy(g, step, simulation, m)
  BY <1>1, <1>2, <1>4, FoldRuns
<1>7. Runs(g)
  <2>1. \A s \in SUBSET D : s # {} => Max(s) \in D /\ g[s \ {Max(s)}] \in A
    BY <1>1, <1>6, LastOf
  <2>2. \A s \in SUBSET D : s # {} =>
           step[<<g[s \ {Max(s)}], Max(s)>>] = MakeRoom(g[s \ {Max(s)}], n)
    <3> HIDE DEF D
    <3> QED BY <1>5, <2>1
  <2> QED BY <1>6, <2>2 DEF StepsBy
<1> DEFINE H == CHOOSE h : Runs(h)
<1>8. Runs(H)
  <2> HIDE DEF Runs
  <2> QED BY <1>7
<1>9. RoomFor(n) = H[D]
  <2> DEFINE q == [k \in 1..m |-> k]
  <2>1. DOMAIN q = 1..m /\ Len(q) = m
    BY <1>1, LenProperties
  <2> QED BY <1>1, <2>1 DEF RoomFor, FoldLeft, MapThenFoldSet, m
<1> HIDE DEF H
<1>10. H[{}] = simulation /\ 1..0 = {}
  BY <1>8
<1>11. \A i \in D : H[1..i] = MakeRoom(H[1..(i - 1)], n)
  <2> TAKE i \in D
  <2>1. Max(1..i) = i /\ (1..i) \ {i} = 1..(i - 1) /\ 1..i # {} /\ 1..i \in SUBSET D
    BY <1>1, GreatestOfFirst
  <2>2. H[1..i] = MakeRoom(H[(1..i) \ {Max(1..i)}], n)
    <3> HIDE DEF D
    <3> QED BY <1>8, <2>1
  <2> QED BY <2>1, <2>2
<1> HIDE DEF Runs
<1> DEFINE T == {k \in 0..m : H[1..k] \in A}
<1>12. 0 \in T
  BY <1>1, <1>2, <1>10
<1>13. ASSUME NEW k \in 1..m, k - 1 \in T PROVE k \in T
  BY <1>1, <1>3, <1>11, <1>13
<1>14. m \in T
  <2> HIDE DEF T
  <2> QED BY <1>1, <1>12, <1>13, UpTo
<1> QED BY <1>9, <1>14 DEF A

\* The simulation before any prefetch, with the first of the resources that
\* start out resident looked at.
Fresh(s, base, sim, i) ==
    /\ sim \in Simulations(s, base)
    /\ Accounted(s, sim)
    /\ DOMAIN sim.resident \subseteq {s.resources[j].name : j \in 1..i}
    /\ sim.staged = 0 /\ sim.deferred = 0 /\ sim.rejected = 0 /\ sim.order = 0

LEMMA StartedFresh ==
    ASSUME NEW s \in Scenarios, NEW base, NEW i \in DOMAIN s.resources, NEW sim,
           Fresh(s, base, sim, i - 1)
    PROVE  Fresh(s, base, Started(s, sim, s.resources[i]), i)
<1> DEFINE r == s.resources[i]
           out == Started(s, sim, r)
<1>1. /\ i \in Nat \ {0} /\ r.name \in AllNames(s) /\ r.bytes \in Nat
      /\ r.bytes = ResourceBytes(s, r.name)
      /\ \A j \in DOMAIN s.resources : s.resources[j].name = r.name => j = i
      /\ 1..i \subseteq DOMAIN s.resources
  <2>1. /\ s.resources \in Seq(Range(s.resources)) /\ r.bytes \in Nat
        /\ \A j \in DOMAIN s.resources : s.resources[j].name = r.name => j = i
    BY ScenariosAssumption
  <2>2. DOMAIN s.resources = 1..Len(s.resources) /\ Len(s.resources) \in Nat
    BY <2>1, LenProperties
  <2> QED BY <2>1, <2>2, ScenarioNames
<1>2. sim \in Simulations(s, base) /\ Accounted(s, sim)
  BY DEF Fresh
<1>3. {s.resources[j].name : j \in 1..(i - 1)} \subseteq {s.resources[j].name : j \in 1..i}
  BY <1>1
<1> SUFFICES Fresh(s, base, out, i)
  OBVIOUS
<1>4. CASE r.initial # "Resident"
  BY <1>3, <1>4 DEF Started, Fresh
<1>5. CASE r.initial = "Resident" /\ sim.bytes + r.bytes <= s.budget
  <2>1. r.name \notin DOMAIN sim.resident
    BY <1>1 DEF Fresh
  <2>2. out = Holding(sim, r.name, 0, ResourceBytes(s, r.name))
    BY <1>1, <1>5 DEF Started
  <2>3. /\ out \in Simulations(s, base) /\ Accounted(s, out)
        /\ DOMAIN out.resident = DOMAIN sim.resident \cup {r.name}
        /\ out = [sim EXCEPT !.resident = out.resident, !.bytes = out.bytes]
    <3> DEFINE nm == r.name
    <3>1. /\ nm \in AllNames(s) \ DOMAIN sim.resident
          /\ sim.bytes + ResourceBytes(s, nm) <= s.budget
          /\ out = Holding(sim, nm, 0, ResourceBytes(s, nm))
      BY <1>1, <1>5, <2>1, <2>2
    <3> HIDE DEF nm, out
    <3>2. LET held == Holding(sim, nm, 0, ResourceBytes(s, nm))
          IN  /\ held \in Simulations(s, base) /\ Accounted(s, held)
              /\ DOMAIN held.resident = DOMAIN sim.resident \cup {nm}
              /\ held = [sim EXCEPT !.resident = held.resident, !.bytes = held.bytes]
              /\ held.bytes \in Nat /\ held.bytes <= s.budget
      BY <1>2, <3>1, HoldingCounts
    <3> QED BY <3>1, <3>2 DEF nm
  <2> HIDE DEF out, r
  <2>4. /\ out.staged = sim.staged /\ out.deferred = sim.deferred
        /\ out.rejected = sim.rejected /\ out.order = sim.order
    BY <1>2, <2>3 DEF Simulations
  <2>5. r.name \in {s.resources[j].name : j \in 1..i}
    BY <1>1 DEF r
  <2> QED BY <1>3, <2>3, <2>4, <2>5 DEF Fresh
<1>6. CASE r.initial = "Resident" /\ ~(sim.bytes + r.bytes <= s.budget)
  <2>1. out = [sim EXCEPT !.violations = sim.violations + 1]
    BY <1>6 DEF Started
  <2>2. out \in Simulations(s, base)
    BY <1>2, <2>1 DEF Simulations
  <2>3. /\ out.resident = sim.resident /\ out.bytes = sim.bytes /\ out.peak = sim.peak
        /\ out.pending = sim.pending /\ out.staged = sim.staged
        /\ out.redundant = sim.redundant /\ out.newly = sim.newly
        /\ out.ineffective = sim.ineffective /\ out.evicted = sim.evicted
        /\ out.deferred = sim.deferred /\ out.rejected = sim.rejected /\ out.order = sim.order
    BY <1>2, <2>1 DEF Simulations
  <2> HIDE DEF out
  <2>4. Accounted(s, out)
    BY <1>2, <2>3 DEF Accounted
  <2> QED BY <1>3, <2>2, <2>3, <2>4 DEF Fresh
<1> QED BY <1>4, <1>5, <1>6

\* What starts out resident is charged, and nothing is staged yet.
LEMMA InitialFresh ==
    ASSUME NEW s \in Scenarios, NEW base, Fresh(s, base, base, 0)
    PROVE  WithInitial(s, base) \in Simulations(s, base) /\ Fresh(s, base, WithInitial(s, base), Len(s.resources))
<1> DEFINE r == s.resources
           n == Len(r)
           D == 1..n
           A == Simulations(s, base)
           step == [x \in A \X D |-> Started(s, x[1], r[x[2]])]
           Runs(h) == h = [u \in SUBSET D |-> IF u = {} THEN base
                                             ELSE Started(s, h[u \ {Max(u)}], r[Max(u)])]
<1>1. n \in Nat /\ DOMAIN r = D /\ \A i \in D : r[i].bytes \in Nat /\ r[i].name \in AllNames(s)
  <2>1. r \in Seq(Range(r)) /\ \A i \in DOMAIN r : r[i].bytes \in Nat
    BY ScenariosAssumption
  <2> QED BY <2>1, LenProperties, ScenarioNames
<1>2. base \in A
  BY DEF Fresh
<1>3. \A p \in A, i \in D : Started(s, p, r[i]) \in A
  <2> SUFFICES ASSUME NEW p \in A, NEW i \in D PROVE Started(s, p, r[i]) \in A
    OBVIOUS
  <2> DEFINE nm == r[i].name
             b == r[i].bytes
             new == [m \in DOMAIN p.resident \cup {nm} |-> IF m = nm THEN 0 ELSE p.resident[m]]
  <2>0. nm \in AllNames(s) /\ b \in Nat
    BY <1>1
  <2> HIDE DEF nm, b
  <2>1. new \in UNION {[E -> Nat] : E \in SUBSET AllNames(s)}
    <3>1. DOMAIN p.resident \in SUBSET AllNames(s) /\ \A m \in DOMAIN p.resident : p.resident[m] \in Nat
      BY DEF Simulations
    <3>2. /\ new \in [DOMAIN p.resident \cup {nm} -> Nat]
          /\ DOMAIN p.resident \cup {nm} \in SUBSET AllNames(s)
      BY <2>0, <3>1
    <3> QED BY <3>2
  <2>2. Holding(p, nm, 0, b) = [p EXCEPT !.resident = new, !.bytes = p.bytes + b]
    BY DEF Holding, Simulations
  <2>3. p.bytes + b \in Nat
    BY <2>0 DEF Simulations
  <2> HIDE DEF new
  <2>4. [p EXCEPT !.resident = new, !.bytes = p.bytes + b] \in A
    BY <2>1, <2>3 DEF Simulations
  <2>5. [p EXCEPT !.violations = p.violations + 1] \in A
    <3>1. p.violations + 1 \in Nat
      BY DEF Simulations
    <3> QED BY <3>1 DEF Simulations
  <2>6. /\ r[i].initial # "Resident" => Started(s, p, r[i]) = p
        /\ r[i].initial = "Resident" /\ p.bytes + b <= s.budget
             => Started(s, p, r[i]) = Holding(p, nm, 0, b)
        /\ r[i].initial = "Resident" /\ ~(p.bytes + b <= s.budget)
             => Started(s, p, r[i]) = [p EXCEPT !.violations = p.violations + 1]
    BY DEF Started, nm, b
  <2> QED BY <2>2, <2>4, <2>5, <2>6
<1> HIDE DEF A
<1>4. step \in [A \X D -> A]
  BY <1>3
<1>5. \A p \in A, i \in D : step[<<p, i>>] = Started(s, p, r[i])
  OBVIOUS
<1> HIDE DEF step
<1>6. PICK g \in [SUBSET D -> A] : StepsBy(g, step, base, n)
  <2> HIDE DEF n
  <2> QED BY <1>1, <1>2, <1>4, FoldRuns
<1>7. Runs(g)
  <2>1. \A u \in SUBSET D : u # {} => Max(u) \in D /\ g[u \ {Max(u)}] \in A
    <3> HIDE DEF n
    <3> QED BY <1>1, <1>6, LastOf
  <2>2. \A u \in SUBSET D : u # {} =>
           step[<<g[u \ {Max(u)}], Max(u)>>] = Started(s, g[u \ {Max(u)}], r[Max(u)])
    <3> HIDE DEF D
    <3> QED BY <1>5, <2>1
  <2> QED BY <1>6, <2>2 DEF StepsBy
<1> DEFINE H == CHOOSE h : Runs(h)
<1>8. Runs(H)
  <2> HIDE DEF Runs
  <2> QED BY <1>7
<1>9. WithInitial(s, base) = H[D]
  BY <1>1 DEF WithInitial, FoldLeft, MapThenFoldSet
<1> HIDE DEF H
<1>10. H[{}] = base /\ 1..0 = {}
  BY <1>8
<1>11. \A i \in D : H[1..i] = Started(s, H[1..(i - 1)], r[i])
  <2> TAKE i \in D
  <2>1. Max(1..i) = i /\ (1..i) \ {i} = 1..(i - 1) /\ 1..i # {} /\ 1..i \in SUBSET D
    BY <1>1, GreatestOfFirst
  <2>2. H[1..i] = Started(s, H[(1..i) \ {Max(1..i)}], r[Max(1..i)])
    <3> HIDE DEF D
    <3> QED BY <1>8, <2>1
  <2> QED BY <2>1, <2>2
<1> HIDE DEF Runs
<1> DEFINE T == {k \in 0..n : Fresh(s, base, H[1..k], k)}
<1>12. 0 \in T
  BY <1>1, <1>10
<1>13. ASSUME NEW k \in 1..n, k - 1 \in T PROVE k \in T
  <2>1. k \in DOMAIN s.resources /\ Fresh(s, base, H[1..(k - 1)], k - 1)
    BY <1>1, <1>13
  <2>2. Fresh(s, base, Started(s, H[1..(k - 1)], r[k]), k)
    BY <2>1, StartedFresh
  <2>3. k \in 0..n
    BY <1>1
  <2>4. H[1..k] = Started(s, H[1..(k - 1)], r[k])
    BY <1>11
  <2>5. Fresh(s, base, H[1..k], k)
    BY <2>2, <2>4, Zenon
  <2> QED BY <2>3, <2>5
<1>14. n \in T
  <2>1. n \in Nat /\ \A k \in 1..n : k - 1 \in T => k \in T
    BY <1>1, <1>13
  <2> HIDE DEF T, n
  <2>2. \A k \in 0..n : k \in T
    BY <1>12, <2>1, UpTo
  <2> QED BY <2>1, <2>2
<1>15. Fresh(s, base, WithInitial(s, base), n)
  BY <1>9, <1>14
<1> QED BY <1>15 DEF Fresh

\* A prefetch gives the bytes of its resource one fate.
LEMMA PrefetchCounts ==
    ASSUME NEW s \in Scenarios, NEW base, NEW sim \in Simulations(s, base), Accounted(s, sim),
           NEW n \in AllNames(s)
    PROVE  LET out == Prefetched(s, sim, n)
           IN  /\ out \in Simulations(s, base) /\ Accounted(s, out) /\ out.order = sim.order
               /\ out.staged + out.deferred + out.rejected
                    = sim.staged + sim.deferred + sim.rejected + ResourceBytes(s, n)
<1> DEFINE b == ResourceBytes(s, n)
           out == Prefetched(s, sim, n)
           held == Holding(sim, n, 0, b)
<1>1. b \in Nat /\ s.budget \in Nat /\ s.effect \in {"MakesResident", "NoEffect", "Fail", "Unknown"}
  BY ScenarioNames, ScenariosAssumption
<1>2. /\ sim.staged \in Nat /\ sim.deferred \in Nat /\ sim.rejected \in Nat /\ sim.redundant \in Nat
      /\ sim.newly \in Nat /\ sim.ineffective \in Nat /\ sim.bytes \in Nat /\ sim.peak \in Nat
      /\ sim.evicted \in Nat /\ sim.pending \in SUBSET AllNames(s)
  BY DEF Simulations
<1>3. ASSUME NEW o, o \in Simulations(s, base), o.resident = sim.resident, o.bytes = sim.bytes,
             o.peak = sim.peak, o.pending = sim.pending, o.evicted = sim.evicted, o.newly = sim.newly,
             o.staged = o.redundant + o.newly + o.ineffective
      PROVE  Accounted(s, o)
  BY <1>3 DEF Accounted
<1>4. sim.staged = sim.redundant + sim.newly + sim.ineffective
  BY DEF Accounted
<1> SUFFICES /\ out \in Simulations(s, base) /\ Accounted(s, out) /\ out.order = sim.order
             /\ out.staged + out.deferred + out.rejected
                  = sim.staged + sim.deferred + sim.rejected + b
  OBVIOUS
<1>5. CASE n \in DOMAIN sim.resident
  <2> HIDE DEF b
  <2>1. out = [sim EXCEPT !.redundant = sim.redundant + b, !.staged = sim.staged + b]
    BY <1>5 DEF Prefetched, b, Simulations
  <2> HIDE DEF out
  <2>2. sim.redundant + b \in Nat /\ sim.staged + b \in Nat
    BY <1>1, <1>2
  <2>3. out \in Simulations(s, base)
    BY <2>1, <2>2 DEF Simulations
  <2>4. /\ out.resident = sim.resident /\ out.bytes = sim.bytes /\ out.peak = sim.peak
        /\ out.pending = sim.pending /\ out.evicted = sim.evicted /\ out.newly = sim.newly
        /\ out.staged = sim.staged + b /\ out.redundant = sim.redundant + b
        /\ out.ineffective = sim.ineffective /\ out.deferred = sim.deferred
        /\ out.rejected = sim.rejected /\ out.order = sim.order
    BY <2>1 DEF Simulations
  <2>5. /\ out.staged = out.redundant + out.newly + out.ineffective
        /\ out.staged + out.deferred + out.rejected = sim.staged + sim.deferred + sim.rejected + b
    BY <1>1, <1>2, <1>4, <2>4
  <2> QED BY <1>3, <2>3, <2>4, <2>5
<1>6. CASE n \notin DOMAIN sim.resident /\ s.effect = "MakesResident" /\ sim.bytes + b > s.budget
  <2>1. out = [sim EXCEPT !.deferred = sim.deferred + b]
    BY <1>6 DEF Prefetched, StagedNow, Simulations
  <2> HIDE DEF out, b
  <2>2. sim.deferred + b \in Nat
    BY <1>1, <1>2
  <2>3. out \in Simulations(s, base)
    BY <2>1, <2>2 DEF Simulations
  <2>4. /\ out.resident = sim.resident /\ out.bytes = sim.bytes /\ out.peak = sim.peak
        /\ out.pending = sim.pending /\ out.evicted = sim.evicted /\ out.newly = sim.newly
        /\ out.staged = sim.staged /\ out.redundant = sim.redundant
        /\ out.ineffective = sim.ineffective /\ out.deferred = sim.deferred + b
        /\ out.rejected = sim.rejected /\ out.order = sim.order
    BY <2>1 DEF Simulations
  <2>5. /\ out.staged = out.redundant + out.newly + out.ineffective
        /\ out.staged + out.deferred + out.rejected = sim.staged + sim.deferred + sim.rejected + b
    BY <1>1, <1>2, <1>4, <2>4
  <2> QED BY <1>3, <2>3, <2>4, <2>5
<1>7. CASE n \notin DOMAIN sim.resident /\ s.effect = "MakesResident" /\ ~(sim.bytes + b > s.budget)
  <2>1. sim.bytes + ResourceBytes(s, n) <= s.budget /\ n \in AllNames(s) \ DOMAIN sim.resident
    BY <1>1, <1>2, <1>7
  <2>2. /\ held \in Simulations(s, base) /\ Accounted(s, held)
        /\ DOMAIN held.resident = DOMAIN sim.resident \cup {n}
        /\ held = [sim EXCEPT !.resident = held.resident, !.bytes = held.bytes]
        /\ held.bytes \in Nat /\ held.bytes <= s.budget
    BY <2>1, HoldingCounts
  <2>3. out = [held EXCEPT !.peak = LargerOf(held.peak, held.bytes), !.staged = held.staged + b,
                           !.newly = held.newly + b, !.pending = held.pending \cup {n}]
    BY <1>7, <2>2 DEF Prefetched, StagedNow, Simulations
  <2> HIDE DEF held
  <2>4. /\ held.peak = sim.peak /\ held.pending = sim.pending /\ held.staged = sim.staged
        /\ held.newly = sim.newly /\ held.redundant = sim.redundant /\ held.order = sim.order
        /\ held.ineffective = sim.ineffective /\ held.evicted = sim.evicted
        /\ held.deferred = sim.deferred /\ held.rejected = sim.rejected
    BY <2>2 DEF Simulations
  <2> DEFINE peak == LargerOf(sim.peak, held.bytes)
             waiting == sim.pending \cup {n}
  <2>5. /\ peak \in Nat /\ peak <= s.budget
        /\ sim.staged + b \in Nat /\ sim.newly + b \in Nat /\ waiting \in SUBSET AllNames(s)
        /\ waiting \subseteq DOMAIN held.resident
    <3>1. peak \in Nat /\ peak <= s.budget
      BY <1>1, <1>2, <2>2 DEF LargerOf, Accounted
    <3>2. sim.staged + b \in Nat /\ sim.newly + b \in Nat
      <4> HIDE DEF b
      <4> QED BY <1>1, <1>2
    <3>3. waiting \in SUBSET AllNames(s) /\ waiting \subseteq DOMAIN held.resident
      BY <1>2, <2>2 DEF Accounted
    <3> QED BY <3>1, <3>2, <3>3
  <2>6. sim.evicted + BytesOfAll(s, waiting) <= sim.newly + b
    <3>1. n \in AllNames(s) \ sim.pending
      BY <1>7 DEF Accounted
    <3>2. BytesOfAll(s, waiting) = BytesOfAll(s, sim.pending) + b /\ BytesOfAll(s, sim.pending) \in Nat
      BY <1>2, <3>1, BytesOfNames
    <3>3. sim.evicted + BytesOfAll(s, sim.pending) <= sim.newly
      BY DEF Accounted
    <3> HIDE DEF b, waiting
    <3> QED BY <1>1, <1>2, <3>2, <3>3
  <2> HIDE DEF b, out, peak, waiting
  <2>7. out = [held EXCEPT !.peak = peak, !.staged = sim.staged + b, !.newly = sim.newly + b,
                           !.pending = waiting]
    BY <2>3, <2>4 DEF peak, waiting
  <2>8. out \in Simulations(s, base)
    BY <2>2, <2>5, <2>7 DEF Simulations
  <2>9. /\ out.resident = held.resident /\ out.bytes = held.bytes /\ out.peak = peak
        /\ out.pending = waiting /\ out.evicted = sim.evicted /\ out.newly = sim.newly + b
        /\ out.staged = sim.staged + b /\ out.redundant = sim.redundant
        /\ out.ineffective = sim.ineffective /\ out.deferred = sim.deferred
        /\ out.rejected = sim.rejected /\ out.order = sim.order
    BY <2>2, <2>4, <2>7 DEF Simulations
  <2>10. /\ out.staged = out.redundant + out.newly + out.ineffective
         /\ out.staged + out.deferred + out.rejected = sim.staged + sim.deferred + sim.rejected + b
    BY <1>1, <1>2, <1>4, <2>9
  <2>11. Accounted(s, out)
    <3>1. held.bytes = BytesOfAll(s, DOMAIN held.resident)
      BY <2>2 DEF Accounted
    <3> QED BY <2>2, <2>5, <2>6, <2>9, <2>10, <3>1 DEF Accounted
  <2> QED BY <2>8, <2>9, <2>10, <2>11
<1>8. CASE n \notin DOMAIN sim.resident /\ s.effect = "Fail"
  <2>1. out = [sim EXCEPT !.rejected = sim.rejected + b, !.known = FALSE]
    BY <1>8 DEF Prefetched, Simulations
  <2> HIDE DEF out, b
  <2>2. sim.rejected + b \in Nat
    BY <1>1, <1>2
  <2>3. out \in Simulations(s, base)
    BY <2>1, <2>2 DEF Simulations
  <2>4. /\ out.resident = sim.resident /\ out.bytes = sim.bytes /\ out.peak = sim.peak
        /\ out.pending = sim.pending /\ out.evicted = sim.evicted /\ out.newly = sim.newly
        /\ out.staged = sim.staged /\ out.redundant = sim.redundant
        /\ out.ineffective = sim.ineffective /\ out.deferred = sim.deferred
        /\ out.rejected = sim.rejected + b /\ out.order = sim.order
    BY <2>1 DEF Simulations
  <2>5. /\ out.staged = out.redundant + out.newly + out.ineffective
        /\ out.staged + out.deferred + out.rejected = sim.staged + sim.deferred + sim.rejected + b
    BY <1>1, <1>2, <1>4, <2>4
  <2> QED BY <1>3, <2>3, <2>4, <2>5
<1>9. CASE n \notin DOMAIN sim.resident /\ s.effect \in {"NoEffect", "Unknown"}
  <2>1. PICK known \in BOOLEAN :
           out = [sim EXCEPT !.staged = sim.staged + b, !.ineffective = sim.ineffective + b,
                             !.known = known]
    <3>1. CASE s.effect = "NoEffect"
      <4>1. out = [sim EXCEPT !.staged = sim.staged + b, !.ineffective = sim.ineffective + b]
        BY <1>9, <3>1 DEF Prefetched
      <4> HIDE DEF out, b
      <4>2. out = [sim EXCEPT !.staged = sim.staged + b, !.ineffective = sim.ineffective + b,
                              !.known = sim.known]
        BY <4>1 DEF Simulations
      <4>3. sim.known \in BOOLEAN
        BY DEF Simulations
      <4> QED BY <4>2, <4>3
    <3>2. CASE s.effect = "Unknown"
      BY <1>9, <3>2 DEF Prefetched
    <3> QED BY <1>9, <3>1, <3>2
  <2> HIDE DEF out, b
  <2>2. sim.staged + b \in Nat /\ sim.ineffective + b \in Nat
    BY <1>1, <1>2
  <2>3. out \in Simulations(s, base)
    BY <2>1, <2>2 DEF Simulations
  <2>4. /\ out.resident = sim.resident /\ out.bytes = sim.bytes /\ out.peak = sim.peak
        /\ out.pending = sim.pending /\ out.evicted = sim.evicted /\ out.newly = sim.newly
        /\ out.staged = sim.staged + b /\ out.redundant = sim.redundant
        /\ out.ineffective = sim.ineffective + b /\ out.deferred = sim.deferred
        /\ out.rejected = sim.rejected /\ out.order = sim.order
    BY <2>1 DEF Simulations
  <2>5. /\ out.staged = out.redundant + out.newly + out.ineffective
        /\ out.staged + out.deferred + out.rejected = sim.staged + sim.deferred + sim.rejected + b
    BY <1>1, <1>2, <1>4, <2>4
  <2> QED BY <1>3, <2>3, <2>4, <2>5
<1> QED BY <1>1, <1>5, <1>6, <1>7, <1>8, <1>9

\* A prefetch of each of some resources gives each its fate.
LEMMA PrefetchFates ==
    ASSUME NEW s \in Scenarios, NEW base, NEW sim \in Simulations(s, base), Accounted(s, sim),
           Fated(s, sim, {}), NEW N \in SUBSET AllNames(s)
    PROVE  LET out == WithPrefetch(s, sim, ByName(N))
           IN  out \in Simulations(s, base) /\ Accounted(s, out) /\ Fated(s, out, N)
<1> DEFINE q == ByName(N)
           c == Cardinality(N)
           D == 1..c
           A == {p \in Simulations(s, base) : Accounted(s, p)}
           step == [x \in A \X D |-> Prefetched(s, x[1], q[x[2]])]
           Runs(h) == h = [u \in SUBSET D |-> IF u = {} THEN sim
                                             ELSE Prefetched(s, h[u \ {Max(u)}], q[Max(u)])]
<1>1. /\ c \in Nat /\ DOMAIN q = D /\ Len(q) = c /\ q \in [D -> N]
      /\ \A i, j \in D : q[i] = q[j] => i = j
      /\ \A x \in N : \E i \in D : q[i] = x
  <2>1. IsFiniteSet(N) /\ N \subseteq Nat
    BY ScenarioNames, FS_Subset
  <2> QED BY <2>1, NamesInOrder
<1> HIDE DEF q, c
<1>2. sim \in A
  OBVIOUS
<1>3. ASSUME NEW p \in A, NEW i \in D
      PROVE  /\ Prefetched(s, p, q[i]) \in A
             /\ LET out == Prefetched(s, p, q[i])
                IN  out.staged + out.deferred + out.rejected
                      = p.staged + p.deferred + p.rejected + ResourceBytes(s, q[i])
  <2>1. q[i] \in AllNames(s) /\ p \in Simulations(s, base) /\ Accounted(s, p)
    BY <1>1
  <2> QED BY <2>1, PrefetchCounts
<1> HIDE DEF A
<1>4. step \in [A \X D -> A]
  BY <1>3
<1>5. \A p \in A, i \in D : step[<<p, i>>] = Prefetched(s, p, q[i])
  OBVIOUS
<1> HIDE DEF step
<1>6. PICK g \in [SUBSET D -> A] : StepsBy(g, step, sim, c)
  BY <1>1, <1>2, <1>4, FoldRuns
<1>7. Runs(g)
  <2>1. \A u \in SUBSET D : u # {} => Max(u) \in D /\ g[u \ {Max(u)}] \in A
    BY <1>1, <1>6, LastOf
  <2>2. \A u \in SUBSET D : u # {} =>
           step[<<g[u \ {Max(u)}], Max(u)>>] = Prefetched(s, g[u \ {Max(u)}], q[Max(u)])
    <3> HIDE DEF D
    <3> QED BY <1>5, <2>1
  <2> QED BY <1>6, <2>2 DEF StepsBy
<1> DEFINE H == CHOOSE h : Runs(h)
<1>8. Runs(H)
  <2> HIDE DEF Runs
  <2> QED BY <1>7
<1>9. WithPrefetch(s, sim, q) = H[D]
  BY <1>1 DEF WithPrefetch, FoldLeft, MapThenFoldSet
<1> HIDE DEF H
<1>10. H[{}] = sim /\ 1..0 = {}
  BY <1>8
<1>11. \A i \in D : H[1..i] = Prefetched(s, H[1..(i - 1)], q[i])
  <2> TAKE i \in D
  <2>1. Max(1..i) = i /\ (1..i) \ {i} = 1..(i - 1) /\ 1..i # {} /\ 1..i \in SUBSET D
    BY <1>1, GreatestOfFirst
  <2>2. H[1..i] = Prefetched(s, H[(1..i) \ {Max(1..i)}], q[Max(1..i)])
    <3> HIDE DEF D
    <3> QED BY <1>8, <2>1
  <2> QED BY <2>1, <2>2
<1> HIDE DEF Runs
<1> DEFINE seen(k) == {q[j] : j \in 1..k}
           T == {k \in 0..c : H[1..k] \in A /\ Fated(s, H[1..k], seen(k))}
<1>12. 0 \in T
  <2>1. seen(0) = {} /\ H[1..0] = sim /\ 0 \in 0..c
    BY <1>1, <1>10
  <2>2. H[1..0] \in A /\ Fated(s, H[1..0], seen(0))
    BY <1>2, <2>1, Zenon
  <2> HIDE DEF seen
  <2> QED BY <2>1, <2>2
<1>13. ASSUME NEW k \in 1..c, k - 1 \in T PROVE k \in T
  <2> DEFINE p == H[1..(k - 1)]
             out == H[1..k]
  <2>1. p \in A /\ Fated(s, p, seen(k - 1))
    BY <1>13
  <2>2. out = Prefetched(s, p, q[k])
    BY <1>11
  <2>3. /\ out \in A
        /\ out.staged + out.deferred + out.rejected
             = p.staged + p.deferred + p.rejected + ResourceBytes(s, q[k])
    <3> HIDE DEF p, out
    <3> QED BY <1>3, <2>1, <2>2
  <2>4. seen(k) = seen(k - 1) \cup {q[k]}
    <3>1. 1..k = 1..(k - 1) \cup {k}
      BY <1>1
    <3> QED BY <3>1
  <2>5. q[k] \in AllNames(s) \ seen(k - 1) /\ seen(k - 1) \in SUBSET AllNames(s)
    <3>1. \A j \in 1..(k - 1) : j \in D /\ j # k
      BY <1>1
    <3> QED BY <1>1, <3>1
  <2>6. BytesOfAll(s, seen(k)) = BytesOfAll(s, seen(k - 1)) + ResourceBytes(s, q[k])
    <3> HIDE DEF seen
    <3> QED BY <2>4, <2>5, BytesOfNames
  <2>7. Fated(s, out, seen(k))
    <3> HIDE DEF p, out, seen
    <3> QED BY <2>1, <2>3, <2>6 DEF Fated
  <2>8. k \in 0..c
    BY <1>1
  <2> HIDE DEF seen
  <2> QED BY <2>3, <2>7, <2>8
<1>14. c \in T
  <2>1. c \in Nat /\ \A k \in 1..c : k - 1 \in T => k \in T
    BY <1>1, <1>13
  <2> HIDE DEF T
  <2>2. \A k \in 0..c : k \in T
    BY <1>12, <2>1, UpTo
  <2> QED BY <2>1, <2>2
<1>15. seen(c) = N
  BY <1>1
<1>16. H[D] \in A /\ Fated(s, H[D], N)
  <2> HIDE DEF seen
  <2> QED BY <1>14, <1>15
<1> QED BY <1>9, <1>16 DEF A, q

\* A run is that of the strategy it began with.
LEMMA SameRun ==
    ASSUME NEW s, NEW base, NEW sim \in Simulations(s, base)
    PROVE  /\ Simulations(s, sim) = Simulations(s, base) /\ sim.selected = base.selected
           /\ sim # SimIdle /\ sim.phase = "accessing"
<1>1. /\ sim.strategy = base.strategy /\ sim.predicted = base.predicted
      /\ sim.selected = base.selected /\ sim.requested = base.requested
      /\ sim.phase = "accessing"
  BY DEF Simulations
<1>2. SimIdle.phase = "idle"
  BY DEF SimIdle
<1> QED BY <1>1, <1>2 DEF Simulations

\* What the invariant says of a run in progress.
Running(s, sim) ==
    /\ sim \in Simulations(s, sim)
    /\ Accounted(s, sim)
    /\ sim.selected \subseteq AllNames(s)
    /\ s.timing = "OnTime" => Fated(s, sim, sim.selected)

LEMMA Begins ==
    ASSUME scenario \in Scenarios, BeginStrategy
    PROVE  Running(scenario, simulation')
<1> DEFINE s == scenario
<1>1. PICK selected \in SUBSET AllNames(s), known \in BOOLEAN : \E strategy, predicted, requested :
         LET base == [NewSimulation(strategy, predicted, selected, requested) EXCEPT !.known = known]
             start == WithInitial(s, base)
         IN  simulation' = IF s.timing = "Late" THEN start ELSE WithPrefetch(s, start, ByName(selected))
  <2> DEFINE strategy == Strategies[Len(results) + 1]
             config == StrategyConfig(s, strategy)
             inventory == SimInventory(s)
             predictions == Predict(config, TrainingProfile(s), inventory, NoFile)
             plan == PlanPredictions(config, predictions, inventory,
                                     BytesOfAll(s, InitiallyAt(s, "Resident")), s.budget, 0, TRUE)
             selected == {n \in AllNames(s) : \E i \in StagedKeys(plan) : inventory[i].name = n}
             predicted == {predictions[k].name : k \in DOMAIN predictions}
             known == InitiallyAt(s, "Unknown") = {} /\ s.effect # "Unknown"
             requested == RequestedBytes(plan)
             base == [NewSimulation(strategy, predicted, selected, requested) EXCEPT !.known = known]
             start == WithInitial(s, base)
  <2>1. simulation' = IF s.timing = "Late" THEN start ELSE WithPrefetch(s, start, ByName(selected))
    BY DEF BeginStrategy
  <2>2. selected \in SUBSET AllNames(s) /\ known \in BOOLEAN
    OBVIOUS
  <2> HIDE DEF strategy, predicted, selected, known, requested
  <2> QED BY <2>1, <2>2
<1>2. PICK strategy, predicted, requested :
         LET base == [NewSimulation(strategy, predicted, selected, requested) EXCEPT !.known = known]
             start == WithInitial(s, base)
         IN  simulation' = IF s.timing = "Late" THEN start ELSE WithPrefetch(s, start, ByName(selected))
  BY <1>1
<1> DEFINE new == NewSimulation(strategy, predicted, selected, requested)
           base == [new EXCEPT !.known = known]
           start == WithInitial(s, base)
<1>3. Fresh(s, base, base, 0)
  <2>1. Nothing \in UNION {[D -> Nat] : D \in SUBSET AllNames(s)} /\ DOMAIN Nothing = {}
    <3>1. Nothing \in [{} -> Nat] /\ DOMAIN Nothing = {} /\ {} \in SUBSET AllNames(s)
      BY DEF Nothing
    <3> QED BY <3>1
  <2>2. base = [NewSimulation(strategy, predicted, selected, requested) EXCEPT !.known = known]
    OBVIOUS
  <2>3. base = [phase |-> "accessing", strategy |-> strategy, predicted |-> predicted,
     selected |-> selected, requested |-> requested,
     resident |-> Nothing, bytes |-> 0, peak |-> 0, violations |-> 0, order |-> 0,
     pending |-> {}, staged |-> 0, redundant |-> 0, newly |-> 0, ineffective |-> 0,
     deferred |-> 0, rejected |-> 0, evicted |-> 0, reread |-> 0, known |-> known]
    BY DEF NewSimulation
  <2> HIDE DEF base
  <2>4. base \in Simulations(s, base)
    BY <2>1, <2>3 DEF Simulations
  <2>5. BytesOfAll(s, {}) = 0 /\ s.budget \in Nat
    BY BytesOfNames, ScenariosAssumption
  <2>6. Accounted(s, base)
    BY <2>1, <2>3, <2>5 DEF Accounted
  <2> QED BY <2>1, <2>3, <2>4, <2>6 DEF Fresh
<1>4. base.selected = selected
  BY DEF NewSimulation
<1> HIDE DEF base
<1>5. start \in Simulations(s, base) /\ Accounted(s, start) /\ Fated(s, start, {})
  <2>1. start \in Simulations(s, base) /\ Fresh(s, base, start, Len(s.resources))
    BY <1>3, InitialFresh
  <2>2. BytesOfAll(s, {}) = 0
    BY BytesOfNames
  <2> HIDE DEF start
  <2> QED BY <2>1, <2>2 DEF Fresh, Fated
<1> HIDE DEF start
<1>6. simulation' = IF s.timing = "Late" THEN start ELSE WithPrefetch(s, start, ByName(selected))
  BY <1>2 DEF start, base
<1>7. /\ simulation' \in Simulations(s, base) /\ Accounted(s, simulation')
      /\ s.timing = "OnTime" => Fated(s, simulation', selected)
  <2>1. CASE s.timing = "Late"
    BY <1>5, <1>6, <2>1
  <2>2. CASE s.timing # "Late"
    BY <1>5, <1>6, <2>2, PrefetchFates
  <2> QED BY <2>1, <2>2
<1> QED BY <1>4, <1>7, SameRun DEF Running

LEMMA AccessedResident ==
    ASSUME scenario \in Scenarios, Running(scenario, simulation), AccessResident
    PROVE  Running(scenario, simulation')
<1> DEFINE s == scenario
           sim == simulation
           n == NextName
           new == [sim.resident EXCEPT ![n] = sim.order + 1]
           rest == sim.pending \ {n}
           out == simulation'
<1>1. sim \in Simulations(s, sim) /\ Accounted(s, sim) /\ n \in DOMAIN sim.resident
  BY DEF Running, AccessResident
<1>2. /\ DOMAIN sim.resident \in SUBSET AllNames(s) /\ \A m \in DOMAIN sim.resident : sim.resident[m] \in Nat
      /\ sim.order + 1 \in Nat /\ sim.pending \in SUBSET AllNames(s) /\ sim.evicted \in Nat /\ sim.newly \in Nat
  BY <1>1 DEF Simulations
<1>3. new \in UNION {[D -> Nat] : D \in SUBSET AllNames(s)} /\ DOMAIN new = DOMAIN sim.resident
  <2>1. new \in [DOMAIN sim.resident -> Nat] /\ DOMAIN new = DOMAIN sim.resident
    BY <1>2
  <2> HIDE DEF new
  <2> QED BY <1>2, <2>1
<1>4. out = [sim EXCEPT !.order = sim.order + 1, !.pending = rest, !.resident = new]
  BY <1>1 DEF AccessResident, Simulations
<1>5. rest \in SUBSET AllNames(s) /\ rest \subseteq DOMAIN sim.resident
  BY <1>1, <1>2 DEF Accounted
<1>6. sim.evicted + BytesOfAll(s, rest) <= sim.newly
  <2>1. sim.evicted + BytesOfAll(s, sim.pending) <= sim.newly
    BY <1>1 DEF Accounted
  <2>2. BytesOfAll(s, sim.pending) \in Nat /\ BytesOfAll(s, rest) \in Nat
    BY <1>2, <1>5, BytesOfNames
  <2>3. CASE n \in sim.pending
    <3>1. BytesOfAll(s, sim.pending) = ResourceBytes(s, n) + BytesOfAll(s, rest)
      BY <1>2, <2>3, BytesOfNames
    <3>2. ResourceBytes(s, n) \in Nat
      BY <1>1, <1>2, ScenarioNames
    <3> HIDE DEF rest, n
    <3> QED BY <1>2, <2>1, <2>2, <3>1, <3>2
  <2>4. CASE n \notin sim.pending
    <3>1. rest = sim.pending
      BY <2>4
    <3> QED BY <2>1, <3>1
  <2> QED BY <2>3, <2>4
<1> HIDE DEF new, rest, n
<1>7. out \in Simulations(s, sim)
  BY <1>1, <1>2, <1>3, <1>4, <1>5 DEF Simulations
<1>8. /\ out.resident = new /\ out.bytes = sim.bytes /\ out.peak = sim.peak
      /\ out.pending = rest /\ out.evicted = sim.evicted /\ out.newly = sim.newly
      /\ out.staged = sim.staged /\ out.redundant = sim.redundant
      /\ out.ineffective = sim.ineffective /\ out.deferred = sim.deferred
      /\ out.rejected = sim.rejected /\ out.selected = sim.selected
  BY <1>1, <1>4 DEF Simulations
<1> HIDE DEF out
<1>9. Accounted(s, out)
  BY <1>1, <1>3, <1>5, <1>6, <1>8 DEF Accounted
<1>10. Simulations(s, out) = Simulations(s, sim)
  BY <1>7, SameRun
<1>11. Running(s, out)
  BY <1>7, <1>8, <1>9, <1>10 DEF Running, Fated
<1> QED BY <1>11 DEF out

LEMMA AccessedNonresident ==
    ASSUME scenario \in Scenarios, Running(scenario, simulation), AccessNonresident
    PROVE  Running(scenario, simulation')
<1> DEFINE s == scenario
           n == NextName
           room == RoomFor(n)
           b == ResourceBytes(s, n)
           read == [room EXCEPT !.order = @ + 1, !.reread = @ + b]
           held == Holding(read, n, read.order, b)
           out == simulation'
           S == Simulations(s, simulation)
<1>1. simulation \in S /\ Accounted(s, simulation) /\ n \notin DOMAIN simulation.resident
  BY DEF Running, AccessNonresident
<1>2. n \in AllNames(s) /\ b \in Nat /\ s.budget \in Nat
  <2>1. simulation.order + 1 \in 1..Len(s.test)
    <3>1. simulation.order \in Nat /\ simulation.order < Len(s.test)
      BY <1>1 DEF Simulations, AccessNonresident, AccessPending
    <3>2. Len(s.test) \in Nat
      BY ScenariosAssumption, LenProperties
    <3> QED BY <3>1, <3>2
  <2>2. s.test \in Seq(AllNames(s)) /\ s.budget \in Nat
    BY ScenariosAssumption DEF AllNames
  <2>3. n \in AllNames(s)
    BY <2>1, <2>2, LenProperties DEF NextName
  <2> HIDE DEF n
  <2> QED BY <2>2, <2>3, ScenarioNames
<1>3. room \in Roomy(s, simulation, simulation)
  BY <1>1, RoomKept
<1>4. out = IF read.bytes + b > s.budget
            THEN [read EXCEPT !.violations = @ + 1]
            ELSE [held EXCEPT !.peak = LargerOf(@, held.bytes)]
  BY DEF AccessNonresident
<1> HIDE DEF room, b, n
<1>5. /\ room \in S /\ Accounted(s, room) /\ n \notin DOMAIN room.resident
      /\ room.staged = simulation.staged /\ room.deferred = simulation.deferred
      /\ room.rejected = simulation.rejected
  BY <1>1, <1>3 DEF Roomy
<1>6. read \in S
  <2>1. room.order + 1 \in Nat /\ room.reread + b \in Nat
    BY <1>2, <1>5 DEF Simulations
  <2>2. read = [room EXCEPT !.order = room.order + 1, !.reread = room.reread + b]
    BY <1>5 DEF Simulations
  <2> HIDE DEF read
  <2> QED BY <1>5, <2>1, <2>2 DEF Simulations
<1>7. /\ read.resident = room.resident /\ read.bytes = room.bytes /\ read.peak = room.peak
      /\ read.pending = room.pending /\ read.evicted = room.evicted /\ read.newly = room.newly
      /\ read.staged = room.staged /\ read.redundant = room.redundant
      /\ read.ineffective = room.ineffective /\ read.deferred = room.deferred
      /\ read.rejected = room.rejected
  BY <1>5 DEF Simulations
<1> HIDE DEF read
<1>8. Accounted(s, read) /\ n \notin DOMAIN read.resident
  BY <1>5, <1>7 DEF Accounted
<1>9. /\ out \in S /\ Accounted(s, out)
      /\ out.staged = read.staged /\ out.deferred = read.deferred /\ out.rejected = read.rejected
  <2>1. CASE read.bytes + b > s.budget
    <3>1. read.violations + 1 \in Nat
      BY <1>6 DEF Simulations
    <3>2. out = [read EXCEPT !.violations = read.violations + 1]
      BY <1>4, <1>6, <2>1 DEF Simulations
    <3> HIDE DEF out
    <3>3. out \in S
      BY <1>6, <3>1, <3>2 DEF Simulations
    <3>4. /\ out.resident = read.resident /\ out.bytes = read.bytes /\ out.peak = read.peak
          /\ out.pending = read.pending /\ out.evicted = read.evicted /\ out.newly = read.newly
          /\ out.staged = read.staged /\ out.redundant = read.redundant
          /\ out.ineffective = read.ineffective /\ out.deferred = read.deferred
          /\ out.rejected = read.rejected
      BY <1>6, <3>2 DEF Simulations
    <3>5. Accounted(s, out)
      BY <1>8, <3>4 DEF Accounted
    <3> QED BY <3>3, <3>4, <3>5
  <2>2. CASE ~(read.bytes + b > s.budget)
    <3>1. read.order \in Nat /\ read.bytes \in Nat /\ read.peak \in Nat
      BY <1>6 DEF Simulations
    <3>2. read.bytes + b <= s.budget
      BY <1>2, <2>2, <3>1
    <3>3. /\ held \in S /\ Accounted(s, held)
          /\ DOMAIN held.resident = DOMAIN read.resident \cup {n}
          /\ held = [read EXCEPT !.resident = held.resident, !.bytes = held.bytes]
          /\ held.bytes \in Nat /\ held.bytes <= s.budget
      <4>1. n \in AllNames(s) \ DOMAIN read.resident /\ read.bytes + ResourceBytes(s, n) <= s.budget
        BY <1>2, <1>8, <3>2 DEF b
      <4> QED BY <1>6, <1>8, <3>1, <4>1, HoldingCounts DEF b
    <3>4. out = [held EXCEPT !.peak = LargerOf(held.peak, held.bytes)]
      BY <1>4, <2>2, <3>3 DEF Simulations
    <3> HIDE DEF held, out
    <3> DEFINE peak == LargerOf(held.peak, held.bytes)
    <3>5. held.peak \in Nat /\ peak \in Nat /\ peak <= s.budget
      <4>1. held.peak \in Nat /\ held.peak <= s.budget
        BY <3>3 DEF Accounted, Simulations
      <4> QED BY <1>2, <3>3, <4>1 DEF LargerOf
    <3> HIDE DEF peak
    <3>6. out = [held EXCEPT !.peak = peak]
      BY <3>4 DEF peak
    <3>7. out \in S
      BY <3>3, <3>5, <3>6 DEF Simulations
    <3>8. /\ out.resident = held.resident /\ out.bytes = held.bytes /\ out.peak = peak
          /\ out.pending = held.pending /\ out.evicted = held.evicted /\ out.newly = held.newly
          /\ out.staged = held.staged /\ out.redundant = held.redundant
          /\ out.ineffective = held.ineffective /\ out.deferred = held.deferred
          /\ out.rejected = held.rejected
      BY <3>3, <3>6 DEF Simulations
    <3>9. Accounted(s, out)
      BY <3>3, <3>5, <3>8 DEF Accounted
    <3>10. held.staged = read.staged /\ held.deferred = read.deferred /\ held.rejected = read.rejected
      BY <1>6, <3>3 DEF Simulations
    <3> QED BY <3>7, <3>8, <3>9, <3>10
  <2> QED BY <2>1, <2>2
<1> HIDE DEF out
<1>10. Simulations(s, out) = S /\ out.selected = simulation.selected
  BY <1>9, SameRun
<1>11. Running(s, out)
  <2>1. s.timing = "OnTime" => Fated(s, simulation, simulation.selected)
    BY DEF Running
  <2>2. simulation.selected \subseteq AllNames(s)
    BY DEF Running
  <2>3. s.timing = "OnTime" => Fated(s, out, out.selected)
    BY <1>5, <1>7, <1>9, <1>10, <2>1 DEF Fated
  <2> HIDE DEF S
  <2> QED BY <1>9, <1>10, <2>2, <2>3 DEF Running
<1> QED BY <1>11 DEF out

SimInv == scenario \in Scenarios /\ (simulation # SimIdle => Running(scenario, simulation))

(***************************************************************************)
(* A simulated run charges what it holds within its budget, and each byte  *)
(* selected for prefetch has one fate, for every scenario and every        *)
(* history it learnt from (run_strategy).                                  *)
(***************************************************************************)
THEOREM SimulationTheorem == SimSpec => []StagedBytesAccountedFor
<1>1. SimInit => SimInv
  BY DEF SimInit, SimStart, SimInv
<1>2. SimInv /\ [SimNext]_simVars => SimInv'
  <2> SUFFICES ASSUME SimInv, [SimNext]_simVars PROVE SimInv'
    OBVIOUS
  <2>1. scenario \in Scenarios
    BY DEF SimInv
  <2>2. CASE UNCHANGED simVars
    BY <2>2 DEF SimInv, simVars, Running
  <2>3. CASE BeginStrategy
    BY <2>1, <2>3, Begins DEF SimInv, BeginStrategy
  <2>4. ASSUME simulation.phase = "accessing" PROVE Running(scenario, simulation)
    BY <2>4 DEF SimInv, SimIdle
  <2>5. CASE AccessResident
    BY <2>1, <2>4, <2>5, AccessedResident DEF SimInv, AccessResident, AccessPending
  <2>6. CASE AccessNonresident
    BY <2>1, <2>4, <2>6, AccessedNonresident DEF SimInv, AccessNonresident, AccessPending
  <2>7. CASE FinishStrategy
    BY <2>1, <2>7 DEF SimInv, FinishStrategy
  <2> QED BY <2>2, <2>3, <2>5, <2>6, <2>7 DEF SimNext
<1>3. SimInv => StagedBytesAccountedFor
  BY DEF SimInv, Running, Accounted, Fated, StagedBytesAccountedFor
<1> QED BY <1>1, <1>2, <1>3, PTL DEF SimSpec

=============================================================================
