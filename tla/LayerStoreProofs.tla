-------------------------- MODULE LayerStoreProofs --------------------------
(***************************************************************************)
(* The operations of the layer cache keep the cache and the ledger in      *)
(* agreement, one at a time and in the closed forms of the eviction loops, *)
(* for every set of layers and names, every capacity and counter width.    *)
(***************************************************************************)
EXTENDS LayerStore, BudgetProofs

Sizes(c) == [i \in Layers |-> c.entries[i].bytes]

EntriesCharged(c, b) ==
    \A i \in Layers :
       /\ ChargedUnder(b, Resident(i)) = c.entries[i].charge_names
       /\ SumOf(b, c.entries[i].charge_names) = c.entries[i].bytes

\* A cache and a ledger that agree: CacheConsistent as a predicate of the two.
Consistent(c, b) ==
    /\ LedgerOK(b)
    /\ c \in Caches
    /\ IsFiniteSet(BytesOf(Sizes(c), Layers))
    /\ c.used = Cardinality(BytesOf(Sizes(c), Layers))
    /\ c.used <= c.capacity
    /\ EntriesCharged(c, b)
    /\ LruExact(Layers, c.lru, {i \in Layers : Cached(c, i)})

-----------------------------------------------------------------------------
(* The prefixes of the layers do not collide.                              *)
LEMMA PrefixesDiffer ==
    ASSUME NEW i \in Layers, NEW j \in Layers
    PROVE  /\ Active(i) # Resident(j)
           /\ Active(i) = Active(j) => i = j
           /\ Resident(i) = Resident(j) => i = j
           /\ Active(i) \in NamePrefixes /\ Resident(i) \in NamePrefixes
<1>1. Active(i) \in NamePrefixes /\ Resident(i) \in NamePrefixes
  BY LayersAssumption
<1>2. QED
  BY <1>1 DEF Active, Resident

(* A sum over an index set part of which is set to 0.                      *)
LEMMA BytesZeroed ==
    ASSUME NEW S, NEW T, NEW f, NEW g, \A x \in S : g[x] = IF x \in T THEN 0 ELSE f[x]
    PROVE  BytesOf(g, S) = BytesOf(f, S \ T)
<1>1. ASSUME NEW z \in BytesOf(g, S) PROVE z \in BytesOf(f, S \ T)
  <2>1. PICK x \in S : z \in {x} \X (1..g[x])
    BY DEF BytesOf
  <2>2. x \notin T
    BY <2>1
  <2>3. QED
    BY <2>1, <2>2 DEF BytesOf
<1>2. ASSUME NEW z \in BytesOf(f, S \ T) PROVE z \in BytesOf(g, S)
  BY DEF BytesOf
<1>3. QED
  BY <1>1, <1>2

(* The charges of a ledger that adds up are numbers with a finite sum over *)
(* any set of names.                                                       *)
LEMMA SumFinite ==
    ASSUME NEW b, LedgerOK(b), NEW S \in SUBSET Names
    PROVE  /\ \A n \in S : b.allocations[n] \in Nat
           /\ IsFiniteSet(BytesOf(b.allocations, S))
           /\ SumOf(b, S) = Cardinality(BytesOf(b.allocations, S))
           /\ SumOf(b, S) \in Nat
<1>1. \A n \in Names : b.allocations[n] \in Nat
  BY LedgerParts DEF ChargeMaps
<1>2. BytesOf(b.allocations, Names) = ChargedBytes(b.allocations)
  BY DEF BytesOf, ChargedBytes
<1>3. IsFiniteSet(BytesOf(b.allocations, Names))
  BY <1>2 DEF LedgerOK
<1>4. Names \cap S = S
  OBVIOUS
<1>5. /\ IsFiniteSet(BytesOf(b.allocations, Names \cap S))
      /\ Cardinality(BytesOf(b.allocations, Names \cap S)) \in Nat
  BY <1>1, <1>3, BytesSplit
<1>6. SumOf(b, S) = Cardinality(BytesOf(b.allocations, S))
  BY DEF SumOf, BytesOf
<1>7. QED
  BY <1>1, <1>4, <1>5, <1>6

(* A change of the ledger that leaves the cache's names alone.             *)
LEMMA LedgerElsewhere ==
    ASSUME NEW c, NEW b, NEW d, Consistent(c, b), LedgerOK(d),
           \A n \in Names : (\E i \in Layers : n[1] = Resident(i)) =>
                               d.allocations[n] = b.allocations[n]
    PROVE  Consistent(c, d)
<1>1. ASSUME NEW i \in Layers
      PROVE  /\ ChargedUnder(d, Resident(i)) = c.entries[i].charge_names
             /\ SumOf(d, c.entries[i].charge_names) = c.entries[i].bytes
  <2>1. ChargedUnder(b, Resident(i)) = c.entries[i].charge_names
        /\ SumOf(b, c.entries[i].charge_names) = c.entries[i].bytes
    BY DEF Consistent, EntriesCharged
  <2>2. ChargedUnder(d, Resident(i)) = ChargedUnder(b, Resident(i))
    BY DEF ChargedUnder, Charged
  <2>3. \A n \in c.entries[i].charge_names : d.allocations[n] = b.allocations[n]
    BY <2>1 DEF ChargedUnder
  <2>4. SumOf(d, c.entries[i].charge_names) = SumOf(b, c.entries[i].charge_names)
    BY <2>3 DEF SumOf
  <2>5. QED
    BY <2>1, <2>2, <2>4
<1>2. EntriesCharged(c, d)
  BY <1>1 DEF EntriesCharged
<1>3. QED
  BY <1>2 DEF Consistent

(* The types of a consistent cache.                                        *)
LEMMA CacheParts ==
    ASSUME NEW c, NEW b, Consistent(c, b)
    PROVE  /\ c.capacity \in 0..MaxU64 /\ c.used \in 0..MaxU64 /\ c.used \in Nat
           /\ c.entries \in [Layers -> [bytes : 0..MaxU64, charge_names : SUBSET Names]]
           /\ \A i \in Layers : /\ c.entries[i].bytes \in Nat /\ c.entries[i].bytes \in 0..MaxU64
                                /\ c.entries[i].charge_names \in SUBSET Names
                                /\ Sizes(c)[i] = c.entries[i].bytes
           /\ c = [capacity |-> c.capacity, used |-> c.used, entries |-> c.entries, lru |-> c.lru]
BY MaxU64Assumption DEF Consistent, Caches, Sizes

(* Releasing an entry, with any list of the others: the checks of          *)
(* release_entry pass, cache and ledger still agree, and no charge but the *)
(* entry's own is touched.                                                 *)
LEMMA EntryGone ==
    ASSUME NEW c, NEW b, Consistent(c, b), NEW i \in Layers, Cached(c, i), NEW lru,
           LruExact(Layers, lru, {j \in Layers : Cached(c, j)} \ {i})
    PROVE  /\ ReleaseEntryResult(c, b, i) = "Ok"
           /\ Consistent(EntryReleased(c, i, lru), EntryChargesReleased(c, b, i))
           /\ ~Cached(EntryReleased(c, i, lru), i)
           /\ \A n \in Names : n[1] # Resident(i) =>
                 EntryChargesReleased(c, b, i).allocations[n] = b.allocations[n]
<1> DEFINE gone == c.entries[i].charge_names
           bytes == c.entries[i].bytes
           c2 == EntryReleased(c, i, lru)
           b2 == EntryChargesReleased(c, b, i)
           es == [c.entries EXCEPT ![i] = NoEntry]
<1>1. /\ gone \in SUBSET Names /\ bytes \in Nat /\ bytes \in 0..MaxU64 /\ bytes # 0
      /\ c.used \in Nat /\ c.capacity \in 0..MaxU64 /\ c.used \in 0..MaxU64
  BY CacheParts DEF Cached
<1>2. gone = ChargedUnder(b, Resident(i)) /\ SumOf(b, gone) = bytes
  BY DEF Consistent, EntriesCharged
<1>3. /\ IsFiniteSet(BytesOf(Sizes(c), Layers))
      /\ c.used = Cardinality(BytesOf(Sizes(c), Layers))
      /\ \A j \in Layers : Sizes(c)[j] \in Nat
      /\ Sizes(c)[i] = bytes
  BY CacheParts DEF Consistent
<1>4. bytes <= c.used
  BY <1>3, BytesBound
<1>5. ReleaseEntryResult(c, b, i) = "Ok"
  BY <1>1, <1>2, <1>4 DEF ReleaseEntryResult, ChargedUnder
<1>6. /\ c2.capacity = c.capacity /\ c2.used = c.used - bytes /\ c2.entries = es /\ c2.lru = lru
      /\ c2 = [capacity |-> c.capacity, used |-> c.used - bytes, entries |-> es, lru |-> lru]
  <2>1. c \in Caches
    BY DEF Consistent
  <2>2. /\ c2 \in [capacity : {c2.capacity}, used : {c2.used}, entries : {c2.entries}, lru : {c2.lru}]
        /\ c2.capacity = c.capacity /\ c2.used = c.used - bytes /\ c2.lru = lru
        /\ c2.entries = es
    BY <2>1 DEF EntryReleased, Caches
  <2> HIDE DEF c2, es, bytes
  <2>3. QED
    BY <2>2
<1>7. es \in [Layers -> [bytes : 0..MaxU64, charge_names : SUBSET Names]]
  <2>1. NoEntry \in [bytes : 0..MaxU64, charge_names : SUBSET Names]
    BY MaxU64Assumption DEF NoEntry
  <2>2. QED
    BY <2>1, CacheParts
<1>8. /\ es[i].bytes = 0 /\ es[i].charge_names = {}
      /\ \A j \in Layers : j # i => es[j] = c.entries[j]
  BY CacheParts DEF NoEntry
<1> HIDE DEF c2, b2, es, gone, bytes
<1>9. c.used - bytes \in 0..MaxU64 /\ c.used - bytes <= c.capacity /\ c.used - bytes \in Nat
  <2>1. c.used <= c.capacity
    BY DEF Consistent
  <2>2. QED
    BY <1>1, <1>4, <2>1, MaxU64Assumption
<1>10. c2 \in Caches
  <2>1. lru \in Seq(Layers)
    BY DEF LruExact
  <2>2. QED
    BY <1>1, <1>6, <1>7, <1>9, <2>1 DEF Caches
<1>11. /\ IsFiniteSet(BytesOf(Sizes(c2), Layers))
       /\ c2.used = Cardinality(BytesOf(Sizes(c2), Layers))
  <2> DEFINE one == {i}
  <2>1. \A j \in Layers : Sizes(c2)[j] = IF j \in one THEN 0 ELSE Sizes(c)[j]
    BY <1>6, <1>8 DEF Sizes
  <2>2. Layers \cap one = one
    OBVIOUS
  <2>3. Cardinality(BytesOf(Sizes(c), one)) = bytes
    BY <1>1, <1>3, BytesOne
  <2> HIDE DEF one
  <2>4. BytesOf(Sizes(c2), Layers) = BytesOf(Sizes(c), Layers \ one)
    BY <2>1, BytesZeroed
  <2>5. /\ IsFiniteSet(BytesOf(Sizes(c), Layers \ one))
        /\ Cardinality(BytesOf(Sizes(c), Layers \ one)) \in Nat
        /\ Cardinality(BytesOf(Sizes(c), Layers)) =
             Cardinality(BytesOf(Sizes(c), Layers \cap one))
               + Cardinality(BytesOf(Sizes(c), Layers \ one))
    BY <1>3, BytesSplit
  <2>6. c.used = bytes + Cardinality(BytesOf(Sizes(c), Layers \ one))
    BY <1>3, <2>2, <2>3, <2>5, Zenon
  <2>7. c2.used = Cardinality(BytesOf(Sizes(c), Layers \ one))
    BY <1>1, <1>6, <2>5, <2>6
  <2>8. QED
    BY <2>4, <2>5, <2>7
<1>12. b2 = [total |-> b.total,
             allocations |-> [n \in Names |-> IF n \in gone THEN 0 ELSE b.allocations[n]],
             used |-> b.used - Cardinality(BytesOf(b.allocations, gone)),
             peak_used |-> b.peak_used]
  BY Zenon DEF b2, EntryChargesReleased, ReleasedAll, SumOf, BytesOf, gone
<1>13. LedgerOK(b2)
  <2>1. LedgerOK(b)
    BY DEF Consistent
  <2>2. QED
    BY <1>1, <1>12, <2>1, DischargeSet
<1>14. \A n \in Names : b2.allocations[n] = IF n \in gone THEN 0 ELSE b.allocations[n]
  BY <1>12
<1>15. ASSUME NEW n \in Names, n[1] # Resident(i)
       PROVE  b2.allocations[n] = b.allocations[n]
  BY <1>2, <1>14, <1>15 DEF ChargedUnder
<1>16. ASSUME NEW j \in Layers
       PROVE  /\ ChargedUnder(b2, Resident(j)) = es[j].charge_names
              /\ SumOf(b2, es[j].charge_names) = es[j].bytes
  <2>1. CASE j = i
    <3>1. ChargedUnder(b2, Resident(i)) = {}
      BY <1>2, <1>14 DEF ChargedUnder, Charged
    <3>2. SumOf(b2, {}) = 0
      <4>1. SumOf(b2, {}) = Cardinality({})
        BY DEF SumOf
      <4>2. QED
        BY <4>1, FS_EmptySet
    <3>3. QED
      BY <1>8, <2>1, <3>1, <3>2
  <2>2. CASE j # i
    <3>1. Resident(j) # Resident(i)
      BY <2>2, PrefixesDiffer
    <3>2. /\ ChargedUnder(b, Resident(j)) = c.entries[j].charge_names
          /\ SumOf(b, c.entries[j].charge_names) = c.entries[j].bytes
      BY DEF Consistent, EntriesCharged
    <3>3. ChargedUnder(b2, Resident(j)) = ChargedUnder(b, Resident(j))
      BY <1>15, <3>1 DEF ChargedUnder, Charged
    <3>4. \A n \in c.entries[j].charge_names : b2.allocations[n] = b.allocations[n]
      BY <1>15, <3>1, <3>2 DEF ChargedUnder
    <3>5. SumOf(b2, c.entries[j].charge_names) = SumOf(b, c.entries[j].charge_names)
      BY <3>4 DEF SumOf
    <3>6. QED
      BY <1>8, <2>2, <3>2, <3>3, <3>5
  <2>3. QED
    BY <2>1, <2>2
<1>17. EntriesCharged(c2, b2)
  BY <1>6, <1>16 DEF EntriesCharged
<1>18. ~Cached(c2, i) /\ \A j \in Layers : j # i => (Cached(c2, j) <=> Cached(c, j))
  BY <1>6, <1>8 DEF Cached
<1>19. LruExact(Layers, c2.lru, {j \in Layers : Cached(c2, j)})
  <2>1. {j \in Layers : Cached(c2, j)} = {j \in Layers : Cached(c, j)} \ {i}
    BY <1>18
  <2>2. QED
    BY <1>6, <2>1 DEF LruExact
<1>20. Consistent(c2, b2)
  BY <1>6, <1>9, <1>10, <1>11, <1>13, <1>17, <1>19 DEF Consistent
<1>21. QED
  BY <1>5, <1>15, <1>18, <1>20 DEF c2, b2

(* Making a loaded layer an entry: the rename of its charges finds no      *)
(* name in its way, and the ledger's charges are those the entry records.  *)
LEMMA Converted ==
    ASSUME NEW c, NEW b, Consistent(c, b), NEW i \in Layers, ~Cached(c, i),
           NEW bytes \in 0..MaxU64, bytes # 0, c.used + bytes <= c.capacity,
           ChargedUnder(b, Active(i)) # {}, SumOf(b, ChargedUnder(b, Active(i))) = bytes
    PROVE  /\ RenamePrefixResult(b, Active(i), Resident(i)) = "Ok"
           /\ Consistent(EntryInserted(c, b, i, bytes), PrefixRenamed(b, Active(i), Resident(i)))
           /\ \A n \in Names : n[1] # Resident(i) /\ n[1] # Active(i) =>
                 PrefixRenamed(b, Active(i), Resident(i)).allocations[n] = b.allocations[n]
<1> DEFINE p == Active(i)
           q == Resident(i)
           loaded == ChargedUnder(b, p)
           names == {<<q, n[2]>> : n \in loaded}
           entry == [bytes |-> bytes, charge_names |-> names]
           es == [c.entries EXCEPT ![i] = entry]
           c2 == EntryInserted(c, b, i, bytes)
           d == PrefixRenamed(b, p, q)
<1>1. p # q /\ p \in NamePrefixes /\ q \in NamePrefixes
  BY PrefixesDiffer
<1>2. /\ c.entries[i].bytes = 0 /\ c.used \in Nat /\ c.capacity \in 0..MaxU64 /\ bytes \in Nat
      /\ LedgerOK(b)
  <2>1. LedgerOK(b)
    BY DEF Consistent
  <2>2. c.entries[i].bytes = 0
    BY DEF Cached
  <2>3. bytes \in Nat
    BY MaxU64Assumption
  <2>4. QED
    BY <2>1, <2>2, <2>3, CacheParts
<1>3. ChargedUnder(b, q) = {}
  <2>1. /\ ChargedUnder(b, q) = c.entries[i].charge_names
        /\ SumOf(b, c.entries[i].charge_names) = 0
    BY <1>2 DEF Consistent, EntriesCharged
  <2>2. ASSUME NEW n \in ChargedUnder(b, q) PROVE FALSE
    <3> DEFINE S == ChargedUnder(b, q)
    <3>1. S \in SUBSET Names /\ n \in S /\ b.allocations[n] # 0
      BY <2>2 DEF ChargedUnder, Charged
    <3> HIDE DEF S
    <3>2. /\ \A m \in S : b.allocations[m] \in Nat
          /\ IsFiniteSet(BytesOf(b.allocations, S))
          /\ SumOf(b, S) = Cardinality(BytesOf(b.allocations, S))
      BY <1>2, <3>1, SumFinite
    <3>3. b.allocations[n] <= Cardinality(BytesOf(b.allocations, S))
      BY <3>1, <3>2, BytesBound
    <3>4. SumOf(b, S) = 0
      BY <2>1 DEF S
    <3>5. QED
      BY <3>1, <3>2, <3>3, <3>4
  <2>3. QED
    BY <2>2
<1>4. \A n \in Names : <<p, n[2]>> \in Names /\ <<q, n[2]>> \in Names /\ n = <<n[1], n[2]>>
  BY <1>1 DEF Names
<1>5. \A n \in Names : n[1] = q => b.allocations[n] = 0
  BY <1>3 DEF ChargedUnder, Charged
<1>6. \A n \in Names : b.allocations[<<q, n[2]>>] = 0
  BY <1>4, <1>5
<1>7. RenamePrefixResult(b, p, q) = "Ok"
  BY <1>6 DEF RenamePrefixResult, ChargedUnder, Charged
<1>8. LedgerOK(d)
  BY <1>1, <1>2, <1>7, PrefixRenamedOK
<1>9. d.allocations = [n \in Names |-> IF n[1] = q /\ Charged(b, <<p, n[2]>>)
                                       THEN b.allocations[<<p, n[2]>>]
                                       ELSE IF n[1] = p THEN 0 ELSE b.allocations[n]]
  <2>1. b \in Ledgers
    BY <1>2 DEF LedgerOK
  <2>2. QED
    BY <2>1 DEF PrefixRenamed, Ledgers
<1> HIDE DEF p, q, d
<1>10. \A n \in Names : n[1] # p /\ n[1] # q => d.allocations[n] = b.allocations[n]
  BY <1>9
<1>11. \A n \in loaded : /\ n \in Names /\ n[1] = p /\ <<q, n[2]>> \in Names
                         /\ d.allocations[<<q, n[2]>>] = b.allocations[n]
                         /\ b.allocations[n] # 0
  BY <1>4, <1>9 DEF ChargedUnder, Charged
<1>12. ASSUME NEW n \in Names, n[1] = q, d.allocations[n] # 0
       PROVE  <<p, n[2]>> \in loaded /\ n = <<q, n[2]>>
  <2>1. <<p, n[2]>> \in Names /\ <<p, n[2]>>[1] = p /\ <<p, n[2]>>[2] = n[2] /\ n = <<q, n[2]>>
    BY <1>4, <1>12
  <2>2. Charged(b, <<p, n[2]>>)
    BY <1>1, <1>5, <1>9, <1>12
  <2>3. QED
    BY <2>1, <2>2 DEF ChargedUnder
<1>13. ChargedUnder(d, q) = names
  <2>1. ASSUME NEW n \in ChargedUnder(d, q) PROVE n \in names
    <3>1. n \in Names /\ n[1] = q /\ d.allocations[n] # 0
      BY <2>1 DEF ChargedUnder, Charged
    <3>2. <<p, n[2]>> \in loaded /\ n = <<q, <<p, n[2]>>[2]>>
      BY <1>12, <3>1
    <3>3. QED
      BY <3>2
  <2>2. ASSUME NEW m \in names PROVE m \in ChargedUnder(d, q)
    <3>1. PICK n \in loaded : m = <<q, n[2]>>
      BY <2>2
    <3>2. m \in Names /\ m[1] = q /\ d.allocations[m] # 0
      BY <1>11, <3>1
    <3>3. QED
      BY <3>2 DEF ChargedUnder, Charged
  <2>3. QED
    BY <2>1, <2>2
<1>14. SumOf(d, names) = bytes
  <2> DEFINE move == [n \in loaded |-> <<q, n[2]>>]
  <2>1. loaded \in SUBSET Names /\ names \in SUBSET Names
    BY <1>11 DEF ChargedUnder
  <2>2. move \in [loaded -> names]
    OBVIOUS
  <2>3. \A n \in loaded : d.allocations[move[n]] = b.allocations[n]
    BY <1>11
  <2>4. \A m \in names : \E n \in loaded : move[n] = m
    OBVIOUS
  <2>5. ASSUME NEW x \in loaded, NEW y \in loaded, move[x] = move[y] PROVE x = y
    <3>1. x[2] = y[2]
      BY <2>5
    <3>2. x = <<p, x[2]>> /\ y = <<p, y[2]>>
      BY <1>4, <1>11
    <3>3. QED
      BY <3>1, <3>2
  <2> HIDE DEF loaded, names, move
  <2>6. /\ \A n \in loaded : b.allocations[n] \in Nat
        /\ IsFiniteSet(BytesOf(b.allocations, loaded))
        /\ SumOf(b, loaded) = Cardinality(BytesOf(b.allocations, loaded))
    BY <1>2, <2>1, SumFinite
  <2>7. Cardinality(BytesOf(d.allocations, names)) = Cardinality(BytesOf(b.allocations, loaded))
    BY <2>2, <2>3, <2>4, <2>5, <2>6, BytesMoved
  <2>8. SumOf(d, names) = Cardinality(BytesOf(d.allocations, names))
    BY <1>8, <2>1, SumFinite
  <2>9. SumOf(b, loaded) = bytes
    BY DEF loaded, p
  <2>10. QED
    BY <2>6, <2>7, <2>8, <2>9
<1>15. /\ c2.capacity = c.capacity /\ c2.used = c.used + bytes /\ c2.entries = es
       /\ c2.lru = <<i>> \o c.lru
       /\ c2 = [capacity |-> c.capacity, used |-> c.used + bytes, entries |-> es,
                lru |-> <<i>> \o c.lru]
  <2>1. c \in Caches
    BY DEF Consistent
  <2> DEFINE front == <<i>> \o c.lru
  <2>2. c2 = [c EXCEPT !.used = @ + bytes, !.lru = front, !.entries[i] = entry]
    BY DEF EntryInserted, p, q
  <2> HIDE DEF front, entry, loaded, names
  <2>3. /\ c2.capacity = c.capacity /\ c2.used = c.used + bytes /\ c2.lru = front
        /\ c2.entries = es
        /\ c2 \in [capacity : {c2.capacity}, used : {c2.used}, entries : {c2.entries}, lru : {c2.lru}]
    BY <2>1, <2>2 DEF Caches
  <2> HIDE DEF c2, es
  <2>4. QED
    BY <2>3 DEF front
<1>16. names \in SUBSET Names
  BY <1>11
<1>17. es \in [Layers -> [bytes : 0..MaxU64, charge_names : SUBSET Names]]
  <2>1. entry \in [bytes : 0..MaxU64, charge_names : SUBSET Names]
    BY <1>16
  <2> HIDE DEF entry
  <2>2. QED
    BY <2>1, CacheParts
<1>18. /\ es[i].bytes = bytes /\ es[i].charge_names = names
       /\ \A j \in Layers : j # i => es[j] = c.entries[j]
  <2> HIDE DEF names
  <2>1. QED
    BY CacheParts
<1> HIDE DEF c2, es, entry, names, loaded
<1>19. ASSUME NEW j \in Layers
       PROVE  /\ ChargedUnder(d, Resident(j)) = es[j].charge_names
              /\ SumOf(d, es[j].charge_names) = es[j].bytes
  <2>1. CASE j = i
    BY <1>13, <1>14, <1>18, <2>1 DEF q
  <2>2. CASE j # i
    <3>1. Resident(j) # q /\ Resident(j) # p
      BY <2>2, PrefixesDiffer DEF p, q
    <3>2. /\ ChargedUnder(b, Resident(j)) = c.entries[j].charge_names
          /\ SumOf(b, c.entries[j].charge_names) = c.entries[j].bytes
      BY DEF Consistent, EntriesCharged
    <3>3. ChargedUnder(d, Resident(j)) = ChargedUnder(b, Resident(j))
      BY <1>10, <3>1 DEF ChargedUnder, Charged
    <3>4. \A n \in c.entries[j].charge_names : d.allocations[n] = b.allocations[n]
      BY <1>10, <3>1, <3>2 DEF ChargedUnder
    <3>5. SumOf(d, c.entries[j].charge_names) = SumOf(b, c.entries[j].charge_names)
      BY <3>4 DEF SumOf
    <3>6. QED
      BY <1>18, <2>2, <3>2, <3>3, <3>5
  <2>3. QED
    BY <2>1, <2>2
<1>20. EntriesCharged(c2, d)
  BY <1>15, <1>19 DEF EntriesCharged
<1>21. /\ IsFiniteSet(BytesOf(Sizes(c2), Layers))
       /\ c2.used = Cardinality(BytesOf(Sizes(c2), Layers))
  <2> DEFINE one == {i}
             rest == Layers \ one
  <2>1. \A j \in Layers : Sizes(c)[j] = IF j \in one THEN 0 ELSE Sizes(c2)[j]
    BY <1>2, <1>15, <1>18 DEF Sizes
  <2>2. Sizes(c2)[i] = bytes
    BY <1>15, <1>18 DEF Sizes
  <2>3. IsFiniteSet(BytesOf(Sizes(c2), one)) /\ Cardinality(BytesOf(Sizes(c2), one)) = bytes
    BY <1>2, <2>2, BytesOne
  <2>4. rest \cap one = {} /\ rest \cup one = Layers
    OBVIOUS
  <2>5. \A j \in Layers : Sizes(c2)[j] \in Nat
    <3>1. \A j \in Layers : Sizes(c2)[j] = es[j].bytes
      BY <1>15 DEF Sizes
    <3>2. QED
      BY <1>17, <3>1, MaxU64Assumption
  <2> HIDE DEF one
  <2>6. BytesOf(Sizes(c), Layers) = BytesOf(Sizes(c2), rest)
    BY <2>1, BytesZeroed
  <2>7. /\ IsFiniteSet(BytesOf(Sizes(c2), rest))
        /\ c.used = Cardinality(BytesOf(Sizes(c2), rest))
    BY <2>6 DEF Consistent
  <2> HIDE DEF rest
  <2>8. /\ IsFiniteSet(BytesOf(Sizes(c2), rest \cup one))
        /\ Cardinality(BytesOf(Sizes(c2), rest \cup one)) =
             Cardinality(BytesOf(Sizes(c2), rest)) + Cardinality(BytesOf(Sizes(c2), one))
    BY <2>3, <2>4, <2>5, <2>7, BytesJoin
  <2>9. Cardinality(BytesOf(Sizes(c2), rest \cup one)) = c.used + bytes
    BY <2>3, <2>7, <2>8
  <2>10. QED
    BY <1>15, <2>4, <2>8, <2>9, Zenon
<1>22. LruExact(Layers, c2.lru, {j \in Layers : Cached(c2, j)})
  <2> DEFINE held == {j \in Layers : Cached(c, j)}
  <2>1. LruExact(Layers, c.lru, held) /\ i \notin held
    BY DEF Consistent
  <2>2. {j \in Layers : Cached(c2, j)} = held \cup {i}
    BY <1>15, <1>18 DEF Cached
  <2> HIDE DEF held
  <2>3. LruExact(Layers, <<i>> \o c.lru, held \cup {i})
    BY <2>1, PushFront
  <2>4. LruExact(Layers, <<i>> \o c.lru, held \cup {i})
    BY <2>3 DEF LruExact
  <2>5. QED
    BY <1>15, <2>2, <2>4, Zenon
<1>23. c2 \in Caches
  <2>1. c2.lru \in Seq(Layers)
    BY <1>22 DEF LruExact
  <2>2. c.used + bytes \in 0..MaxU64
    BY <1>2, MaxU64Assumption
  <2>3. QED
    BY <1>2, <1>15, <1>17, <2>1, <2>2 DEF Caches
<1>24. Consistent(c2, d)
  BY <1>8, <1>15, <1>20, <1>21, <1>22, <1>23 DEF Consistent
<1>25. QED
  BY <1>7, <1>10, <1>24 DEF c2, d, p, q

(* Moving an entry to the front of the list.                               *)
LEMMA TouchedConsistent ==
    ASSUME NEW c, NEW b, Consistent(c, b), NEW i \in Layers, Cached(c, i)
    PROVE  /\ Consistent(Touched(c, i), b)
           /\ Touched(c, i).entries = c.entries
<1> DEFINE held == {j \in Layers : Cached(c, j)}
           front == <<i>> \o Without(c.lru, i)
           c2 == Touched(c, i)
<1>1. LruExact(Layers, c.lru, held) /\ i \in held /\ c \in Caches
  BY DEF Consistent
<1>2. (held \ {i}) \cup {i} = held /\ i \notin held \ {i}
  BY <1>1
<1> HIDE DEF held
<1>3. LruExact(Layers, Without(c.lru, i), held \ {i})
  BY <1>1, TakeOut
<1>4. LruExact(Layers, front, (held \ {i}) \cup {i})
  BY <1>2, <1>3, PushFront
<1>5. LruExact(Layers, front, held)
  BY <1>2, <1>4, Zenon
<1>6. front \in Seq(Layers)
  BY <1>5 DEF LruExact
<1>7. c2 = [c EXCEPT !.lru = front]
  BY DEF Touched
<1> HIDE DEF front, c2
<1>8. /\ c2.capacity = c.capacity /\ c2.used = c.used /\ c2.entries = c.entries
      /\ c2.lru = front /\ c2 \in Caches
  BY <1>1, <1>6, <1>7 DEF Caches
<1>9. Sizes(c2) = Sizes(c) /\ {j \in Layers : Cached(c2, j)} = held
  BY <1>8 DEF Sizes, held, Cached
<1>10. EntriesCharged(c2, b)
  BY <1>8 DEF Consistent, EntriesCharged
<1>11. LruExact(Layers, c2.lru, {j \in Layers : Cached(c2, j)})
  <2>1. LruExact(Layers, front, held)
    BY <1>5 DEF LruExact
  <2>2. QED
    BY <1>8, <1>9, <2>1, Zenon
<1>12. Consistent(c2, b)
  BY <1>8, <1>9, <1>10, <1>11 DEF Consistent
<1>13. QED
  BY <1>8, <1>12 DEF c2

(* A cache that holds nothing agrees with every ledger that charges        *)
(* nothing for it.                                                         *)
LEMMA NewCacheConsistent ==
    ASSUME NEW b, LedgerOK(b), NEW capacity \in 0..MaxU64,
           \A i \in Layers : ChargedUnder(b, Resident(i)) = {}
    PROVE  Consistent(NewCache(capacity), b)
<1> DEFINE c == NewCache(capacity)
<1>1. /\ c.used = 0 /\ c.capacity = capacity /\ c.lru = <<>>
      /\ c.entries = [i \in Layers |-> NoEntry]
  BY DEF NewCache
<1>2. \A i \in Layers : c.entries[i].bytes = 0 /\ c.entries[i].charge_names = {}
  BY <1>1 DEF NoEntry
<1>3. c \in Caches
  <2>1. NoEntry \in [bytes : 0..MaxU64, charge_names : SUBSET Names]
    BY MaxU64Assumption DEF NoEntry
  <2>2. 0 \in 0..MaxU64
    BY MaxU64Assumption
  <2>3. [i \in Layers |-> NoEntry] \in [Layers -> [bytes : 0..MaxU64, charge_names : SUBSET Names]]
    BY <2>1
  <2>4. <<>> \in Seq(Layers)
    OBVIOUS
  <2>5. QED
    BY <2>2, <2>3, <2>4 DEF NewCache, Caches
<1>4. /\ IsFiniteSet(BytesOf(Sizes(c), Layers))
      /\ Cardinality(BytesOf(Sizes(c), Layers)) = 0
  <2>1. \A i \in Layers : Sizes(c)[i] = 0
    BY <1>2 DEF Sizes
  <2>2. QED
    BY <2>1, BytesNone
<1> HIDE DEF c
<1>5. EntriesCharged(c, b)
  <2>1. SumOf(b, {}) = 0
    <3>1. SumOf(b, {}) = Cardinality({})
      BY DEF SumOf
    <3>2. QED
      BY <3>1, FS_EmptySet
  <2>2. QED
    BY <1>2, <2>1 DEF EntriesCharged
<1>6. LruExact(Layers, c.lru, {i \in Layers : Cached(c, i)})
  BY <1>1, <1>2 DEF LruExact, Cached
<1>7. c.used <= c.capacity
  BY <1>1
<1>8. Consistent(c, b)
  BY <1>1, <1>3, <1>4, <1>5, <1>6, <1>7 DEF Consistent
<1>9. QED
  BY <1>8 DEF c

(* A cache whose list is empty is charged nothing.                         *)
LEMMA EmptyUncharged ==
    ASSUME NEW c, NEW b, Consistent(c, b), c.lru = <<>>
    PROVE  \A i \in Layers : ~Cached(c, i) /\ ChargedUnder(b, Resident(i)) = {}
<1>1. \A i \in Layers : ~Cached(c, i)
  <2>1. {c.lru[j] : j \in 1..Len(c.lru)} = {}
    OBVIOUS
  <2>2. QED
    BY <2>1 DEF Consistent, LruExact
<1>2. ASSUME NEW i \in Layers, NEW n \in ChargedUnder(b, Resident(i)) PROVE FALSE
  <2> DEFINE S == ChargedUnder(b, Resident(i))
  <2>1. S \in SUBSET Names /\ n \in S /\ b.allocations[n] # 0
    BY <1>2 DEF ChargedUnder, Charged
  <2>2. SumOf(b, S) = 0 /\ LedgerOK(b)
    BY <1>1 DEF Consistent, EntriesCharged, Cached
  <2> HIDE DEF S
  <2>3. /\ \A m \in S : b.allocations[m] \in Nat
        /\ IsFiniteSet(BytesOf(b.allocations, S))
        /\ SumOf(b, S) = Cardinality(BytesOf(b.allocations, S))
    BY <2>1, <2>2, SumFinite
  <2>4. b.allocations[n] <= Cardinality(BytesOf(b.allocations, S))
    BY <2>1, <2>3, BytesBound
  <2>5. QED
    BY <2>1, <2>2, <2>3, <2>4
<1>3. QED
  BY <1>1, <1>2

(* The oldest entry goes: evict_lru's choice is always a cached layer.     *)
LEMMA OldestGone ==
    ASSUME NEW c, NEW b, Consistent(c, b), c.lru # <<>>
    PROVE  LET v == Victim(c)
           IN  /\ v \in Layers /\ Cached(c, v)
               /\ ReleaseEntryResult(c, b, v) = "Ok"
               /\ Consistent(EntryReleased(c, v, Popped(c)), EntryChargesReleased(c, b, v))
               /\ \A n \in Names : n[1] # Resident(v) =>
                     EntryChargesReleased(c, b, v).allocations[n] = b.allocations[n]
<1> DEFINE v == Victim(c)
           held == {i \in Layers : Cached(c, i)}
<1>1. LruExact(Layers, c.lru, held)
  BY DEF Consistent
<1> HIDE DEF held
<1>2. v \in held /\ v \in Layers /\ LruExact(Layers, Popped(c), held \ {v})
  BY <1>1, PopBack DEF Victim, Popped
<1> HIDE DEF v
<1>3. Cached(c, v) /\ LruExact(Layers, Popped(c), {j \in Layers : Cached(c, j)} \ {v})
  BY <1>2 DEF held
<1>4. /\ ReleaseEntryResult(c, b, v) = "Ok"
      /\ Consistent(EntryReleased(c, v, Popped(c)), EntryChargesReleased(c, b, v))
      /\ \A n \in Names : n[1] # Resident(v) =>
            EntryChargesReleased(c, b, v).allocations[n] = b.allocations[n]
  BY <1>2, <1>3, EntryGone
<1>5. QED
  BY <1>2, <1>3, <1>4 DEF v
-----------------------------------------------------------------------------
(* The closed forms of the eviction loops.                                 *)

(* The number of evictions the property names is the number made.          *)
LEMMA FewestToFit ==
    ASSUME NEW c, NEW bytes, NEW k \in Nat, Len(c.lru) \in Nat, k <= Len(c.lru),
           k = Len(c.lru) \/ CacheEvicted(c, k).used + bytes <= c.capacity,
           \A j \in 0..(k - 1) : ~(CacheEvicted(c, j).used + bytes <= c.capacity)
    PROVE  EvictionsToFit(c, bytes) = k
<1> DEFINE Fits(j) == CacheEvicted(c, j).used + bytes <= c.capacity
           Right(j) == /\ j = Len(c.lru) \/ Fits(j)
                       /\ \A l \in 0..(j - 1) : ~Fits(l)
           S == {j \in 0..Len(c.lru) : Right(j)}
<1>1. EvictionsToFit(c, bytes) = CHOOSE j \in S : TRUE
  BY DEF EvictionsToFit, EvictionCounts
<1>2. k \in 0..Len(c.lru) /\ Right(k)
  OBVIOUS
<1> HIDE DEF Fits
<1>3. ASSUME NEW j \in 0..Len(c.lru), Right(j) PROVE j = k
  BY <1>2, <1>3
<1> HIDE DEF Right
<1>4. k \in S /\ \A j \in S : j = k
  BY <1>2, <1>3
<1> HIDE DEF S
<1>5. QED
  BY <1>1, <1>4

LEMMA FewestFor ==
    ASSUME NEW c, NEW b, NEW bytes, NEW k \in Nat, Len(c.lru) \in Nat, k <= Len(c.lru),
           k = Len(c.lru) \/ CanAllocate(BudgetEvicted(c, b, k), bytes),
           \A j \in 0..(k - 1) : ~CanAllocate(BudgetEvicted(c, b, j), bytes)
    PROVE  EvictionsFor(c, b, bytes) = k
<1> DEFINE Fits(j) == CanAllocate(BudgetEvicted(c, b, j), bytes)
           Right(j) == /\ j = Len(c.lru) \/ Fits(j)
                       /\ \A l \in 0..(j - 1) : ~Fits(l)
           S == {j \in 0..Len(c.lru) : Right(j)}
<1>1. EvictionsFor(c, b, bytes) = CHOOSE j \in S : TRUE
  BY DEF EvictionsFor, EvictionCounts
<1>2. k \in 0..Len(c.lru) /\ Right(k)
  OBVIOUS
<1> HIDE DEF Fits
<1>3. ASSUME NEW j \in 0..Len(c.lru), Right(j) PROVE j = k
  BY <1>2, <1>3
<1> HIDE DEF Right
<1>4. k \in S /\ \A j \in S : j = k
  BY <1>2, <1>3
<1> HIDE DEF S
<1>5. QED
  BY <1>1, <1>4

(* The layers that go with the first k evictions, and the next one.        *)
LEMMA NextVictim ==
    ASSUME NEW c, NEW b, Consistent(c, b), NEW k \in Nat, k < Len(c.lru)
    PROVE  LET v == c.lru[Len(c.lru) - k]
           IN  /\ v \in Layers /\ v \notin Victims(c, k)
               /\ Victims(c, k) \subseteq Layers
               /\ Victims(c, k + 1) = Victims(c, k) \cup {v}
<1> DEFINE n == Len(c.lru)
           lru == c.lru
<1>1. /\ n \in Nat /\ \A j \in 1..n : lru[j] \in Layers
      /\ \A i, j \in 1..n : lru[i] = lru[j] => i = j
  <2>1. lru \in Seq(Layers)
    BY DEF Consistent, LruExact
  <2>2. n \in Nat /\ \A j \in 1..n : lru[j] \in Layers
    BY <2>1
  <2>3. QED
    BY <2>2 DEF Consistent, LruExact
<1>2. /\ Victims(c, k) = {lru[j] : j \in (n - k + 1)..n}
      /\ Victims(c, k + 1) = {lru[j] : j \in (n - (k + 1) + 1)..n}
  BY DEF Victims, Oldest
<1> HIDE DEF n, lru
<1>3. k < n
  BY DEF n, lru
<1>4. n - k \in 1..n /\ n - (k + 1) + 1 = n - k
  BY <1>1, <1>3
<1>5. \A j \in (n - k)..n : j = n - k \/ j \in (n - k + 1)..n
  BY <1>1, <1>3
<1>6. \A j \in (n - k + 1)..n : j \in 1..n /\ j # n - k /\ j \in (n - k)..n
  BY <1>1, <1>3
<1>7. n - k \in (n - k)..n
  BY <1>1, <1>3
<1>8. lru[n - k] \in Layers /\ lru[n - k] \notin Victims(c, k) /\ Victims(c, k) \subseteq Layers
  BY <1>1, <1>2, <1>4, <1>6
<1>9. Victims(c, k + 1) = Victims(c, k) \cup {lru[n - k]}
  BY <1>2, <1>4, <1>5, <1>6, <1>7
<1>10. QED
  BY <1>8, <1>9 DEF n, lru

(* No eviction changes nothing.                                            *)
LEMMA NoEvictions ==
    ASSUME NEW c, NEW b, Consistent(c, b)
    PROVE  CacheEvicted(c, 0) = c /\ BudgetEvicted(c, b, 0) = b
<1>1. c \in Caches /\ b \in Ledgers /\ Len(c.lru) \in Nat /\ c.lru \in Seq(Layers)
  <2>1. c \in Caches /\ b \in Ledgers /\ c.lru \in Seq(Layers)
    BY DEF Consistent, LedgerOK, LruExact
  <2>2. QED
    BY <2>1
<1>2. Victims(c, 0) = {}
  BY <1>1 DEF Victims, Oldest
<1>3. EntryBytes(c, {}) = 0
  <2>1. EntryBytes(c, {}) = Cardinality({})
    BY DEF EntryBytes
  <2>2. QED
    BY <2>1, FS_EmptySet
<1>4. SubSeq(c.lru, 1, Len(c.lru) - 0) = c.lru
  BY <1>1
<1>5. c.used - EntryBytes(c, Victims(c, 0)) = c.used
  <2>1. EntryBytes(c, Victims(c, 0)) = 0
    BY <1>2, <1>3, Zenon
  <2>2. c.used \in Nat
    BY CacheParts
  <2>3. QED
    BY <2>1, <2>2
<1>6. [i \in Layers |-> IF i \in Victims(c, 0) THEN NoEntry ELSE c.entries[i]] = c.entries
  BY <1>2, CacheParts
<1>7. CacheEvicted(c, 0) = [capacity |-> c.capacity, used |-> c.used, entries |-> c.entries, lru |-> c.lru]
  BY <1>4, <1>5, <1>6 DEF CacheEvicted, Newest
<1>8. CacheEvicted(c, 0) = c
  BY <1>7, CacheParts
<1>9. BudgetEvicted(c, b, 0) = ReleasedAll(b, {})
  <2>1. UNION {c.entries[i].charge_names : i \in Victims(c, 0)} = {}
    BY <1>2
  <2>2. QED
    BY <2>1, Zenon DEF BudgetEvicted
<1>10. SumOf(b, {}) = 0
  <2>1. SumOf(b, {}) = Cardinality({})
    BY DEF SumOf
  <2>2. QED
    BY <2>1, FS_EmptySet
<1>11. /\ [n \in Names |-> IF n \in {} THEN 0 ELSE b.allocations[n]] = b.allocations
       /\ b.used - SumOf(b, {}) = b.used
       /\ b = [total |-> b.total, allocations |-> b.allocations,
               used |-> b.used, peak_used |-> b.peak_used]
  <2>1. b.allocations \in [Names -> 0..MaxU64] /\ b.used \in Nat
    BY <1>1, MaxU64Assumption DEF Ledgers
  <2>2. b.used - SumOf(b, {}) = b.used
    BY <1>10, <2>1
  <2>3. [n \in Names |-> IF n \in {} THEN 0 ELSE b.allocations[n]] = b.allocations
    BY <2>1
  <2>4. QED
    BY <1>1, <2>2, <2>3 DEF Ledgers
<1>12. ReleasedAll(b, {}) = b
  BY <1>11 DEF ReleasedAll
<1>13. QED
  BY <1>8, <1>9, <1>12

(* The bytes of two sets of layers that do not meet.                       *)
LEMMA EntryBytesJoin ==
    ASSUME NEW c, NEW b, Consistent(c, b), NEW S \in SUBSET Layers,
           NEW v \in Layers, v \notin S
    PROVE  /\ EntryBytes(c, S) \in Nat
           /\ EntryBytes(c, S \cup {v}) = EntryBytes(c, S) + c.entries[v].bytes
<1> DEFINE one == {v}
           f == Sizes(c)
<1>1. /\ \A i \in Layers : f[i] \in Nat /\ f[i] = c.entries[i].bytes
      /\ IsFiniteSet(BytesOf(f, Layers))
  BY CacheParts DEF Consistent
<1>2. ASSUME NEW T \in SUBSET Layers PROVE EntryBytes(c, T) = Cardinality(BytesOf(f, T))
  <2>1. UNION {{i} \X (1..c.entries[i].bytes) : i \in T} = UNION {{i} \X (1..f[i]) : i \in T}
    BY <1>1
  <2>2. QED
    BY <2>1, Zenon DEF EntryBytes, BytesOf
<1>3. Layers \cap S = S /\ S \cap one = {} /\ S \cup one \in SUBSET Layers
  OBVIOUS
<1>4. IsFiniteSet(BytesOf(f, one)) /\ Cardinality(BytesOf(f, one)) = f[v]
  BY <1>1, BytesOne
<1> HIDE DEF f, one
<1>5. IsFiniteSet(BytesOf(f, Layers \cap S)) /\ Cardinality(BytesOf(f, Layers \cap S)) \in Nat
  BY <1>1, BytesSplit
<1>6. IsFiniteSet(BytesOf(f, S)) /\ Cardinality(BytesOf(f, S)) \in Nat
  BY <1>3, <1>5, Zenon
<1>7. \A x \in S \cup one : f[x] \in Nat
  BY <1>1 DEF one
<1>8. Cardinality(BytesOf(f, S \cup one)) = Cardinality(BytesOf(f, S)) + Cardinality(BytesOf(f, one))
  BY <1>3, <1>4, <1>6, <1>7, BytesJoin
<1>9. EntryBytes(c, S) \in Nat
  BY <1>2, <1>6
<1>10. EntryBytes(c, S \cup one) = EntryBytes(c, S) + c.entries[v].bytes
  <2>1. /\ EntryBytes(c, S \cup one) = Cardinality(BytesOf(f, S \cup one))
        /\ EntryBytes(c, S) = Cardinality(BytesOf(f, S))
    BY <1>2, <1>3
  <2>2. f[v] = c.entries[v].bytes
    BY <1>1
  <2>3. QED
    BY <1>4, <1>8, <2>1, <2>2
<1>11. QED
  BY <1>9, <1>10 DEF one

(* The charges of two sets of names that do not meet.                      *)
LEMMA SumJoin ==
    ASSUME NEW b, LedgerOK(b), NEW S \in SUBSET Names, NEW T \in SUBSET Names, S \cap T = {}
    PROVE  SumOf(b, S \cup T) = SumOf(b, S) + SumOf(b, T)
<1>1. /\ \A n \in S \cup T : b.allocations[n] \in Nat
      /\ IsFiniteSet(BytesOf(b.allocations, S)) /\ IsFiniteSet(BytesOf(b.allocations, T))
  BY SumFinite
<1>2. Cardinality(BytesOf(b.allocations, S \cup T)) =
        Cardinality(BytesOf(b.allocations, S)) + Cardinality(BytesOf(b.allocations, T))
  BY <1>1, BytesJoin
<1>3. /\ SumOf(b, S) = Cardinality(BytesOf(b.allocations, S))
      /\ SumOf(b, T) = Cardinality(BytesOf(b.allocations, T))
      /\ SumOf(b, S \cup T) = Cardinality(BytesOf(b.allocations, S \cup T))
  BY DEF SumOf, BytesOf
<1>4. QED
  BY <1>2, <1>3

(* The loop's next eviction takes one closed form to the next.             *)
LEMMA OneMoreEviction ==
    ASSUME NEW c, NEW b, Consistent(c, b), NEW k \in Nat, k < Len(c.lru)
    PROVE  LET c1 == CacheEvicted(c, k)
               b1 == BudgetEvicted(c, b, k)
           IN  /\ Len(c1.lru) = Len(c.lru) - k
               /\ EntryReleased(c1, Victim(c1), Popped(c1)) = CacheEvicted(c, k + 1)
               /\ EntryChargesReleased(c1, b1, Victim(c1)) = BudgetEvicted(c, b, k + 1)
<1> DEFINE n == Len(c.lru)
           lru == c.lru
           v == lru[n - k]
           gone == Victims(c, k)
           gone1 == Victims(c, k + 1)
           c1 == CacheEvicted(c, k)
           b1 == BudgetEvicted(c, b, k)
           es == [i \in Layers |-> IF i \in gone THEN NoEntry ELSE c.entries[i]]
           names == UNION {c.entries[i].charge_names : i \in gone}
           more == c.entries[v].charge_names
<1>1. n \in Nat /\ lru \in Seq(Layers) /\ n = Len(lru) /\ LedgerOK(b)
  <2>1. lru \in Seq(Layers) /\ LedgerOK(b)
    BY DEF Consistent, LruExact
  <2>2. QED
    BY <2>1
<1>2. v \in Layers /\ v \notin gone /\ gone \subseteq Layers /\ gone1 = gone \cup {v}
  BY NextVictim
<1>3. c1 = [capacity |-> c.capacity, used |-> c.used - EntryBytes(c, gone),
            entries |-> es, lru |-> SubSeq(lru, 1, n - k)]
  BY DEF CacheEvicted, Newest
<1>4. b1 = ReleasedAll(b, names)
  BY DEF BudgetEvicted
<1>5. CacheEvicted(c, k + 1) =
        [capacity |-> c.capacity, used |-> c.used - EntryBytes(c, gone1),
         entries |-> [i \in Layers |-> IF i \in gone1 THEN NoEntry ELSE c.entries[i]],
         lru |-> SubSeq(lru, 1, n - (k + 1))]
  BY DEF CacheEvicted, Newest
<1>6. BudgetEvicted(c, b, k + 1) = ReleasedAll(b, UNION {c.entries[i].charge_names : i \in gone1})
  BY DEF BudgetEvicted
<1> HIDE DEF gone, gone1, c1, b1
<1>7. k < n /\ n - k \in 0..n /\ n - k \in 1..(n - k) /\ (n - k) - 1 = n - (k + 1)
  <2>1. k < n
    OBVIOUS
  <2> HIDE DEF n
  <2>2. QED
    BY <1>1, <2>1
<1>8. /\ c1.lru = SubSeq(lru, 1, n - k) /\ Len(c1.lru) = n - k
      /\ c1.lru[n - k] = v
  <2>1. /\ Len(SubSeq(lru, 1, n - k)) = n - k
        /\ \A j \in 1..(n - k) : SubSeq(lru, 1, n - k)[j] = lru[j]
    BY <1>1, <1>7, FirstElements
  <2>2. c1.lru = SubSeq(lru, 1, n - k)
    BY <1>3
  <2>3. QED
    BY <1>7, <2>1, <2>2
<1>9. Victim(c1) = v
  BY <1>8 DEF Victim
<1>10. Popped(c1) = SubSeq(lru, 1, n - (k + 1))
  <2>1. Popped(c1) = SubSeq(SubSeq(lru, 1, n - k), 1, (n - k) - 1)
    BY <1>8 DEF Popped, Newest
  <2>2. SubSeq(SubSeq(lru, 1, n - k), 1, (n - k) - 1) = SubSeq(lru, 1, (n - k) - 1)
    <3> HIDE DEF n, lru
    <3>1. QED
      BY <1>1, <1>7
  <2>3. QED
    BY <1>7, <2>1, <2>2
<1> HIDE DEF v
<1>11. es[v] = c.entries[v] /\ es[v].bytes = c.entries[v].bytes
  BY <1>2
<1> DEFINE es1 == [es EXCEPT ![v] = NoEntry]
           low == c.used - EntryBytes(c, gone)
           c2 == EntryReleased(c1, v, Popped(c1))
<1>12. c2 = [capacity |-> c.capacity, used |-> low - c.entries[v].bytes,
             entries |-> es1, lru |-> SubSeq(lru, 1, n - (k + 1))]
  <2> DEFINE tail == SubSeq(lru, 1, n - (k + 1))
  <2>1. c2 = [c1 EXCEPT !.used = @ - c1.entries[v].bytes, !.entries[v] = NoEntry, !.lru = tail]
    BY <1>10 DEF EntryReleased
  <2>2. c1.entries[v].bytes = c.entries[v].bytes
    BY <1>3, <1>11
  <2>3. c1 = [capacity |-> c.capacity, used |-> low, entries |-> es, lru |-> c1.lru]
    BY <1>3
  <2> DEFINE bytes == c.entries[v].bytes
  <2> HIDE DEF tail, low, es, c2, bytes
  <2>4. c2 = [c1 EXCEPT !.used = @ - bytes, !.entries[v] = NoEntry, !.lru = tail]
    BY <2>1, <2>2 DEF bytes
  <2>5. /\ c2.capacity = c.capacity /\ c2.used = low - bytes /\ c2.lru = tail
        /\ c2 = [capacity |-> c2.capacity, used |-> c2.used, entries |-> c2.entries, lru |-> c2.lru]
    <3>1. c2.capacity = c.capacity
      BY <2>3, <2>4
    <3>2. c2.used = low - bytes
      BY <2>3, <2>4
    <3>3. c2.lru = tail
      BY <2>3, <2>4
    <3>4. c2 = [capacity |-> c2.capacity, used |-> c2.used, entries |-> c2.entries, lru |-> c2.lru]
      BY <2>3, <2>4
    <3>5. QED
      BY <3>1, <3>2, <3>3, <3>4
  <2>6. c2.entries = es1
    BY <2>3, <2>4
  <2> HIDE DEF es1
  <2>7. c2 = [capacity |-> c.capacity, used |-> low - bytes, entries |-> es1, lru |-> tail]
    BY <2>5, <2>6
  <2>8. QED
    BY <2>7 DEF tail, bytes
<1>13. es1 = [i \in Layers |-> IF i \in gone1 THEN NoEntry ELSE c.entries[i]]
  BY <1>2
<1>14. low - c.entries[v].bytes = c.used - EntryBytes(c, gone1)
  <2>1. /\ EntryBytes(c, gone) \in Nat
        /\ EntryBytes(c, gone \cup {v}) = EntryBytes(c, gone) + c.entries[v].bytes
    BY <1>2, EntryBytesJoin
  <2>2. EntryBytes(c, gone1) = EntryBytes(c, gone) + c.entries[v].bytes
    BY <1>2, <2>1, Zenon
  <2>3. c.used \in Nat /\ c.entries[v].bytes \in Nat
    BY <1>2, CacheParts
  <2>4. QED
    BY <2>1, <2>2, <2>3
<1>15. c2 = CacheEvicted(c, k + 1)
  BY <1>5, <1>12, <1>13, <1>14, Zenon
<1>16. UNION {c.entries[i].charge_names : i \in gone1} = names \cup more
  <2>1. {c.entries[i].charge_names : i \in gone1} = {c.entries[i].charge_names : i \in gone} \cup {more}
    BY <1>2
  <2>2. QED
    BY <2>1
<1>17. /\ names \in SUBSET Names /\ more \in SUBSET Names /\ names \cap more = {}
  <2>1. \A i \in Layers : ChargedUnder(b, Resident(i)) = c.entries[i].charge_names
    BY DEF Consistent, EntriesCharged
  <2>2. \A i \in Layers : \A m \in c.entries[i].charge_names : m \in Names /\ m[1] = Resident(i)
    BY <2>1 DEF ChargedUnder
  <2>3. \A m \in names : \E i \in gone : m \in c.entries[i].charge_names
    OBVIOUS
  <2>4. \A i \in gone : Resident(i) # Resident(v)
    BY <1>2, PrefixesDiffer
  <2> HIDE DEF names
  <2>5. QED
    BY <1>2, <2>2, <2>3, <2>4
<1> HIDE DEF names, more
<1>18. ReleasedAll(ReleasedAll(b, names), more) = ReleasedAll(b, names \cup more)
  <2> DEFINE d == ReleasedAll(b, names)
             a == [m \in Names |-> IF m \in names THEN 0 ELSE b.allocations[m]]
  <2>1. /\ d.total = b.total /\ d.allocations = a /\ d.used = b.used - SumOf(b, names)
        /\ d.peak_used = b.peak_used
    BY DEF ReleasedAll
  <2>2. \A m \in more : d.allocations[m] = b.allocations[m]
    BY <1>17, <2>1
  <2>3. SumOf(d, more) = SumOf(b, more)
    <3> HIDE DEF d
    <3>1. QED
      BY <2>2 DEF SumOf
  <2>4. SumOf(b, names \cup more) = SumOf(b, names) + SumOf(b, more)
    BY <1>1, <1>17, SumJoin
  <2>5. SumOf(b, names) \in Nat /\ SumOf(b, more) \in Nat /\ b.used \in Nat
    BY <1>1, <1>17, SumFinite, LedgerParts
  <2> HIDE DEF d
  <2>6. d.used - SumOf(d, more) = b.used - SumOf(b, names \cup more)
    BY <2>1, <2>3, <2>4, <2>5
  <2>7. [m \in Names |-> IF m \in more THEN 0 ELSE d.allocations[m]] =
          [m \in Names |-> IF m \in names \cup more THEN 0 ELSE b.allocations[m]]
    BY <2>1
  <2>8. ReleasedAll(d, more) = ReleasedAll(b, names \cup more)
    BY <2>1, <2>6, <2>7, Zenon DEF ReleasedAll
  <2>9. QED
    BY <2>8 DEF d
<1>19. EntryChargesReleased(c1, b1, v) = BudgetEvicted(c, b, k + 1)
  <2>1. c1.entries[v].charge_names = more
    BY <1>3, <1>11 DEF more
  <2>2. EntryChargesReleased(c1, b1, v) = ReleasedAll(b1, more)
    BY <2>1 DEF EntryChargesReleased
  <2>3. QED
    BY <1>4, <1>6, <1>16, <1>18, <2>2, Zenon
<1>20. QED
  BY <1>8, <1>9, <1>15, <1>19 DEF c1, b1, n

\* The names the cache does not charge.
Own == {n \in Names : \A i \in Layers : n[1] # Resident(i)}

\* What k evictions leave: agreement, and every other charge as it was.
LeavesInOrder(c, b, k) ==
    /\ Consistent(CacheEvicted(c, k), BudgetEvicted(c, b, k))
    /\ \A n \in Own : BudgetEvicted(c, b, k).allocations[n] = b.allocations[n]

(* Any number of evictions leaves the cache and the ledger in agreement    *)
(* and touches no other charge: the least number of evictions for which it *)
(* did not would follow one for which it did.                              *)
LEMMA EvictedConsistent ==
    ASSUME NEW c, NEW b, Consistent(c, b), NEW k \in 0..Len(c.lru)
    PROVE  LeavesInOrder(c, b, k)
<1> DEFINE n == Len(c.lru)
           Wrong == {j \in 0..n : ~LeavesInOrder(c, b, j)}
<1>1. n \in Nat /\ c.lru \in Seq(Layers)
  <2>1. c.lru \in Seq(Layers)
    BY DEF Consistent, LruExact
  <2>2. QED
    BY <2>1
<1>2. LeavesInOrder(c, b, 0)
  BY NoEvictions DEF LeavesInOrder
<1>3. ASSUME NEW j \in Nat, j < n, LeavesInOrder(c, b, j)
      PROVE  LeavesInOrder(c, b, j + 1)
  <2> DEFINE c1 == CacheEvicted(c, j)
             b1 == BudgetEvicted(c, b, j)
  <2>1. Consistent(c1, b1) /\ \A m \in Own : b1.allocations[m] = b.allocations[m]
    BY <1>3 DEF LeavesInOrder
  <2>2. /\ Len(c1.lru) = Len(c.lru) - j
        /\ EntryReleased(c1, Victim(c1), Popped(c1)) = CacheEvicted(c, j + 1)
        /\ EntryChargesReleased(c1, b1, Victim(c1)) = BudgetEvicted(c, b, j + 1)
    BY <1>3, OneMoreEviction
  <2>3. c1.lru # <<>>
    BY <1>1, <1>3, <2>2
  <2> HIDE DEF c1, b1
  <2>4. /\ Victim(c1) \in Layers
        /\ Consistent(CacheEvicted(c, j + 1), BudgetEvicted(c, b, j + 1))
        /\ \A m \in Names : m[1] # Resident(Victim(c1)) =>
              BudgetEvicted(c, b, j + 1).allocations[m] = b1.allocations[m]
    BY <2>1, <2>2, <2>3, OldestGone
  <2>5. \A m \in Own : BudgetEvicted(c, b, j + 1).allocations[m] = b.allocations[m]
    BY <2>1, <2>4 DEF Own
  <2>6. QED
    BY <2>4, <2>5 DEF LeavesInOrder
<1> HIDE DEF n
<1>4. ASSUME Wrong # {} PROVE FALSE
  <2>1. Wrong \subseteq Nat
    BY <1>1
  <2>2. PICK m \in Wrong : \A j \in Wrong : m <= j
    BY <1>4, <2>1, LeastNumber
  <2>3. m \in 0..n /\ ~LeavesInOrder(c, b, m) /\ m # 0
    BY <1>2, <2>2
  <2>4. m - 1 \in 0..n /\ m - 1 \in Nat /\ m - 1 < n /\ (m - 1) + 1 = m /\ m - 1 < m
    BY <1>1, <2>3
  <2>5. LeavesInOrder(c, b, m - 1)
    BY <1>1, <2>2, <2>4
  <2>6. LeavesInOrder(c, b, (m - 1) + 1)
    BY <1>3, <2>4, <2>5
  <2>7. QED
    BY <2>3, <2>4, <2>6
<1>5. QED
  BY <1>4 DEF n

(* Making room: after the evictions a demand costs there is room for it,   *)
(* or nothing is left to evict.                                            *)
LEMMA RoomMade ==
    ASSUME NEW c, NEW b, Consistent(c, b), NEW bytes
    PROVE  LET k == EvictionsFor(c, b, bytes)
           IN  /\ k \in 0..Len(c.lru)
               /\ LeavesInOrder(c, b, k)
               /\ \/ CanAllocate(BudgetEvicted(c, b, k), bytes)
                  \/ CacheEvicted(c, k).lru = <<>>
<1> DEFINE n == Len(c.lru)
           Fits(j) == CanAllocate(BudgetEvicted(c, b, j), bytes)
           enough == {j \in 0..n : j = n \/ Fits(j)}
<1>1. n \in Nat /\ c.lru \in Seq(Layers)
  <2>1. c.lru \in Seq(Layers)
    BY DEF Consistent, LruExact
  <2>2. QED
    BY <2>1
<1> HIDE DEF n, Fits
<1>2. enough \subseteq Nat /\ n \in enough
  BY <1>1
<1>3. PICK k \in enough : \A j \in enough : k <= j
  BY <1>2, LeastNumber
<1>4. k \in Nat /\ k <= n /\ (k = n \/ Fits(k)) /\ k \in 0..n
  BY <1>1, <1>3
<1>5. \A j \in 0..(k - 1) : ~Fits(j)
  <2>1. \A j \in 0..(k - 1) : j \in 0..n /\ ~(k <= j)
    BY <1>1, <1>4
  <2>2. QED
    BY <1>3, <2>1
<1>6. EvictionsFor(c, b, bytes) = k
  <2>1. k <= Len(c.lru) /\ Len(c.lru) \in Nat
    BY <1>1, <1>4 DEF n
  <2>2. k = Len(c.lru) \/ CanAllocate(BudgetEvicted(c, b, k), bytes)
    BY <1>4 DEF n, Fits
  <2>3. \A j \in 0..(k - 1) : ~CanAllocate(BudgetEvicted(c, b, j), bytes)
    BY <1>5 DEF Fits
  <2>4. QED
    BY <1>4, <2>1, <2>2, <2>3, FewestFor
<1>7. LeavesInOrder(c, b, k)
  BY <1>4, EvictedConsistent DEF n
<1>8. k = n => CacheEvicted(c, k).lru = <<>>
  BY <1>1 DEF CacheEvicted, Newest, n
<1>9. QED
  BY <1>4, <1>6, <1>7, <1>8 DEF n, Fits

(* Making room in the cache itself.                                        *)
LEMMA FitMade ==
    ASSUME NEW c, NEW b, Consistent(c, b), NEW bytes \in 0..c.capacity
    PROVE  LET k == EvictionsToFit(c, bytes)
           IN  /\ k \in 0..Len(c.lru)
               /\ LeavesInOrder(c, b, k)
               /\ CacheEvicted(c, k).used + bytes <= c.capacity
<1> DEFINE n == Len(c.lru)
           Fits(j) == CacheEvicted(c, j).used + bytes <= c.capacity
           enough == {j \in 0..n : Fits(j)}
<1>1. n \in Nat /\ c.lru \in Seq(Layers) /\ c.capacity \in Nat
  <2>1. c.lru \in Seq(Layers)
    BY DEF Consistent, LruExact
  <2>2. QED
    BY <2>1, CacheParts, MaxU64Assumption
<1>2. Fits(n)
  <2> DEFINE d == CacheEvicted(c, n)
  <2>1. Consistent(d, BudgetEvicted(c, b, n)) /\ d.lru = <<>>
    <3>1. n \in 0..Len(c.lru)
      BY <1>1
    <3>2. LeavesInOrder(c, b, n)
      BY <3>1, EvictedConsistent
    <3>3. d.lru = <<>>
      BY <1>1 DEF CacheEvicted, Newest
    <3>4. QED
      BY <3>2, <3>3 DEF LeavesInOrder
  <2> HIDE DEF d
  <2>2. \A i \in Layers : ~Cached(d, i)
    BY <2>1, EmptyUncharged
  <2>3. \A i \in Layers : Sizes(d)[i] = 0
    BY <2>2 DEF Sizes, Cached
  <2>4. d.used = 0
    BY <2>1, <2>3, BytesNone DEF Consistent
  <2>5. QED
    BY <1>1, <2>4 DEF d
<1> HIDE DEF n, Fits
<1>3. enough \subseteq Nat /\ n \in enough
  BY <1>1, <1>2
<1>4. PICK k \in enough : \A j \in enough : k <= j
  BY <1>3, LeastNumber
<1>5. k \in Nat /\ k <= n /\ Fits(k) /\ k \in 0..n
  BY <1>1, <1>4
<1>6. \A j \in 0..(k - 1) : ~Fits(j)
  <2>1. \A j \in 0..(k - 1) : j \in 0..n /\ ~(k <= j)
    BY <1>1, <1>5
  <2>2. QED
    BY <1>4, <2>1
<1>7. EvictionsToFit(c, bytes) = k
  <2>1. k <= Len(c.lru) /\ Len(c.lru) \in Nat
    BY <1>1, <1>5 DEF n
  <2>2. k = Len(c.lru) \/ CacheEvicted(c, k).used + bytes <= c.capacity
    BY <1>5 DEF Fits
  <2>3. \A j \in 0..(k - 1) : ~(CacheEvicted(c, j).used + bytes <= c.capacity)
    BY <1>6 DEF Fits
  <2>4. QED
    BY <1>5, <2>1, <2>2, <2>3, FewestToFit
<1>8. LeavesInOrder(c, b, k)
  BY <1>5, EvictedConsistent DEF n
<1>9. QED
  BY <1>5, <1>7, <1>8 DEF n, Fits
=============================================================================
