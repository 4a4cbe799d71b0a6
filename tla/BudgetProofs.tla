---------------------------- MODULE BudgetProofs ----------------------------
(***************************************************************************)
(* What the ledger operations of module Budget preserve, for any set of    *)
(* names and any counter width; and what the sums, folds and orderings the *)
(* models are built from compute, for any finite set.                      *)
(***************************************************************************)
EXTENDS Budget, LruList, FiniteSetsExt, SequencesExt, FiniteSetTheorems, SequenceTheorems,
        WellFoundedInduction, TLAPS

(***************************************************************************)
(* A ledger that adds up: `used` is the number of charged bytes, and used, *)
(* peak and total are ordered.                                             *)
(***************************************************************************)
LedgerOK(b) ==
    /\ b \in Ledgers
    /\ IsFiniteSet(ChargedBytes(b.allocations))
    /\ b.used = Cardinality(ChargedBytes(b.allocations))
    /\ b.used <= b.peak_used
    /\ b.peak_used <= b.total

ChargeMaps == [Names -> Nat]
-----------------------------------------------------------------------------
(* Membership in the set of charged bytes, without the UNION.              *)
LEMMA ChargedByte ==
    ASSUME NEW a \in ChargeMaps, NEW z
    PROVE  z \in ChargedBytes(a) <=> \E n \in Names, k \in Nat : k \in 1..a[n] /\ z = <<n, k>>
BY DEF ChargedBytes, ChargeMaps

(* Charging an uncharged name adds exactly its bytes to the sum.           *)
LEMMA ChargeOne ==
    ASSUME NEW a \in ChargeMaps, NEW n \in Names, NEW s \in Nat,
           a[n] = 0, IsFiniteSet(ChargedBytes(a))
    PROVE  LET c == [a EXCEPT ![n] = s]
           IN  /\ c \in ChargeMaps
               /\ IsFiniteSet(ChargedBytes(c))
               /\ Cardinality(ChargedBytes(c)) = Cardinality(ChargedBytes(a)) + s
<1> DEFINE c == [a EXCEPT ![n] = s]
           new == {n} \X (1..s)
<1>1. c \in ChargeMaps
  BY DEF ChargeMaps
<1>2. IsFiniteSet(new) /\ Cardinality(new) = s
  <2>1. IsFiniteSet(1..s) /\ Cardinality(1..s) = s
    BY FS_Interval
  <2>2. IsFiniteSet({n}) /\ Cardinality({n}) = 1
    BY FS_Singleton
  <2>3. QED
    BY <2>1, <2>2, FS_Product
<1>3. ChargedBytes(c) = ChargedBytes(a) \cup new
  <2>1. ASSUME NEW z, z \in ChargedBytes(c)
        PROVE  z \in ChargedBytes(a) \cup new
    <3>1. PICK m \in Names, k \in Nat : k \in 1..c[m] /\ z = <<m, k>>
      <4> HIDE DEF c
      <4>1. QED
        BY <1>1, <2>1, ChargedByte
    <3>2. CASE m = n
      BY <3>1, <3>2 DEF ChargeMaps
    <3>3. CASE m # n
      <4>1. c[m] = a[m]
        BY <3>3 DEF ChargeMaps
      <4>2. QED
        BY <3>1, <4>1, ChargedByte
    <3>4. QED
      BY <3>2, <3>3
  <2>2. ASSUME NEW z, z \in ChargedBytes(a)
        PROVE  z \in ChargedBytes(c)
    <3>1. PICK m \in Names, k \in Nat : k \in 1..a[m] /\ z = <<m, k>>
      BY <2>2, ChargedByte
    <3>2. m # n /\ c[m] = a[m]
      BY <3>1 DEF ChargeMaps
    <3>3. QED
      BY <1>1, <3>1, <3>2, ChargedByte
  <2>3. ASSUME NEW z \in new
        PROVE  z \in ChargedBytes(c)
    <3>1. PICK k \in 1..s : z = <<n, k>>
      BY <2>3
    <3>2. c[n] = s
      BY DEF ChargeMaps
    <3>3. QED
      BY <1>1, <3>1, <3>2, ChargedByte
  <2>4. QED
    BY <2>1, <2>2, <2>3
<1>4. ChargedBytes(a) \cap new = {}
  <2>1. ASSUME NEW z \in ChargedBytes(a), z \in new
        PROVE  FALSE
    <3>1. PICK m \in Names, k \in Nat : k \in 1..a[m] /\ z = <<m, k>>
      BY ChargedByte
    <3>2. m = n
      BY <2>1, <3>1
    <3>3. QED
      BY <3>1, <3>2
  <2>2. QED
    BY <2>1
<1>5. Cardinality(ChargedBytes(a)) \in Nat
  BY FS_CardinalityType
<1>6. /\ IsFiniteSet(ChargedBytes(a) \cup new)
      /\ Cardinality(ChargedBytes(a) \cup new) = Cardinality(ChargedBytes(a)) + s
  <2> HIDE DEF new
  <2>1. Cardinality(ChargedBytes(a) \cap new) = 0
    BY <1>4, FS_EmptySet
  <2>2. /\ IsFiniteSet(ChargedBytes(a) \cup new)
        /\ Cardinality(ChargedBytes(a) \cup new) =
             Cardinality(ChargedBytes(a)) + Cardinality(new) - Cardinality(ChargedBytes(a) \cap new)
    BY <1>2, FS_Union
  <2>3. QED
    BY <1>2, <1>5, <2>1, <2>2
<1>7. QED
  BY <1>1, <1>3, <1>6

(* Releasing a name takes exactly its bytes from the sum, which holds them.*)
LEMMA DischargeOne ==
    ASSUME NEW a \in ChargeMaps, NEW n \in Names, IsFiniteSet(ChargedBytes(a))
    PROVE  LET c == [a EXCEPT ![n] = 0]
           IN  /\ c \in ChargeMaps
               /\ IsFiniteSet(ChargedBytes(c))
               /\ Cardinality(ChargedBytes(c)) = Cardinality(ChargedBytes(a)) - a[n]
               /\ Cardinality(ChargedBytes(c)) \in Nat
<1> DEFINE c == [a EXCEPT ![n] = 0]
<1>1. c \in ChargeMaps /\ c[n] = 0 /\ a[n] \in Nat /\ a = [c EXCEPT ![n] = a[n]]
  BY DEF ChargeMaps
<1>2. ChargedBytes(c) \subseteq ChargedBytes(a)
  <2>1. ASSUME NEW z \in ChargedBytes(c)
        PROVE  z \in ChargedBytes(a)
    <3>1. PICK m \in Names, k \in Nat : k \in 1..c[m] /\ z = <<m, k>>
      BY <1>1, ChargedByte
    <3>2. m # n
      BY <1>1, <3>1
    <3>3. c[m] = a[m]
      BY <3>2 DEF ChargeMaps
    <3>4. QED
      BY <3>1, <3>3, ChargedByte
  <2>2. QED
    BY <2>1
<1>3. IsFiniteSet(ChargedBytes(c))
  BY <1>2, FS_Subset
<1>4. Cardinality(ChargedBytes(c)) \in Nat
  BY <1>3, FS_CardinalityType
<1>5. Cardinality(ChargedBytes(a)) = Cardinality(ChargedBytes(c)) + a[n]
  <2> HIDE DEF c
  <2>1. LET d == [c EXCEPT ![n] = a[n]]
        IN  Cardinality(ChargedBytes(d)) = Cardinality(ChargedBytes(c)) + a[n]
    BY <1>1, <1>3, ChargeOne
  <2>2. QED
    BY <1>1, <2>1
<1>6. QED
  BY <1>1, <1>3, <1>4, <1>5

(* Giving a charged name another size changes the sum by the difference.   *)
LEMMA RechargeOne ==
    ASSUME NEW a \in ChargeMaps, NEW n \in Names, NEW s \in Nat,
           IsFiniteSet(ChargedBytes(a))
    PROVE  LET c == [a EXCEPT ![n] = s]
           IN  /\ c \in ChargeMaps
               /\ IsFiniteSet(ChargedBytes(c))
               /\ Cardinality(ChargedBytes(c)) = Cardinality(ChargedBytes(a)) - a[n] + s
<1> DEFINE d == [a EXCEPT ![n] = 0]
<1>1. /\ d \in ChargeMaps
      /\ IsFiniteSet(ChargedBytes(d))
      /\ Cardinality(ChargedBytes(d)) = Cardinality(ChargedBytes(a)) - a[n]
  BY DischargeOne
<1>2. d[n] = 0 /\ [d EXCEPT ![n] = s] = [a EXCEPT ![n] = s]
  BY DEF ChargeMaps
<1> HIDE DEF d
<1>3. LET e == [d EXCEPT ![n] = s]
      IN  /\ e \in ChargeMaps
          /\ IsFiniteSet(ChargedBytes(e))
          /\ Cardinality(ChargedBytes(e)) = Cardinality(ChargedBytes(d)) + s
  BY <1>1, <1>2, ChargeOne
<1>4. QED
  BY <1>1, <1>2, <1>3

(* Moving every charge under one prefix to another prefix whose matching   *)
(* names are free is a bijection of the charged bytes.                     *)
LEMMA RenameBytes ==
    ASSUME NEW a \in ChargeMaps, NEW p \in NamePrefixes, NEW q \in NamePrefixes, p # q,
           IsFiniteSet(ChargedBytes(a)),
           \A n \in Names : n[1] = p /\ a[n] # 0 => a[<<q, n[2]>>] = 0
    PROVE  LET c == [n \in Names |-> IF n[1] = q /\ a[<<p, n[2]>>] # 0
                                     THEN a[<<p, n[2]>>]
                                     ELSE IF n[1] = p THEN 0 ELSE a[n]]
           IN  /\ c \in ChargeMaps
               /\ IsFiniteSet(ChargedBytes(c))
               /\ Cardinality(ChargedBytes(c)) = Cardinality(ChargedBytes(a))
<1> DEFINE c == [n \in Names |-> IF n[1] = q /\ a[<<p, n[2]>>] # 0
                                 THEN a[<<p, n[2]>>]
                                 ELSE IF n[1] = p THEN 0 ELSE a[n]]
           moved(z) == IF z[1][1] = p THEN <<<<q, z[1][2]>>, z[2]>> ELSE z
           f == [z \in ChargedBytes(a) |-> moved(z)]
<1>1. \A n \in Names : <<p, n[2]>> \in Names /\ <<q, n[2]>> \in Names
  BY DEF Names
<1>2. c \in ChargeMaps
  BY <1>1 DEF ChargeMaps
<1>3. ASSUME NEW z \in ChargedBytes(a)
      PROVE  moved(z) \in ChargedBytes(c)
  <2>1. PICK n \in Names, k \in Nat : k \in 1..a[n] /\ z = <<n, k>>
    BY ChargedByte
  <2>2. a[n] # 0
    BY <2>1 DEF ChargeMaps
  <2>3. CASE n[1] = p
    <3>1. moved(z) = <<<<q, n[2]>>, k>>
      BY <2>1, <2>3
    <3>2. n = <<p, n[2]>>
      BY <2>3 DEF Names
    <3>3. c[<<q, n[2]>>] = a[n]
      BY <1>1, <2>2, <3>2
    <3>4. QED
      BY <1>1, <1>2, <2>1, <3>1, <3>3, ChargedByte
  <2>4. CASE n[1] # p
    <3>1. moved(z) = <<n, k>>
      BY <2>1, <2>4
    <3>2. ~(n[1] = q /\ a[<<p, n[2]>>] # 0)
      <4>1. SUFFICES ASSUME n[1] = q, a[<<p, n[2]>>] # 0 PROVE FALSE
        OBVIOUS
      <4>2. n = <<q, n[2]>>
        BY <4>1 DEF Names
      <4>3. a[n] = 0
        BY <1>1, <4>1, <4>2
      <4>4. QED
        BY <2>2, <4>3
    <3>3. c[n] = a[n]
      BY <2>4, <3>2
    <3>4. QED
      BY <1>2, <2>1, <3>1, <3>3, ChargedByte
  <2>5. QED
    BY <2>3, <2>4
<1>4. f \in [ChargedBytes(a) -> ChargedBytes(c)]
  BY <1>3
<1>5. ASSUME NEW y \in ChargedBytes(a), NEW z \in ChargedBytes(a), moved(y) = moved(z)
      PROVE  y = z
  <2>1. PICK m \in Names, j \in Nat : j \in 1..a[m] /\ y = <<m, j>>
    BY ChargedByte
  <2>2. PICK n \in Names, k \in Nat : k \in 1..a[n] /\ z = <<n, k>>
    BY ChargedByte
  <2>3. a[m] # 0 /\ a[n] # 0
    BY <2>1, <2>2 DEF ChargeMaps
  <2>4. m = <<m[1], m[2]>> /\ n = <<n[1], n[2]>>
    BY DEF Names
  <2>5. CASE m[1] = p /\ n[1] = p
    BY <1>5, <2>1, <2>2, <2>4, <2>5
  <2>6. CASE m[1] # p /\ n[1] # p
    BY <1>5, <2>1, <2>2, <2>6
  <2>7. CASE m[1] = p /\ n[1] # p
    <3>1. n = <<q, m[2]>>
      BY <1>5, <2>1, <2>2, <2>7
    <3>2. QED
      BY <2>3, <2>7, <3>1
  <2>8. CASE m[1] # p /\ n[1] = p
    <3>1. m = <<q, n[2]>>
      BY <1>5, <2>1, <2>2, <2>8
    <3>2. QED
      BY <2>3, <2>8, <3>1
  <2>9. QED
    BY <2>5, <2>6, <2>7, <2>8
<1>6. ASSUME NEW y \in ChargedBytes(c)
      PROVE  \E z \in ChargedBytes(a) : moved(z) = y
  <2>1. PICK n \in Names, k \in Nat : k \in 1..c[n] /\ y = <<n, k>>
    <3> HIDE DEF c
    <3>1. QED
      BY <1>2, <1>6, ChargedByte
  <2>2. CASE n[1] = q /\ a[<<p, n[2]>>] # 0
    <3>1. k \in 1..a[<<p, n[2]>>]
      BY <2>1, <2>2
    <3>2. n = <<q, n[2]>>
      BY <2>2 DEF Names
    <3>3. <<<<p, n[2]>>, k>> \in ChargedBytes(a)
      BY <1>1, <3>1, ChargedByte
    <3>4. moved(<<<<p, n[2]>>, k>>) = y
      BY <2>1, <3>2
    <3>5. QED
      BY <3>3, <3>4
  <2>3. CASE ~(n[1] = q /\ a[<<p, n[2]>>] # 0)
    <3>1. n[1] # p
      BY <2>1, <2>3
    <3>2. k \in 1..a[n]
      BY <2>1, <2>3, <3>1
    <3>3. y \in ChargedBytes(a)
      BY <2>1, <3>2, ChargedByte
    <3>4. moved(y) = y
      BY <2>1, <3>1
    <3>5. QED
      BY <3>3, <3>4
  <2>4. QED
    BY <2>2, <2>3
<1>7. f \in Bijection(ChargedBytes(a), ChargedBytes(c))
  <2>1. \A y, z \in ChargedBytes(a) : f[y] = f[z] => y = z
    BY <1>5
  <2>2. \A y \in ChargedBytes(c) : \E z \in ChargedBytes(a) : f[z] = y
    BY <1>6
  <2> HIDE DEF f
  <2>3. QED
    BY <1>4, <2>1, <2>2 DEF Bijection, Injection, Surjection, IsInjective
<1>8. ExistsBijection(ChargedBytes(a), ChargedBytes(c))
  BY <1>7 DEF ExistsBijection
<1>9. QED
  BY <1>2, <1>8, FS_Bijection
-----------------------------------------------------------------------------
(* A new ledger adds up.                                                   *)
LEMMA NewLedgerOK ==
    ASSUME NEW total \in 1..MaxU64
    PROVE  LedgerOK(NewLedger(total))
<1> DEFINE a == [n \in Names |-> 0]
<1>1. ChargedBytes(a) = {}
  BY DEF ChargedBytes
<1>2. IsFiniteSet(ChargedBytes(a)) /\ Cardinality(ChargedBytes(a)) = 0
  BY <1>1, FS_EmptySet
<1> HIDE DEF a
<1>3. NewLedger(total) = [total |-> total, allocations |-> a, used |-> 0, peak_used |-> 0]
  BY DEF a, NewLedger
<1>4. a \in [Names -> 0..MaxU64]
  BY MaxU64Assumption DEF a
<1>5. QED
  BY <1>2, <1>3, <1>4, MaxU64Assumption DEF LedgerOK, Ledgers

(* The parts of a ledger that adds up, as the other lemmas use them.       *)
LEMMA LedgerParts ==
    ASSUME NEW b, LedgerOK(b)
    PROVE  /\ b.allocations \in ChargeMaps
           /\ b.allocations \in [Names -> 0..MaxU64]
           /\ b.total \in Nat /\ b.used \in Nat /\ b.peak_used \in Nat
           /\ b.total <= MaxU64 /\ b.peak_used <= MaxU64
           /\ \A n \in Names : b.allocations[n] \in 0..MaxU64
<1>1. b.allocations \in [Names -> 0..MaxU64]
  BY DEF LedgerOK, Ledgers
<1>2. b.allocations \in ChargeMaps
  BY <1>1, MaxU64Assumption DEF ChargeMaps
<1>3. QED
  BY <1>1, <1>2, MaxU64Assumption DEF LedgerOK, Ledgers

(* New charges that fit the budget, given with their sum, keep it adding up.*)
LEMMA RechargedOK ==
    ASSUME NEW b, LedgerOK(b), NEW c \in [Names -> 0..MaxU64], NEW used \in Nat,
           used <= b.total, IsFiniteSet(ChargedBytes(c)), used = Cardinality(ChargedBytes(c))
    PROVE  LedgerOK(Recharged(b, c, used))
<1> DEFINE peak == Larger(b.peak_used, used)
<1>1. /\ peak \in Nat /\ used <= peak /\ peak <= b.total
      /\ b.total \in 1..MaxU64
  BY LedgerParts DEF Larger, LedgerOK, Ledgers
<1>2. peak \in 0..MaxU64 /\ used \in 0..MaxU64
  <2> HIDE DEF peak
  <2>1. QED
    BY <1>1, MaxU64Assumption
<1>3. Recharged(b, c, used) =
        [total |-> b.total, allocations |-> c, used |-> used, peak_used |-> peak]
  BY DEF Recharged
<1> HIDE DEF peak
<1>4. QED
  BY <1>1, <1>2, <1>3 DEF LedgerOK, Ledgers

(* A granted charge keeps the ledger adding up and inside the budget.      *)
LEMMA AllocatedOK ==
    ASSUME NEW b, LedgerOK(b), NEW n \in Names, NEW bytes \in 0..MaxU64,
           AllocateResult(b, n, bytes) = "Ok"
    PROVE  LedgerOK(Allocated(b, n, bytes))
<1> DEFINE a == b.allocations
           c == [a EXCEPT ![n] = bytes]
           used == b.used + bytes
<1>1. bytes \in Nat /\ a[n] = 0 /\ used <= b.total
  BY LedgerParts, MaxU64Assumption
     DEF AllocateResult, Charged, CanAllocate, Available
<1>2. /\ IsFiniteSet(ChargedBytes(c))
      /\ Cardinality(ChargedBytes(c)) = Cardinality(ChargedBytes(a)) + bytes
  BY <1>1, LedgerParts, ChargeOne DEF LedgerOK
<1>3. c \in [Names -> 0..MaxU64]
  BY LedgerParts
<1>4. used = Cardinality(ChargedBytes(c)) /\ used \in Nat
  BY <1>1, <1>2, LedgerParts DEF LedgerOK
<1>5. QED
  BY <1>1, <1>2, <1>3, <1>4, RechargedOK DEF Allocated

(* A release keeps the ledger adding up.                                   *)
LEMMA ReleasedOK ==
    ASSUME NEW b, LedgerOK(b), NEW n \in Names
    PROVE  /\ LedgerOK(Released(b, n))
           /\ b.allocations[n] <= b.used
<1> DEFINE a == b.allocations
           c == [a EXCEPT ![n] = 0]
           used == b.used - a[n]
<1>1. /\ IsFiniteSet(ChargedBytes(c))
      /\ Cardinality(ChargedBytes(c)) = Cardinality(ChargedBytes(a)) - a[n]
      /\ Cardinality(ChargedBytes(c)) \in Nat
  BY LedgerParts, DischargeOne DEF LedgerOK
<1>2. c \in [Names -> 0..MaxU64]
  BY LedgerParts, MaxU64Assumption
<1>3. Released(b, n) = [total |-> b.total, allocations |-> c,
                        used |-> used, peak_used |-> b.peak_used]
  BY DEF Released
<1> HIDE DEF c
<1>4. used \in Nat /\ used <= b.used
  BY <1>1, LedgerParts DEF LedgerOK
<1>5. a[n] <= b.used
  BY <1>4, LedgerParts
<1>6. used = Cardinality(ChargedBytes(c))
  BY <1>1 DEF LedgerOK
<1>7. used \in 0..MaxU64 /\ used <= b.peak_used
  <2>1. b.used <= b.peak_used /\ b.used \in Nat /\ b.peak_used \in Nat /\ b.peak_used <= MaxU64
    BY LedgerParts DEF LedgerOK
  <2> HIDE DEF used
  <2>2. QED
    BY <1>4, <2>1, MaxU64Assumption
<1>8. b.total \in 1..MaxU64 /\ b.peak_used \in 0..MaxU64 /\ b.peak_used <= b.total
  BY DEF LedgerOK, Ledgers
<1> HIDE DEF used
<1>9. QED
  BY <1>1, <1>2, <1>3, <1>5, <1>6, <1>7, <1>8 DEF LedgerOK, Ledgers

(* A granted resize keeps the ledger adding up and inside the budget.      *)
LEMMA ResizedOK ==
    ASSUME NEW b, LedgerOK(b), NEW n \in Names, NEW bytes \in 0..MaxU64,
           ResizeResult(b, n, bytes) = "Ok"
    PROVE  LedgerOK(Resized(b, n, bytes))
<1> DEFINE a == b.allocations
           c == [a EXCEPT ![n] = bytes]
           used == b.used + bytes - a[n]
<1>1. bytes \in Nat /\ a[n] \in Nat /\ a[n] <= b.used
  BY LedgerParts, ReleasedOK, MaxU64Assumption
<1>2. used \in Nat /\ used <= b.total
  <2>1. b.used <= b.total
    BY LedgerParts DEF LedgerOK
  <2>2. CASE bytes > a[n]
    BY <1>1, <2>1, <2>2, LedgerParts DEF ResizeResult, CanAllocate, Available
  <2>3. CASE bytes <= a[n]
    BY <1>1, <2>1, <2>3, LedgerParts
  <2>4. QED
    BY <1>1, <2>2, <2>3
<1>3. /\ IsFiniteSet(ChargedBytes(c))
      /\ Cardinality(ChargedBytes(c)) = Cardinality(ChargedBytes(a)) - a[n] + bytes
  BY <1>1, LedgerParts, RechargeOne DEF LedgerOK
<1>4. c \in [Names -> 0..MaxU64]
  BY LedgerParts
<1>5. used = Cardinality(ChargedBytes(c))
  BY <1>1, <1>3, LedgerParts DEF LedgerOK
<1>6. QED
  BY <1>2, <1>3, <1>4, <1>5, RechargedOK DEF Resized

(* Two different names never hold more than the ledger says is used.       *)
LEMMA TwoCharges ==
    ASSUME NEW b, LedgerOK(b), NEW m \in Names, NEW n \in Names, m # n
    PROVE  b.allocations[m] + b.allocations[n] <= b.used
<1>1. LedgerOK(Released(b, m))
  BY ReleasedOK
<1>2. Released(b, m).allocations[n] <= Released(b, m).used
  BY <1>1, ReleasedOK
<1>3. /\ Released(b, m).allocations[n] = b.allocations[n]
      /\ Released(b, m).used = b.used - b.allocations[m]
  BY LedgerParts DEF Released, LedgerOK, Ledgers
<1>4. QED
  BY <1>2, <1>3, LedgerParts

(* A granted commit of a resize keeps the ledger adding up.                *)
LEMMA ResizeCommittedOK ==
    ASSUME NEW b, LedgerOK(b), NEW t \in Names, NEW r \in Names,
           NEW bytes \in 0..MaxU64, CommitResizeResult(b, t, r, bytes) = "Ok"
    PROVE  LedgerOK(ResizeCommitted(b, t, r, bytes))
<1> DEFINE a == b.allocations
           d == [a EXCEPT ![t] = bytes]
           c == [d EXCEPT ![r] = 0]
           used == b.used - a[t] - a[r] + bytes
<1>1. t # r /\ bytes \in Nat /\ used <= b.total
  BY LedgerParts, MaxU64Assumption DEF CommitResizeResult
<1>2. a[t] \in Nat /\ a[r] \in Nat /\ a[t] + a[r] <= b.used
  BY <1>1, LedgerParts, TwoCharges, MaxU64Assumption
<1>3. used \in Nat
  BY <1>1, <1>2, LedgerParts
<1>4. /\ d \in ChargeMaps /\ IsFiniteSet(ChargedBytes(d))
      /\ Cardinality(ChargedBytes(d)) = Cardinality(ChargedBytes(a)) - a[t] + bytes
  BY <1>1, LedgerParts, RechargeOne DEF LedgerOK
<1>5. d[r] = a[r]
  BY <1>1, LedgerParts
<1>6. /\ IsFiniteSet(ChargedBytes(c))
      /\ Cardinality(ChargedBytes(c)) = Cardinality(ChargedBytes(d)) - d[r]
  <2> HIDE DEF d
  <2>1. QED
    BY <1>4, DischargeOne
<1>7. c \in [Names -> 0..MaxU64]
  BY LedgerParts, MaxU64Assumption
<1>8. used = Cardinality(ChargedBytes(c))
  <2>1. b.used = Cardinality(ChargedBytes(a)) /\ b.used \in Nat
    BY LedgerParts DEF LedgerOK
  <2> HIDE DEF c, d
  <2>2. QED
    BY <1>1, <1>2, <1>4, <1>5, <1>6, <2>1
<1>9. ResizeCommitted(b, t, r, bytes) = Recharged(b, c, used)
  BY DEF ResizeCommitted
<1> HIDE DEF c, d, used
<1>10. QED
  BY <1>1, <1>3, <1>6, <1>7, <1>8, <1>9, RechargedOK

(* A granted prefix rename keeps the ledger adding up.                     *)
LEMMA PrefixRenamedOK ==
    ASSUME NEW b, LedgerOK(b), NEW p \in NamePrefixes, NEW q \in NamePrefixes,
           RenamePrefixResult(b, p, q) = "Ok"
    PROVE  LedgerOK(PrefixRenamed(b, p, q))
<1> DEFINE a == b.allocations
           c == [n \in Names |-> IF n[1] = q /\ a[<<p, n[2]>>] # 0
                                 THEN a[<<p, n[2]>>]
                                 ELSE IF n[1] = p THEN 0 ELSE a[n]]
<1>1. \A n \in Names : n[1] = p /\ a[n] # 0 => a[<<q, n[2]>>] = 0
  BY DEF RenamePrefixResult, ChargedUnder, Charged
<1>2. p # q
  <2>1. PICK n \in Names : n[1] = p /\ a[n] # 0
    BY DEF RenamePrefixResult, ChargedUnder, Charged
  <2>2. n = <<p, n[2]>>
    BY <2>1 DEF Names
  <2>3. QED
    BY <1>1, <2>1, <2>2
<1>3. /\ IsFiniteSet(ChargedBytes(c))
      /\ Cardinality(ChargedBytes(c)) = Cardinality(ChargedBytes(a))
  <2>1. a \in ChargeMaps /\ IsFiniteSet(ChargedBytes(a))
    BY LedgerParts DEF LedgerOK
  <2> HIDE DEF a
  <2>2. QED
    BY <1>1, <1>2, <2>1, RenameBytes
<1>4. c \in [Names -> 0..MaxU64]
  <2>1. \A n \in Names : <<p, n[2]>> \in Names
    BY DEF Names
  <2>2. QED
    BY <2>1, LedgerParts, MaxU64Assumption
<1>5. PrefixRenamed(b, p, q) = [b EXCEPT !.allocations = c]
  BY Zenon DEF PrefixRenamed, Charged
<1> HIDE DEF c
<1>6. [b EXCEPT !.allocations = c] =
        [total |-> b.total, allocations |-> c, used |-> b.used, peak_used |-> b.peak_used]
  BY DEF LedgerOK, Ledgers
<1>7. QED
  BY <1>3, <1>4, <1>5, <1>6, LedgerParts DEF LedgerOK, Ledgers
-----------------------------------------------------------------------------
(***************************************************************************)
(* Sums over sets: the sum of f over S is the number of elements of        *)
(* BytesOf(f, S), which for charges and all names is ChargedBytes.         *)
(***************************************************************************)
BytesOf(f, S) == UNION {{x} \X (1..f[x]) : x \in S}

(* Membership in a set of bytes, without the UNION.                        *)
LEMMA BytesMember ==
    ASSUME NEW S, NEW f, \A x \in S : f[x] \in Nat, NEW z
    PROVE  z \in BytesOf(f, S) <=> \E x \in S, k \in Nat : k \in 1..f[x] /\ z = <<x, k>>
BY DEF BytesOf

(* A sum depends only on the values it adds.                               *)
LEMMA BytesSame ==
    ASSUME NEW S, NEW f, NEW g, \A x \in S : f[x] = g[x]
    PROVE  BytesOf(f, S) = BytesOf(g, S)
BY DEF BytesOf

(* A sum of zeros.                                                         *)
LEMMA BytesNone ==
    ASSUME NEW S, NEW f, \A x \in S : f[x] = 0
    PROVE  /\ BytesOf(f, S) = {}
           /\ IsFiniteSet(BytesOf(f, S)) /\ Cardinality(BytesOf(f, S)) = 0
<1>1. BytesOf(f, S) = {}
  BY DEF BytesOf
<1>2. QED
  BY <1>1, FS_EmptySet

(* A sum of one value.                                                     *)
LEMMA BytesOne ==
    ASSUME NEW x, NEW f, f[x] \in Nat
    PROVE  IsFiniteSet(BytesOf(f, {x})) /\ Cardinality(BytesOf(f, {x})) = f[x]
<1>1. BytesOf(f, {x}) = {x} \X (1..f[x])
  BY DEF BytesOf
<1>2. IsFiniteSet(1..f[x]) /\ Cardinality(1..f[x]) = f[x]
  BY FS_Interval
<1>3. IsFiniteSet({x}) /\ Cardinality({x}) = 1
  BY FS_Singleton
<1>4. /\ IsFiniteSet({x} \X (1..f[x]))
      /\ Cardinality({x} \X (1..f[x])) = Cardinality({x}) * Cardinality(1..f[x])
  BY <1>2, <1>3, FS_Product
<1>5. Cardinality({x} \X (1..f[x])) = f[x]
  BY <1>2, <1>3, <1>4
<1>6. QED
  BY <1>1, <1>4, <1>5, Zenon

(* A sum over two parts of a set is the sum of the two sums.               *)
LEMMA BytesSplit ==
    ASSUME NEW S, NEW T, NEW f, \A x \in S : f[x] \in Nat, IsFiniteSet(BytesOf(f, S))
    PROVE  /\ IsFiniteSet(BytesOf(f, S \cap T)) /\ IsFiniteSet(BytesOf(f, S \ T))
           /\ Cardinality(BytesOf(f, S)) \in Nat
           /\ Cardinality(BytesOf(f, S \cap T)) \in Nat
           /\ Cardinality(BytesOf(f, S \ T)) \in Nat
           /\ Cardinality(BytesOf(f, S)) =
                Cardinality(BytesOf(f, S \cap T)) + Cardinality(BytesOf(f, S \ T))
<1> DEFINE in == BytesOf(f, S \cap T)
           out == BytesOf(f, S \ T)
           all == BytesOf(f, S)
<1>1. all = in \cup out
  <2>1. ASSUME NEW z \in all PROVE z \in in \cup out
    <3>1. PICK x \in S : z \in {x} \X (1..f[x])
      BY DEF BytesOf
    <3>2. QED
      BY <3>1 DEF BytesOf
  <2>2. ASSUME NEW z \in in \cup out PROVE z \in all
    BY DEF BytesOf
  <2>3. QED
    BY <2>1, <2>2
<1>2. in \cap out = {}
  <2>1. ASSUME NEW z \in in, z \in out PROVE FALSE
    <3>1. PICK x \in S \cap T : z \in {x} \X (1..f[x])
      BY DEF BytesOf
    <3>2. PICK y \in S \ T : z \in {y} \X (1..f[y])
      BY <2>1 DEF BytesOf
    <3>3. z[1] = x /\ z[1] = y
      BY <3>1, <3>2
    <3>4. QED
      BY <3>3
  <2>2. QED
    BY <2>1
<1> HIDE DEF in, out, all
<1>3. IsFiniteSet(all)
  BY DEF all
<1>4. IsFiniteSet(in) /\ IsFiniteSet(out)
  BY <1>1, <1>3, FS_Subset
<1>5. Cardinality(in \cap out) = 0
  BY <1>2, FS_EmptySet
<1>6. Cardinality(all) = Cardinality(in) + Cardinality(out) - Cardinality(in \cap out)
  BY <1>1, <1>4, FS_Union
<1>7. Cardinality(all) \in Nat /\ Cardinality(in) \in Nat /\ Cardinality(out) \in Nat
  BY <1>3, <1>4, FS_CardinalityType
<1>8. Cardinality(all) = Cardinality(in) + Cardinality(out)
  BY <1>5, <1>6, <1>7
<1>9. QED
  BY <1>4, <1>7, <1>8 DEF in, out, all

(* Two parts that do not meet, put together.                               *)
LEMMA BytesJoin ==
    ASSUME NEW S, NEW T, NEW f, S \cap T = {}, \A x \in S \cup T : f[x] \in Nat,
           IsFiniteSet(BytesOf(f, S)), IsFiniteSet(BytesOf(f, T))
    PROVE  /\ IsFiniteSet(BytesOf(f, S \cup T))
           /\ Cardinality(BytesOf(f, S \cup T)) =
                Cardinality(BytesOf(f, S)) + Cardinality(BytesOf(f, T))
<1>1. BytesOf(f, S \cup T) = BytesOf(f, S) \cup BytesOf(f, T)
  BY DEF BytesOf
<1>2. IsFiniteSet(BytesOf(f, S \cup T))
  BY <1>1, FS_Union
<1>3. (S \cup T) \cap S = S /\ (S \cup T) \ S = T
  OBVIOUS
<1> DEFINE U == S \cup T
<1>4. \A x \in U : f[x] \in Nat
  OBVIOUS
<1> HIDE DEF U
<1>5. Cardinality(BytesOf(f, U)) =
        Cardinality(BytesOf(f, U \cap S)) + Cardinality(BytesOf(f, U \ S))
  BY <1>2, <1>4, BytesSplit DEF U
<1>6. QED
  BY <1>2, <1>3, <1>5 DEF U

(* No value exceeds the sum it is part of, and a sum that is 0 has no      *)
(* positive part.                                                          *)
LEMMA BytesBound ==
    ASSUME NEW S, NEW f, \A x \in S : f[x] \in Nat, IsFiniteSet(BytesOf(f, S)), NEW x \in S
    PROVE  f[x] <= Cardinality(BytesOf(f, S))
<1>1. S \cap {x} = {x}
  OBVIOUS
<1>2. Cardinality(BytesOf(f, {x})) = f[x]
  BY BytesOne
<1>3. /\ Cardinality(BytesOf(f, S \ {x})) \in Nat
      /\ Cardinality(BytesOf(f, S)) =
           Cardinality(BytesOf(f, S \cap {x})) + Cardinality(BytesOf(f, S \ {x}))
  BY BytesSplit
<1>4. Cardinality(BytesOf(f, S)) = f[x] + Cardinality(BytesOf(f, S \ {x}))
  BY <1>1, <1>2, <1>3, Zenon
<1>5. QED
  BY <1>3, <1>4

(* A sum is unchanged when its index set is renamed one to one.            *)
LEMMA BytesMoved ==
    ASSUME NEW S, NEW T, NEW f, NEW g, NEW m \in [S -> T],
           \A x \in S : f[x] \in Nat /\ g[m[x]] = f[x],
           \A y \in T : \E x \in S : m[x] = y,
           \A x, y \in S : m[x] = m[y] => x = y,
           IsFiniteSet(BytesOf(f, S))
    PROVE  /\ IsFiniteSet(BytesOf(g, T))
           /\ Cardinality(BytesOf(g, T)) = Cardinality(BytesOf(f, S))
<1> DEFINE h == [z \in BytesOf(f, S) |-> <<m[z[1]], z[2]>>]
<1>1. \A y \in T : g[y] \in Nat
  OBVIOUS
<1>2. ASSUME NEW z \in BytesOf(f, S)
      PROVE  z[1] \in S /\ z[2] \in 1..f[z[1]] /\ z = <<z[1], z[2]>>
  <2>1. PICK x \in S, k \in Nat : k \in 1..f[x] /\ z = <<x, k>>
    BY BytesMember
  <2>2. QED
    BY <2>1
<1>3. ASSUME NEW z \in BytesOf(f, S)
      PROVE  h[z] \in BytesOf(g, T)
  <2>1. m[z[1]] \in T /\ z[2] \in 1..g[m[z[1]]] /\ z[2] \in Nat
    BY <1>2
  <2>2. <<m[z[1]], z[2]>> \in BytesOf(g, T)
    BY <1>1, <2>1, BytesMember
  <2>3. QED
    BY <2>2
<1>4. ASSUME NEW y \in BytesOf(g, T)
      PROVE  \E z \in BytesOf(f, S) : h[z] = y
  <2>1. PICK t \in T, k \in Nat : k \in 1..g[t] /\ y = <<t, k>>
    BY <1>1, BytesMember
  <2>2. PICK x \in S : m[x] = t
    OBVIOUS
  <2>3. <<x, k>> \in BytesOf(f, S)
    <3>1. k \in 1..f[x]
      BY <2>1, <2>2
    <3>2. QED
      BY <3>1, BytesMember
  <2>4. QED
    BY <2>1, <2>2, <2>3
<1>5. ASSUME NEW y \in BytesOf(f, S), NEW z \in BytesOf(f, S), h[y] = h[z]
      PROVE  y = z
  <2>1. m[y[1]] = m[z[1]] /\ y[2] = z[2]
    BY <1>5
  <2>2. QED
    BY <1>2, <2>1
<1>6. h \in Bijection(BytesOf(f, S), BytesOf(g, T))
  <2>1. h \in [BytesOf(f, S) -> BytesOf(g, T)]
    BY <1>3
  <2> HIDE DEF h
  <2>2. QED
    BY <1>4, <1>5, <2>1 DEF Bijection, Injection, Surjection, IsInjective
<1>7. ExistsBijection(BytesOf(f, S), BytesOf(g, T))
  BY <1>6 DEF ExistsBijection
<1>8. QED
  BY <1>7, FS_Bijection

(* Releasing a set of names takes exactly their charges from the ledger.   *)
LEMMA DischargeSet ==
    ASSUME NEW b, LedgerOK(b), NEW S \in SUBSET Names, NEW c,
           c = [total |-> b.total,
                allocations |-> [n \in Names |-> IF n \in S THEN 0 ELSE b.allocations[n]],
                used |-> b.used - Cardinality(BytesOf(b.allocations, S)),
                peak_used |-> b.peak_used]
    PROVE  LedgerOK(c) /\ c.used <= b.used
<1> DEFINE a == b.allocations
           d == [n \in Names |-> IF n \in S THEN 0 ELSE a[n]]
           gone == Cardinality(BytesOf(a, S))
           left == Cardinality(BytesOf(a, Names \ S))
<1>1. a \in ChargeMaps /\ a \in [Names -> 0..MaxU64] /\ d \in [Names -> 0..MaxU64]
  BY LedgerParts, MaxU64Assumption
<1>2. BytesOf(a, Names) = ChargedBytes(a)
  BY DEF BytesOf, ChargedBytes
<1>3. \A n \in Names : a[n] \in Nat
  BY <1>1 DEF ChargeMaps
<1>4. IsFiniteSet(BytesOf(a, Names)) /\ Cardinality(BytesOf(a, Names)) = b.used
  BY <1>2 DEF LedgerOK
<1>5. Names \cap S = S
  OBVIOUS
<1>6. /\ IsFiniteSet(BytesOf(a, Names \ S)) /\ gone \in Nat /\ left \in Nat
      /\ b.used = gone + left
  BY <1>3, <1>4, <1>5, BytesSplit
<1>7. ChargedBytes(d) = BytesOf(a, Names \ S)
  BY DEF ChargedBytes, BytesOf
<1> HIDE DEF gone, left, d
<1>8. c = [total |-> b.total, allocations |-> d, used |-> b.used - gone, peak_used |-> b.peak_used]
  BY DEF gone, d
<1>9. b.used - gone = left /\ left <= b.used
  BY <1>6
<1>10. /\ b.used <= b.peak_used /\ b.used \in Nat /\ b.peak_used \in Nat /\ b.peak_used <= MaxU64
       /\ b.peak_used <= b.total /\ b.total \in 1..MaxU64 /\ b.peak_used \in 0..MaxU64
  BY LedgerParts DEF LedgerOK, Ledgers
<1>11. left \in 0..MaxU64 /\ left <= b.peak_used
  BY <1>6, <1>9, <1>10, MaxU64Assumption
<1>12. IsFiniteSet(ChargedBytes(d)) /\ Cardinality(ChargedBytes(d)) = left
  BY <1>6, <1>7 DEF left
<1>13. QED
  BY <1>1, <1>8, <1>9, <1>10, <1>11, <1>12 DEF LedgerOK, Ledgers
-----------------------------------------------------------------------------
(***************************************************************************)
(* Recency lists: a sequence of members of S without repetitions, whose    *)
(* members are `held`.                                                     *)
(***************************************************************************)
LruExact(S, lru, held) ==
    /\ lru \in Seq(S)
    /\ \A j, k \in 1..Len(lru) : lru[j] = lru[k] => j = k
    /\ {lru[j] : j \in 1..Len(lru)} = held

(* Pushing a key that is not in the list.                                  *)
LEMMA PushFront ==
    ASSUME NEW S, NEW lru, NEW held, LruExact(S, lru, held), NEW i \in S, i \notin held
    PROVE  LruExact(S, <<i>> \o lru, held \cup {i})
<1> DEFINE s == <<i>> \o lru
<1>1. /\ lru \in Seq(S) /\ Len(lru) \in Nat
      /\ \A j, k \in 1..Len(lru) : lru[j] = lru[k] => j = k
      /\ {lru[j] : j \in 1..Len(lru)} = held
  BY DEF LruExact
<1>2. s \in Seq(S) /\ Len(s) = Len(lru) + 1
  BY <1>1
<1>3. s[1] = i /\ \A j \in 2..Len(s) : j - 1 \in 1..Len(lru) /\ s[j] = lru[j - 1]
  BY <1>1
<1>4. \A j \in 1..Len(lru) : j + 1 \in 2..Len(s) /\ s[j + 1] = lru[j]
  BY <1>1
<1> HIDE DEF s
<1>5. \A j \in 1..Len(lru) : lru[j] # i
  BY <1>1
<1>6. \A j \in 1..Len(s) : j = 1 \/ j \in 2..Len(s)
  BY <1>1, <1>2
<1>7. ASSUME NEW j \in 1..Len(s), NEW k \in 1..Len(s), s[j] = s[k] PROVE j = k
  BY <1>1, <1>2, <1>3, <1>5, <1>6, <1>7
<1>8. {s[j] : j \in 1..Len(s)} = held \cup {i}
  <2>1. ASSUME NEW j \in 1..Len(s) PROVE s[j] \in held \cup {i}
    BY <1>1, <1>3, <1>6
  <2>2. ASSUME NEW x \in held PROVE \E j \in 1..Len(s) : s[j] = x
    <3>1. PICK j \in 1..Len(lru) : lru[j] = x
      BY <1>1
    <3>2. j + 1 \in 1..Len(s) /\ s[j + 1] = x
      BY <1>2, <1>4, <3>1
    <3>3. QED
      BY <3>2
  <2>3. 1 \in 1..Len(s)
    BY <1>1, <1>2
  <2>4. QED
    BY <1>3, <2>1, <2>2, <2>3
<1>9. QED
  BY <1>2, <1>7, <1>8 DEF LruExact, s

(* The first k elements of a sequence.                                     *)
LEMMA FirstElements ==
    ASSUME NEW S, NEW s \in Seq(S), NEW k \in 0..Len(s)
    PROVE  /\ SubSeq(s, 1, k) \in Seq(S) /\ Len(SubSeq(s, 1, k)) = k
           /\ \A j \in 1..k : SubSeq(s, 1, k)[j] = s[j]
<1>1. SubSeq(s, 1, k) \in Seq(S)
  OBVIOUS
<1>2. Len(SubSeq(s, 1, k)) = k
  OBVIOUS
<1>3. \A j \in 1..k : SubSeq(s, 1, k)[j] = s[j]
  OBVIOUS
<1>4. QED
  BY <1>1, <1>2, <1>3

(* Popping the last key of the list.                                       *)
LEMMA PopBack ==
    ASSUME NEW S, NEW lru, NEW held, LruExact(S, lru, held), lru # <<>>
    PROVE  /\ lru[Len(lru)] \in held /\ lru[Len(lru)] \in S
           /\ LruExact(S, Newest(lru, 1), held \ {lru[Len(lru)]})
<1> DEFINE n == Len(lru)
           s == SubSeq(lru, 1, n - 1)
<1>1. /\ lru \in Seq(S) /\ n \in Nat /\ n >= 1
      /\ \A j, k \in 1..n : lru[j] = lru[k] => j = k
      /\ {lru[j] : j \in 1..n} = held
  <2>1. lru \in Seq(S) /\ n \in Nat /\ n >= 1
    BY DEF LruExact
  <2>2. QED
    BY <2>1 DEF LruExact
<1>2. s \in Seq(S) /\ Len(s) = n - 1 /\ \A j \in 1..(n - 1) : s[j] = lru[j]
  <2>1. lru \in Seq(S) /\ n - 1 \in 0..Len(lru)
    BY <1>1
  <2>2. QED
    BY <2>1, FirstElements
<1>3. n \in 1..n /\ \A j \in 1..(n - 1) : j \in 1..n /\ j # n
  BY <1>1
<1>4. \A j \in 1..n : lru[j] \in S
  BY <1>1
<1>5. \A j \in 1..n : j # n => j \in 1..(n - 1)
  BY <1>1
<1> HIDE DEF n, s
<1>6. {s[j] : j \in 1..Len(s)} = held \ {lru[n]}
  BY <1>1, <1>2, <1>3, <1>5
<1>7. \A j, k \in 1..Len(s) : s[j] = s[k] => j = k
  BY <1>1, <1>2, <1>3
<1>8. QED
  BY <1>1, <1>2, <1>3, <1>4, <1>6, <1>7 DEF LruExact, Newest, n, s

(* Taking a key out of the middle of the list.                             *)
LEMMA TakeOut ==
    ASSUME NEW S, NEW lru, NEW held, LruExact(S, lru, held), NEW i \in held
    PROVE  LruExact(S, Without(lru, i), held \ {i})
<1> DEFINE n == Len(lru)
           places == {k \in 1..n : lru[k] = i}
           at == CHOOSE k \in places : TRUE
           s == SubSeq(lru, 1, at - 1) \o SubSeq(lru, at + 1, n)
<1>1. /\ lru \in Seq(S) /\ n \in Nat
      /\ \A j, k \in 1..n : lru[j] = lru[k] => j = k
      /\ {lru[j] : j \in 1..n} = held
  BY DEF LruExact
<1>2. places # {} /\ at \in places
  BY <1>1
<1>3. Without(lru, i) = s
  BY <1>2 DEF Without
<1>4. at \in 1..n /\ lru[at] = i
  BY <1>2
<1> HIDE DEF at
<1>5. /\ s \in Seq(S) /\ Len(s) = n - 1
      /\ \A j \in 1..(n - 1) : s[j] = IF j < at THEN lru[j] ELSE lru[j + 1]
  <2>1. /\ SubSeq(lru, 1, at - 1) \in Seq(S) /\ Len(SubSeq(lru, 1, at - 1)) = at - 1
        /\ \A j \in 1..(at - 1) : SubSeq(lru, 1, at - 1)[j] = lru[j]
    BY <1>1, <1>4
  <2>2. /\ SubSeq(lru, at + 1, n) \in Seq(S) /\ Len(SubSeq(lru, at + 1, n)) = n - at
        /\ \A j \in 1..(n - at) : SubSeq(lru, at + 1, n)[j] = lru[at + j]
    BY <1>1, <1>4
  <2> DEFINE u == SubSeq(lru, 1, at - 1)
             v == SubSeq(lru, at + 1, n)
  <2> HIDE DEF u, v
  <2>3. u \in Seq(S) /\ v \in Seq(S) /\ Len(u) = at - 1 /\ Len(v) = n - at
    BY <2>1, <2>2 DEF u, v
  <2>4. /\ u \o v \in Seq(S) /\ Len(u \o v) = Len(u) + Len(v)
        /\ \A j \in 1..(Len(u) + Len(v)) : (u \o v)[j] = IF j <= Len(u) THEN u[j] ELSE v[j - Len(u)]
    BY <2>3
  <2>5. s = u \o v
    BY DEF u, v
  <2>6. ASSUME NEW j \in 1..(n - 1) PROVE s[j] = IF j < at THEN lru[j] ELSE lru[j + 1]
    <3>1. CASE j < at
      <4>1. (u \o v)[j] = u[j] /\ j \in 1..(at - 1)
        BY <1>1, <1>4, <2>3, <2>4, <3>1
      <4>2. QED
        BY <2>1, <2>5, <3>1, <4>1 DEF u
    <3>2. CASE ~(j < at)
      <4>1. (u \o v)[j] = v[j - (at - 1)] /\ j - (at - 1) \in 1..(n - at)
        BY <1>1, <1>4, <2>3, <2>4, <3>2
      <4>2. v[j - (at - 1)] = lru[at + (j - (at - 1))]
        BY <2>2, <4>1 DEF v
      <4>3. at + (j - (at - 1)) = j + 1
        BY <1>1, <1>4
      <4>4. QED
        BY <2>5, <3>2, <4>1, <4>2, <4>3
    <3>3. QED
      BY <3>1, <3>2
  <2>7. Len(u) + Len(v) = n - 1
    BY <1>1, <1>4, <2>3
  <2>8. s \in Seq(S) /\ Len(s) = n - 1
    <3> HIDE DEF s
    <3>1. QED
      BY <2>4, <2>5, <2>7
  <2>9. QED
    BY <2>6, <2>8
<1> HIDE DEF s, n
<1>6. ASSUME NEW j \in 1..(n - 1), NEW k \in 1..(n - 1), s[j] = s[k] PROVE j = k
  <2> DEFINE p(x) == IF x < at THEN x ELSE x + 1
  <2>1. p(j) \in 1..n /\ p(k) \in 1..n /\ s[j] = lru[p(j)] /\ s[k] = lru[p(k)]
    BY <1>1, <1>4, <1>5
  <2>2. p(j) = p(k)
    <3> HIDE DEF p
    <3>1. QED
      BY <1>1, <1>6, <2>1
  <2>3. QED
    BY <1>1, <1>4, <2>2
<1>7. {s[j] : j \in 1..(n - 1)} = held \ {i}
  <2>1. ASSUME NEW j \in 1..(n - 1) PROVE s[j] \in held /\ s[j] # i
    <3>1. CASE j < at
      <4>1. s[j] = lru[j] /\ j \in 1..n /\ j # at
        BY <1>1, <1>4, <1>5, <3>1
      <4>2. QED
        BY <1>1, <1>4, <4>1
    <3>2. CASE ~(j < at)
      <4>1. s[j] = lru[j + 1] /\ j + 1 \in 1..n /\ j + 1 # at
        BY <1>1, <1>4, <1>5, <3>2
      <4>2. QED
        BY <1>1, <1>4, <4>1
    <3>3. QED
      BY <3>1, <3>2
  <2>2. ASSUME NEW x \in held \ {i} PROVE \E j \in 1..(n - 1) : s[j] = x
    <3>1. PICK k \in 1..n : lru[k] = x
      BY <1>1
    <3>2. k # at
      BY <1>4, <3>1
    <3>3. CASE k < at
      <4>1. k \in 1..(n - 1) /\ s[k] = x
        BY <1>1, <1>4, <1>5, <3>1, <3>3
      <4>2. QED
        BY <4>1
    <3>4. CASE k > at
      <4>1. k - 1 \in 1..(n - 1) /\ ~(k - 1 < at) /\ (k - 1) + 1 = k
        BY <1>1, <1>4, <3>4
      <4>2. s[k - 1] = x
        BY <1>5, <3>1, <4>1
      <4>3. QED
        BY <4>1, <4>2
    <3>5. QED
      BY <1>1, <1>4, <3>2, <3>3, <3>4
  <2>3. QED
    BY <2>1, <2>2
<1>8. QED
  BY <1>3, <1>5, <1>6, <1>7 DEF LruExact

(* Popping the last n keys, one after the other.                           *)
LEMMA PopMany ==
    ASSUME NEW S, NEW lru, NEW held, LruExact(S, lru, held), NEW n \in 0..Len(lru)
    PROVE  /\ LruExact(S, Newest(lru, n), held \ Oldest(lru, n))
           /\ Oldest(lru, n) \subseteq held
<1> DEFINE m == Len(lru) - n
           s == SubSeq(lru, 1, m)
<1>1. /\ lru \in Seq(S)
      /\ \A j, k \in 1..Len(lru) : lru[j] = lru[k] => j = k
      /\ {lru[j] : j \in 1..Len(lru)} = held
  BY DEF LruExact
<1>2. Len(lru) \in Nat /\ n \in Nat /\ n <= Len(lru)
  BY <1>1
<1>3. m \in 0..Len(lru)
  BY <1>2
<1>4. s \in Seq(S) /\ Len(s) = m /\ \A j \in 1..m : s[j] = lru[j]
  BY <1>1, <1>3, FirstElements
<1>5. \A j \in 1..Len(lru) : j \in 1..m <=> j \notin (m + 1)..Len(lru)
  <2> HIDE DEF m
  <2>1. QED
    BY <1>2, <1>3
<1>6. (\A j \in 1..m : j \in 1..Len(lru)) /\ \A j \in (m + 1)..Len(lru) : j \in 1..Len(lru)
  <2> HIDE DEF m
  <2>1. QED
    BY <1>2, <1>3
<1>7. Oldest(lru, n) = {lru[j] : j \in (m + 1)..Len(lru)}
  BY DEF Oldest
<1> HIDE DEF m, s
<1>8. Oldest(lru, n) \subseteq held
  BY <1>1, <1>6, <1>7
<1>9. {s[j] : j \in 1..m} = held \ Oldest(lru, n)
  <2>1. ASSUME NEW j \in 1..m PROVE s[j] \in held \ Oldest(lru, n)
    BY <1>1, <1>4, <1>5, <1>6, <1>7
  <2>2. ASSUME NEW x \in held \ Oldest(lru, n) PROVE \E j \in 1..m : s[j] = x
    <3>1. PICK j \in 1..Len(lru) : lru[j] = x
      BY <1>1
    <3>2. j \in 1..m
      BY <1>5, <1>7, <3>1
    <3>3. QED
      BY <1>4, <3>1, <3>2
  <2>3. QED
    BY <2>1, <2>2
<1>10. \A j, k \in 1..m : s[j] = s[k] => j = k
  BY <1>1, <1>4, <1>6
<1>11. LruExact(S, s, held \ Oldest(lru, n))
  BY <1>4, <1>9, <1>10 DEF LruExact
<1>12. QED
  BY <1>8, <1>11 DEF Newest, s, m

(* A list without repetitions is as long as the set of its keys is large.  *)
LEMMA ListLength ==
    ASSUME NEW S, NEW lru, NEW held, LruExact(S, lru, held)
    PROVE  IsFiniteSet(held) /\ Cardinality(held) = Len(lru)
<1> DEFINE n == Len(lru)
           f == [j \in 1..n |-> lru[j]]
<1>1. /\ n \in Nat
      /\ \A j, k \in 1..n : lru[j] = lru[k] => j = k
      /\ {lru[j] : j \in 1..n} = held
  <2>1. lru \in Seq(S)
    BY DEF LruExact
  <2>2. n \in Nat
    BY <2>1
  <2>3. QED
    BY <2>2 DEF LruExact
<1> HIDE DEF n
<1>2. IsFiniteSet(1..n) /\ Cardinality(1..n) = n
  BY <1>1, FS_Interval
<1>3. f \in [1..n -> held] /\ \A j \in 1..n : f[j] = lru[j]
  BY <1>1
<1> HIDE DEF f
<1>4. f \in Bijection(1..n, held)
  <2>1. \A j, k \in 1..n : f[j] = f[k] => j = k
    BY <1>1, <1>3
  <2>2. \A x \in held : \E j \in 1..n : f[j] = x
    BY <1>1, <1>3
  <2>3. QED
    BY <1>3, <2>1, <2>2 DEF Bijection, Injection, Surjection, IsInjective
<1>5. ExistsBijection(1..n, held)
  BY <1>4 DEF ExistsBijection
<1>6. IsFiniteSet(held) /\ Cardinality(held) = Cardinality(1..n)
  BY <1>2, <1>5, FS_Bijection
<1>7. QED
  BY <1>2, <1>6 DEF n

(* Taking out a key that is not in the list.                               *)
LEMMA TakeOutAbsent ==
    ASSUME NEW S, NEW lru, NEW held, LruExact(S, lru, held), NEW i, i \notin held
    PROVE  Without(lru, i) = lru
<1>1. {k \in 1..Len(lru) : lru[k] = i} = {}
  BY DEF LruExact
<1>2. QED
  BY <1>1 DEF Without

(* Every set of numbers has a least one: the initial segments of the       *)
(* numbers, strictly included in each other, are well founded.             *)
LEMMA LeastNumber ==
    ASSUME NEW T, T \subseteq Nat, T # {}
    PROVE  \E m \in T : \A k \in T : m <= k
<1> DEFINE R == StrictSubsetOrdering(Nat)
           initials == {1..k : k \in T}
<1>1. IsWellFoundedOn(R, FiniteSubsetsOf(Nat))
  BY FS_StrictSubsetOrderingWellFounded
<1>2. \A k \in T : IsFiniteSet(1..k) /\ 1..k \subseteq Nat
  BY FS_Interval
<1>3. initials \subseteq FiniteSubsetsOf(Nat) /\ initials # {}
  BY <1>2 DEF FiniteSubsetsOf
<1>4. \A j, k \in T : j < k => <<1..j, 1..k>> \in R
  <2>1. ASSUME NEW j \in T, NEW k \in T, j < k PROVE 1..j \subseteq 1..k /\ 1..j # 1..k
    <3>1. k \in 1..k /\ k \notin 1..j
      BY <2>1
    <3>2. QED
      BY <2>1, <3>1
  <2>2. QED
    BY <1>2, <2>1 DEF StrictSubsetOrdering
<1> HIDE DEF R, initials
<1>5. PICK s \in initials : \A r \in initials : ~(<<r, s>> \in R)
  BY <1>1, <1>3, WFMin
<1>6. PICK m \in T : s = 1..m
  BY <1>5 DEF initials
<1>7. \A k \in T : 1..k \in initials
  BY DEF initials
<1>8. \A k \in T : ~(k < m)
  BY <1>4, <1>5, <1>6, <1>7
<1>9. QED
  BY <1>8

-----------------------------------------------------------------------------
(* Sums over finite sets.  An induction over a set takes a smallest set    *)
(* among the counterexamples.                                              *)
LEMMA SmallestSet ==
    ASSUME NEW S, IsFiniteSet(S), NEW W, W \subseteq SUBSET S, W # {}
    PROVE  \E T \in W : \A U \in W : U \subseteq T => U = T
<1> DEFINE R == StrictSubsetOrdering(S)
<1>1. IsWellFoundedOn(R, FiniteSubsetsOf(S))
  BY FS_StrictSubsetOrderingWellFounded
<1>2. \A T \in SUBSET S : IsFiniteSet(T)
  BY FS_Subset
<1>3. W \subseteq FiniteSubsetsOf(S)
  BY <1>2 DEF FiniteSubsetsOf
<1>4. \A T, U \in W : U \subseteq T /\ U # T => <<U, T>> \in R
  BY DEF StrictSubsetOrdering
<1> HIDE DEF R
<1>5. PICK T \in W : \A U \in W : ~(<<U, T>> \in R)
  BY <1>1, <1>3, WFMin
<1>6. \A U \in W : U \subseteq T => U = T
  BY <1>4, <1>5, Zenon
<1>7. QED
  BY <1>6, Zenon

\* A function that computes the sums of f over the subsets of S, as the fold
\* of the community modules does.
Sums(h, f, S) ==
    h = [s \in SUBSET S |-> IF s = {} THEN 0
                            ELSE LET x == CHOOSE x \in s : TRUE IN f[x] + h[s \ {x}]]

First(s) == CHOOSE x \in s : TRUE

\* A function of sums: at a set that is not empty, the value of the element
\* taken first and the sum of the others.
LEMMA SumsStep ==
    ASSUME NEW h, NEW f, NEW S, Sums(h, f, S), NEW s \in SUBSET S
    PROVE  h[s] = IF s = {} THEN 0 ELSE f[First(s)] + h[s \ {First(s)}]
BY DEF Sums, First

\* Two such functions, over S and over a part of S, agree on that part: a set
\* of smallest size where they differ loses an element and still differs.
LEMMA SumsAgree ==
    ASSUME NEW S, IsFiniteSet(S), NEW T \in SUBSET S, NEW f, NEW g, NEW h,
           Sums(h, f, S), Sums(g, f, T), NEW s \in SUBSET T
    PROVE  h[s] = g[s]
<1> DEFINE W == {t \in SUBSET T : h[t] # g[t]}
<1> SUFFICES ASSUME W # {} PROVE FALSE
  OBVIOUS
<1>1. IsFiniteSet(T)
  BY FS_Subset
<1>0. W \subseteq SUBSET T
  OBVIOUS
<1> HIDE DEF W
<1>2. PICK t \in W : \A u \in W : u \subseteq t => u = t
  BY <1>0, <1>1, SmallestSet
<1>3. h[t] # g[t] /\ t \in SUBSET T /\ t \in SUBSET S
  BY <1>2 DEF W
<1>4. t # {}
  BY <1>3, SumsStep
<1>5. First(t) \in t
  BY <1>4 DEF First
<1>6. h[t \ {First(t)}] = g[t \ {First(t)}]
  BY <1>2, <1>3, <1>5 DEF W
<1>7. h[t] = f[First(t)] + h[t \ {First(t)}] /\ g[t] = f[First(t)] + g[t \ {First(t)}]
  <2>1. h[t] = f[First(t)] + h[t \ {First(t)}]
    BY <1>3, <1>4, SumsStep, ZenonT(60)
  <2>2. g[t] = f[First(t)] + g[t \ {First(t)}]
    BY <1>3, <1>4, SumsStep, ZenonT(60)
  <2> QED BY <2>1, <2>2
<1>8. QED
  BY <1>3, <1>6, <1>7

\* There is such a function over every finite set.
LEMMA SumsExist ==
    ASSUME NEW S, IsFiniteSet(S), NEW f
    PROVE  \E h : Sums(h, f, S)
<1> DEFINE W == {t \in SUBSET S : ~\E h : Sums(h, f, t)}
<1> SUFFICES ASSUME W # {} PROVE FALSE
  OBVIOUS
<1>0. W \subseteq SUBSET S
  OBVIOUS
<1> HIDE DEF W
<1>1. PICK t \in W : \A u \in W : u \subseteq t => u = t
  BY <1>0, SmallestSet
<1> DEFINE G(u) == CHOOSE h : Sums(h, f, u)
           h == [s \in SUBSET t |-> IF s = {} THEN 0 ELSE f[First(s)] + G(s \ {First(s)})[s \ {First(s)}]]
<1>2. t \in SUBSET S /\ ~\E g : Sums(g, f, t)
  BY <1>1 DEF W
<1>3. IsFiniteSet(t)
  BY <1>2, FS_Subset
<1>4. ASSUME NEW u \in SUBSET t, u # t PROVE Sums(G(u), f, u)
  <2>1. u \notin W
    BY <1>1, <1>2, <1>4
  <2>2. \E g : Sums(g, f, u)
    BY <1>2, <1>4, <2>1 DEF W
  <2>3. QED
    BY <2>2
<1> HIDE DEF G
<1>5. ASSUME NEW s \in SUBSET t, s # {} PROVE h[s \ {First(s)}] = G(s \ {First(s)})[s \ {First(s)}]
  <2> DEFINE u == s \ {First(s)}
             v == u \ {First(u)}
  <2>1. First(s) \in s
    BY <1>5 DEF First
  <2>2. u \in SUBSET t /\ u # t /\ Sums(G(u), f, u)
    BY <1>4, <2>1
  <2>3. CASE u = {}
    <3>1. h[u] = 0
      BY <2>3
    <3>2. G(u)[u] = 0
      BY <2>2, <2>3, SumsStep
    <3>3. QED
      BY <3>1, <3>2
  <2>4. CASE u # {}
    <3>1. First(u) \in u
      BY <2>4 DEF First
    <3>2. v \in SUBSET u /\ v \in SUBSET t /\ v # t /\ Sums(G(v), f, v)
      BY <1>4, <2>2, <3>1
    <3>3. h[u] = f[First(u)] + G(v)[v]
      BY <2>2, <2>4
    <3>4. G(u)[u] = f[First(u)] + G(u)[v]
      BY <2>2, <2>4, SumsStep
    <3>5. IsFiniteSet(u)
      BY <1>3, <2>2, FS_Subset
    <3>6. G(u)[v] = G(v)[v]
      <4> HIDE DEF u, v
      <4> QED BY <2>2, <3>2, <3>5, SumsAgree
    <3>7. QED
      BY <3>3, <3>4, <3>6
  <2>5. QED
    BY <2>3, <2>4
<1>6. Sums(h, f, t)
  <2>1. h = [s \in SUBSET t |-> h[s]]
    OBVIOUS
  <2>2. \A s \in SUBSET t : h[s] = IF s = {} THEN 0 ELSE f[First(s)] + G(s \ {First(s)})[s \ {First(s)}]
    OBVIOUS
  <2> HIDE DEF h
  <2>3. \A s \in SUBSET t : h[s] = IF s = {} THEN 0 ELSE f[First(s)] + h[s \ {First(s)}]
    BY <1>5, <2>2
  <2>4. [s \in SUBSET t |-> h[s]] = [s \in SUBSET t |-> IF s = {} THEN 0 ELSE f[First(s)] + h[s \ {First(s)}]]
    BY <2>3
  <2>5. h = [s \in SUBSET t |-> IF s = {} THEN 0 ELSE f[First(s)] + h[s \ {First(s)}]]
    BY <2>1, <2>4
  <2>6. QED
    BY <2>5, Zenon DEF Sums, First
<1>7. QED
  BY <1>2, <1>6

\* The sum of f over S, the function that the folds of the models amount to.
SumOver(f, S) == SumFunctionOnSet(f, S)

\* The sum of the community modules is the value of such a function.
LEMMA SumIsFold ==
    ASSUME NEW f, NEW S PROVE SumOver(f, S) = (CHOOSE h : Sums(h, f, S))[S]
BY DEF SumOver, SumFunctionOnSet, FoldFunctionOnSet, MapThenFoldSet, Sums

\* A sum unfolds by one element, the one taken first.
LEMMA SumFirst ==
    ASSUME NEW S, IsFiniteSet(S), NEW f
    PROVE  SumOver(f, S) = IF S = {} THEN 0 ELSE f[First(S)] + SumOver(f, S \ {First(S)})
<1> DEFINE G(u) == CHOOSE h : Sums(h, f, u)
           T == S \ {First(S)}
<1>1. Sums(G(S), f, S)
  BY SumsExist
<1>2. IsFiniteSet(T) /\ T \in SUBSET S
  BY FS_Subset
<1>3. Sums(G(T), f, T)
  BY <1>2, SumsExist
<1>4. SumOver(f, S) = G(S)[S] /\ SumOver(f, T) = G(T)[T]
  BY SumIsFold
<1> HIDE DEF G, T
<1>5. G(S)[T] = G(T)[T]
  BY <1>1, <1>2, <1>3, SumsAgree
<1>6. S \in SUBSET S
  OBVIOUS
<1>7. G(S)[S] = IF S = {} THEN 0 ELSE f[First(S)] + G(S)[T]
  BY <1>1, <1>6, SumsStep DEF T
<1>8. QED
  BY <1>4, <1>5, <1>7 DEF T

\* The sum over no element is zero.
LEMMA SumEmpty == \A f : SumOver(f, {}) = 0
BY SumFirst, FS_EmptySet

\* A sum of integers is an integer.
LEMMA SumInt ==
    ASSUME NEW S, IsFiniteSet(S), NEW f, \A x \in S : f[x] \in Int
    PROVE  SumOver(f, S) \in Int
<1> DEFINE W == {T \in SUBSET S : SumOver(f, T) \notin Int}
<1> SUFFICES ASSUME W # {} PROVE FALSE
  OBVIOUS
<1>1. W \subseteq SUBSET S
  OBVIOUS
<1> HIDE DEF W
<1>2. PICK T \in W : \A U \in W : U \subseteq T => U = T
  BY <1>1, SmallestSet
<1>3. T \in SUBSET S /\ IsFiniteSet(T) /\ SumOver(f, T) \notin Int
  BY <1>2, FS_Subset DEF W
<1>4. T # {}
  BY <1>3, SumEmpty
<1>5. First(T) \in T
  BY <1>4 DEF First
<1>6. T \ {First(T)} \notin W
  BY <1>2, <1>5
<1>7. SumOver(f, T \ {First(T)}) \in Int
  BY <1>3, <1>6 DEF W
<1>8. SumOver(f, T) = f[First(T)] + SumOver(f, T \ {First(T)}) /\ f[First(T)] \in Int
  BY <1>3, <1>4, <1>5, SumFirst
<1>9. QED
  BY <1>3, <1>7, <1>8

\* A sum does not depend on the order: any element can be taken first.
LEMMA SumRemove ==
    ASSUME NEW S, IsFiniteSet(S), NEW f, \A x \in S : f[x] \in Int, NEW z \in S
    PROVE  SumOver(f, S) = f[z] + SumOver(f, S \ {z})
<1> DEFINE W == {T \in SUBSET S : \E x \in T : SumOver(f, T) # f[x] + SumOver(f, T \ {x})}
<1> SUFFICES ASSUME W # {} PROVE FALSE
  OBVIOUS
<1>1. W \subseteq SUBSET S
  OBVIOUS
<1> HIDE DEF W
<1>2. PICK T \in W : \A U \in W : U \subseteq T => U = T
  BY <1>1, SmallestSet
<1>3. PICK x \in T : SumOver(f, T) # f[x] + SumOver(f, T \ {x})
  BY <1>2 DEF W
<1>4. T \in SUBSET S /\ IsFiniteSet(T)
  BY <1>1, <1>2, FS_Subset
<1> DEFINE y == First(T)
           U == T \ {y}
           V == T \ {x}
           R == T \ {x, y}
<1>5. y \in T /\ SumOver(f, T) = f[y] + SumOver(f, U)
  BY <1>4, SumFirst DEF First
<1>6. y # x
  BY <1>3, <1>5
<1>7. U \notin W /\ V \notin W
  BY <1>2, <1>5
<1>8. SumOver(f, U) = f[x] + SumOver(f, R)
  <2>1. U \in SUBSET S /\ x \in U /\ U \ {x} = R
    BY <1>4, <1>6
  <2>2. QED
    BY <1>7, <2>1 DEF W
<1>9. SumOver(f, V) = f[y] + SumOver(f, R)
  <2>1. V \in SUBSET S /\ y \in V /\ V \ {y} = R
    BY <1>4, <1>5, <1>6
  <2>2. QED
    BY <1>7, <2>1 DEF W
<1>10. SumOver(f, R) \in Int
  <2>1. IsFiniteSet(R) /\ R \subseteq S
    BY <1>4, FS_Subset
  <2>2. QED
    BY <2>1, SumInt
<1>11. f[x] \in Int /\ f[y] \in Int
  BY <1>4, <1>5
<1> HIDE DEF y, U, V, R
<1>12. QED
  BY <1>3, <1>5, <1>8, <1>9, <1>10, <1>11 DEF U, V

\* A sum with one more element.
LEMMA SumAdd ==
    ASSUME NEW S, IsFiniteSet(S), NEW f, NEW z, z \notin S, \A x \in S \cup {z} : f[x] \in Int
    PROVE  SumOver(f, S \cup {z}) = SumOver(f, S) + f[z]
<1>1. IsFiniteSet(S \cup {z}) /\ (S \cup {z}) \ {z} = S
  BY FS_AddElement
<1>2. SumOver(f, S) \in Int /\ f[z] \in Int
  BY SumInt
<1> DEFINE T == S \cup {z}
<1>3. SumOver(f, T) = f[z] + SumOver(f, T \ {z})
  <2>1. IsFiniteSet(T) /\ z \in T /\ \A x \in T : f[x] \in Int
    BY <1>1
  <2> HIDE DEF T
  <2>2. QED
    BY <2>1, SumRemove
<1>4. T \ {z} = S
  BY <1>1
<1> HIDE DEF T
<1>5. SumOver(f, T) = f[z] + SumOver(f, S)
  BY <1>3, <1>4
<1>6. QED
  BY <1>2, <1>5 DEF T

\* A sum depends on the values over its set only.
LEMMA SumSame ==
    ASSUME NEW S, IsFiniteSet(S), NEW f, NEW g, \A x \in S : f[x] = g[x]
    PROVE  SumOver(f, S) = SumOver(g, S)
<1> DEFINE W == {T \in SUBSET S : SumOver(f, T) # SumOver(g, T)}
<1> SUFFICES ASSUME W # {} PROVE FALSE
  OBVIOUS
<1>1. W \subseteq SUBSET S
  OBVIOUS
<1> HIDE DEF W
<1>2. PICK T \in W : \A U \in W : U \subseteq T => U = T
  BY <1>1, SmallestSet
<1>3. T \in SUBSET S /\ IsFiniteSet(T) /\ SumOver(f, T) # SumOver(g, T)
  BY <1>2, FS_Subset DEF W
<1>4. T # {}
  BY <1>3, SumEmpty, Zenon
<1>5. First(T) \in T
  BY <1>4 DEF First
<1>6. SumOver(f, T \ {First(T)}) = SumOver(g, T \ {First(T)})
  BY <1>2, <1>3, <1>5 DEF W
<1>7. SumOver(f, T) = f[First(T)] + SumOver(f, T \ {First(T)})
  BY <1>3, <1>4, SumFirst
<1>8. SumOver(g, T) = g[First(T)] + SumOver(g, T \ {First(T)})
  BY <1>3, <1>4, SumFirst
<1>9. f[First(T)] = g[First(T)]
  BY <1>3, <1>5
<1>10. QED
  BY <1>3, <1>6, <1>7, <1>8, <1>9

\* The sum of the sums of values is the sum of two sums.
LEMMA SumPlus ==
    ASSUME NEW S, IsFiniteSet(S), NEW f, NEW g, NEW h,
           \A x \in S : f[x] \in Int /\ g[x] \in Int /\ h[x] = f[x] + g[x]
    PROVE  SumOver(h, S) = SumOver(f, S) + SumOver(g, S)
<1> DEFINE W == {T \in SUBSET S : SumOver(h, T) # SumOver(f, T) + SumOver(g, T)}
<1> SUFFICES ASSUME W # {} PROVE FALSE
  OBVIOUS
<1>1. W \subseteq SUBSET S
  OBVIOUS
<1> HIDE DEF W
<1>2. PICK T \in W : \A U \in W : U \subseteq T => U = T
  BY <1>1, SmallestSet
<1>3. T \in SUBSET S /\ IsFiniteSet(T) /\ SumOver(h, T) # SumOver(f, T) + SumOver(g, T)
  BY <1>2, FS_Subset DEF W
<1>4. T # {}
  <2> SUFFICES ASSUME T = {} PROVE FALSE
    OBVIOUS
  <2>1. SumOver(f, T) = 0 /\ SumOver(g, T) = 0 /\ SumOver(h, T) = 0
    BY SumEmpty
  <2>2. QED
    BY <1>3, <2>1
<1> DEFINE y == First(T)
           U == T \ {y}
<1>5. y \in T /\ y \in S
  BY <1>3, <1>4 DEF First
<1>6. SumOver(h, U) = SumOver(f, U) + SumOver(g, U)
  BY <1>2, <1>3, <1>5 DEF W
<1>7. /\ SumOver(f, T) = f[y] + SumOver(f, U)
      /\ SumOver(g, T) = g[y] + SumOver(g, U)
      /\ SumOver(h, T) = h[y] + SumOver(h, U)
  BY <1>3, <1>4, SumFirst
<1>8. SumOver(f, U) \in Int /\ SumOver(g, U) \in Int
  <2>1. IsFiniteSet(U) /\ U \subseteq S
    BY <1>3, FS_Subset
  <2>2. QED
    BY <2>1, SumInt
<1>9. f[y] \in Int /\ g[y] \in Int /\ h[y] = f[y] + g[y]
  BY <1>5
<1> HIDE DEF y, U
<1>10. QED
  BY <1>3, <1>6, <1>7, <1>8, <1>9

\* Greater values have the greater sum.
LEMMA SumMonotone ==
    ASSUME NEW S, IsFiniteSet(S), NEW f, NEW g,
           \A x \in S : f[x] \in Int /\ g[x] \in Int /\ f[x] <= g[x]
    PROVE  SumOver(f, S) <= SumOver(g, S)
<1> DEFINE W == {T \in SUBSET S : ~(SumOver(f, T) <= SumOver(g, T))}
<1> SUFFICES ASSUME W # {} PROVE FALSE
  <2>1. S \notin W
    OBVIOUS
  <2>2. QED
    BY <2>1
<1>1. W \subseteq SUBSET S
  OBVIOUS
<1> HIDE DEF W
<1>2. PICK T \in W : \A U \in W : U \subseteq T => U = T
  BY <1>1, SmallestSet
<1>3. T \in SUBSET S /\ IsFiniteSet(T) /\ ~(SumOver(f, T) <= SumOver(g, T))
  BY <1>2, FS_Subset DEF W
<1>4. T # {}
  BY <1>3, SumEmpty
<1> DEFINE y == First(T)
           U == T \ {y}
<1>5. y \in T /\ y \in S
  BY <1>3, <1>4 DEF First
<1>6. SumOver(f, U) <= SumOver(g, U)
  BY <1>2, <1>3, <1>5 DEF W
<1>7. /\ SumOver(f, T) = f[y] + SumOver(f, U)
      /\ SumOver(g, T) = g[y] + SumOver(g, U)
  BY <1>3, <1>4, SumFirst
<1>8. SumOver(f, U) \in Int /\ SumOver(g, U) \in Int
  <2>1. IsFiniteSet(U) /\ U \subseteq S
    BY <1>3, FS_Subset
  <2>2. QED
    BY <2>1, SumInt
<1>9. f[y] \in Int /\ g[y] \in Int /\ f[y] <= g[y]
  BY <1>5
<1> HIDE DEF y, U
<1>10. QED
  BY <1>3, <1>6, <1>7, <1>8, <1>9

\* The sum over two disjoint sets is the sum of their sums.
LEMMA SumJoin2 ==
    ASSUME NEW S, IsFiniteSet(S), NEW R, IsFiniteSet(R), S \cap R = {}, NEW f,
           \A x \in S \cup R : f[x] \in Int
    PROVE  SumOver(f, S \cup R) = SumOver(f, S) + SumOver(f, R)
<1> DEFINE W == {T \in SUBSET R : SumOver(f, S \cup T) # SumOver(f, S) + SumOver(f, T)}
<1> SUFFICES ASSUME W # {} PROVE FALSE
  OBVIOUS
<1>1. W \subseteq SUBSET R
  OBVIOUS
<1> HIDE DEF W
<1>2. PICK T \in W : \A U \in W : U \subseteq T => U = T
  BY <1>1, SmallestSet
<1>3. T \in SUBSET R /\ IsFiniteSet(T) /\ SumOver(f, S \cup T) # SumOver(f, S) + SumOver(f, T)
  BY <1>2, FS_Subset DEF W
<1>0. SumOver(f, S) \in Int
  BY SumInt
<1>4. T # {}
  <2> SUFFICES ASSUME T = {} PROVE FALSE
    OBVIOUS
  <2>1. S \cup T = S /\ SumOver(f, T) = 0
    BY SumEmpty
  <2>2. QED
    BY <1>0, <1>3, <2>1
<1> DEFINE y == First(T)
           U == T \ {y}
<1>5. y \in T /\ y \in R /\ y \notin S
  BY <1>3, <1>4 DEF First
<1>6. SumOver(f, S \cup U) = SumOver(f, S) + SumOver(f, U)
  BY <1>2, <1>3, <1>5 DEF W
<1>7. SumOver(f, T) = f[y] + SumOver(f, U)
  BY <1>3, <1>4, SumFirst
<1>8. SumOver(f, U) \in Int /\ IsFiniteSet(U)
  <2>1. IsFiniteSet(U) /\ U \subseteq R
    BY <1>3, FS_Subset
  <2>2. QED
    BY <2>1, SumInt
<1>9. f[y] \in Int
  BY <1>5
<1>11. SumOver(f, S \cup T) = SumOver(f, S \cup U) + f[y]
  <2>1. IsFiniteSet(S \cup U)
    BY <1>8, FS_Union
  <2>2. y \notin S \cup U /\ (S \cup U) \cup {y} = S \cup T /\ \A x \in (S \cup U) \cup {y} : f[x] \in Int
    BY <1>3, <1>5
  <2> DEFINE Q == S \cup U
  <2>3. IsFiniteSet(Q) /\ y \notin Q /\ \A x \in Q \cup {y} : f[x] \in Int
    BY <2>1, <2>2
  <2> HIDE DEF y, U, Q
  <2>4. SumOver(f, Q \cup {y}) = SumOver(f, Q) + f[y]
    BY <2>3, SumAdd
  <2>5. QED
    BY <2>2, <2>4 DEF Q
<1> HIDE DEF y, U
<1>10. QED
  BY <1>0, <1>3, <1>6, <1>7, <1>8, <1>9, <1>11

\* A sum of naturals is a natural.
LEMMA SumNat ==
    ASSUME NEW S, IsFiniteSet(S), NEW f, \A x \in S : f[x] \in Nat
    PROVE  SumOver(f, S) \in Nat
<1> DEFINE zero == [x \in S |-> 0]
<1>1. SumOver(zero, S) = SumOver(zero, S) + SumOver(zero, S)
  BY SumPlus
<1>2. SumOver(zero, S) \in Int /\ SumOver(f, S) \in Int
  BY SumInt
<1>3. SumOver(zero, S) <= SumOver(f, S)
  BY SumMonotone
<1> HIDE DEF zero
<1>4. QED
  BY <1>1, <1>2, <1>3

(* Folds.  h computes the fold of the subsets of S that takes the element  *)
(* pick[s] of a set s last.                                                *)
Folding(h, step, base, pick, S) ==
    h = [s \in SUBSET S |-> IF s = {} THEN base ELSE step[<<h[s \ {pick[s]}], pick[s]>>]]

\* Two folds of the same step, over S and over a part of S, agree on that part.
LEMMA FoldingsAgree ==
    ASSUME NEW S, IsFiniteSet(S), NEW T \in SUBSET S, NEW step, NEW base, NEW pick, NEW g, NEW h,
           \A x \in SUBSET S : x # {} => pick[x] \in x,
           Folding(h, step, base, pick, S), Folding(g, step, base, pick, T), NEW s \in SUBSET T
    PROVE  h[s] = g[s]
<1> DEFINE W == {t \in SUBSET T : h[t] # g[t]}
<1> SUFFICES ASSUME W # {} PROVE FALSE
  OBVIOUS
<1>1. IsFiniteSet(T)
  BY FS_Subset
<1>0. W \subseteq SUBSET T
  OBVIOUS
<1> HIDE DEF W
<1>2. PICK t \in W : \A u \in W : u \subseteq t => u = t
  BY <1>0, <1>1, SmallestSet
<1>3. h[t] # g[t] /\ t \in SUBSET T /\ t \in SUBSET S
  BY <1>2 DEF W
<1>8. (t = {} => h[t] = base) /\ (t # {} => h[t] = step[<<h[t \ {pick[t]}], pick[t]>>])
  BY <1>3 DEF Folding
<1>9. (t = {} => g[t] = base) /\ (t # {} => g[t] = step[<<g[t \ {pick[t]}], pick[t]>>])
  BY <1>3 DEF Folding
<1>4. t # {}
  BY <1>3, <1>8, <1>9
<1>5. pick[t] \in t
  <2> HIDE DEF Folding
  <2> QED BY <1>3, <1>4
<1>6. h[t \ {pick[t]}] = g[t \ {pick[t]}]
  BY <1>2, <1>3, <1>5 DEF W
<1>7. h[t] = step[<<h[t \ {pick[t]}], pick[t]>>] /\ g[t] = step[<<g[t \ {pick[t]}], pick[t]>>]
  BY <1>4, <1>8, <1>9
<1> QED
  BY <1>3, <1>6, <1>7

\* A fold of a step over a finite set, its elements taken in an order given by
\* pick, exists.
LEMMA FoldingsExist ==
    ASSUME NEW S, IsFiniteSet(S), NEW step, NEW base, NEW pick,
           \A s \in SUBSET S : s # {} => pick[s] \in s
    PROVE  \E h : Folding(h, step, base, pick, S)
<1> DEFINE W == {t \in SUBSET S : ~\E h : Folding(h, step, base, pick, t)}
<1> SUFFICES ASSUME W # {} PROVE FALSE
  OBVIOUS
<1>0. W \subseteq SUBSET S
  OBVIOUS
<1> HIDE DEF W
<1>1. PICK t \in W : \A u \in W : u \subseteq t => u = t
  BY <1>0, SmallestSet
<1> DEFINE G(u) == CHOOSE h : Folding(h, step, base, pick, u)
           h == [s \in SUBSET t |-> IF s = {} THEN base ELSE step[<<G(s \ {pick[s]})[s \ {pick[s]}], pick[s]>>]]
<1>2. t \in SUBSET S /\ ~\E g : Folding(g, step, base, pick, t)
  BY <1>1 DEF W
<1>3. IsFiniteSet(t)
  BY <1>2, FS_Subset
<1>4. ASSUME NEW u \in SUBSET t, u # t PROVE Folding(G(u), step, base, pick, u)
  <2>1. u \notin W
    BY <1>1, <1>2, <1>4
  <2>2. \E g : Folding(g, step, base, pick, u)
    BY <1>2, <1>4, <2>1 DEF W
  <2>3. QED
    BY <2>2
<1> HIDE DEF G
<1>5. ASSUME NEW s \in SUBSET t, s # {} PROVE h[s \ {pick[s]}] = G(s \ {pick[s]})[s \ {pick[s]}]
  <2> DEFINE u == s \ {pick[s]}
             v == u \ {pick[u]}
  <2>1. pick[s] \in s
    BY <1>2, <1>5
  <2>2. u \in SUBSET t /\ u # t /\ Folding(G(u), step, base, pick, u)
    BY <1>4, <2>1
  <2>3. CASE u = {}
    <3>1. h[u] = base
      BY <2>3
    <3>2. G(u)[u] = base
      BY <2>2, <2>3 DEF Folding
    <3>3. QED
      BY <3>1, <3>2
  <2>4. CASE u # {}
    <3>1. pick[u] \in u
      BY <1>2, <2>2, <2>4
    <3>2. v \in SUBSET u /\ v \in SUBSET t /\ v # t /\ Folding(G(v), step, base, pick, v)
      BY <1>4, <2>2, <3>1
    <3>3. h[u] = step[<<G(v)[v], pick[u]>>]
      BY <2>2, <2>4
    <3>4. G(u)[u] = step[<<G(u)[v], pick[u]>>]
      BY <2>2, <2>4 DEF Folding
    <3>5. IsFiniteSet(u)
      BY <1>3, <2>2, FS_Subset
    <3>6. G(u)[v] = G(v)[v]
      <4> HIDE DEF u, v
      <4>1. \A x \in SUBSET u : x # {} => pick[x] \in x
        BY <1>2, <2>2
      <4>2. v \in SUBSET v
        OBVIOUS
      <4>3. ASSUME NEW a, NEW b, Folding(a, step, base, pick, u), Folding(b, step, base, pick, v)
            PROVE  a[v] = b[v]
        BY <3>2, <3>5, <4>1, <4>2, <4>3, FoldingsAgree
      <4> QED BY <2>2, <3>2, <4>3
    <3>7. QED
      BY <3>3, <3>4, <3>6
  <2>5. QED
    BY <2>3, <2>4
<1>6. Folding(h, step, base, pick, t)
  <2>1. h = [s \in SUBSET t |-> h[s]]
    OBVIOUS
  <2>2. \A s \in SUBSET t : h[s] = IF s = {} THEN base ELSE step[<<G(s \ {pick[s]})[s \ {pick[s]}], pick[s]>>]
    OBVIOUS
  <2> HIDE DEF h
  <2>3. \A s \in SUBSET t : h[s] = IF s = {} THEN base ELSE step[<<h[s \ {pick[s]}], pick[s]>>]
    BY <1>5, <2>2
  <2>4. [s \in SUBSET t |-> h[s]] = [s \in SUBSET t |-> IF s = {} THEN base ELSE step[<<h[s \ {pick[s]}], pick[s]>>]]
    BY <2>3
  <2>5. h = [s \in SUBSET t |-> IF s = {} THEN base ELSE step[<<h[s \ {pick[s]}], pick[s]>>]]
    BY <2>1, <2>4
  <2>6. QED
    BY <2>5, Zenon DEF Folding
<1>7. QED
  BY <1>2, <1>6
\* A finite set of numbers has a greatest one: of the numbers above each of
\* its members there are fewest above that one, none.
LEMMA GreatestOf ==
    ASSUME NEW S, S \subseteq Nat, IsFiniteSet(S), S # {}
    PROVE  Max(S) \in S /\ \A x \in S : x <= Max(S)
<1> DEFINE R == StrictSubsetOrdering(S)
           Above(m) == {x \in S : m < x}
           above == {Above(m) : m \in S}
<1>1. IsWellFoundedOn(R, FiniteSubsetsOf(S))
  BY FS_StrictSubsetOrderingWellFounded
<1>2. \A m \in S : Above(m) \subseteq S /\ IsFiniteSet(Above(m))
  <2> TAKE m \in S
  <2>1. Above(m) \subseteq S
    OBVIOUS
  <2> HIDE DEF Above
  <2> QED BY <2>1, FS_Subset
<1>3. above \subseteq FiniteSubsetsOf(S) /\ above # {}
  <2> HIDE DEF Above
  <2> QED BY <1>2 DEF FiniteSubsetsOf
<1>4. ASSUME NEW m \in S, NEW k \in Above(m)
      PROVE  k \in S /\ <<Above(k), Above(m)>> \in R
  <2>1. k \in S /\ k \notin Above(k)
    OBVIOUS
  <2>2. m \in Nat /\ k \in Nat /\ m < k
    BY <1>4
  <2>3. \A x \in S : k < x => m < x
    BY <2>2
  <2>4. Above(k) \subseteq Above(m)
    BY <2>3
  <2> HIDE DEF Above
  <2> QED BY <1>2, <1>4, <2>1, <2>4 DEF StrictSubsetOrdering
<1> HIDE DEF R, above
<1>5. PICK s \in above : \A r \in above : ~(<<r, s>> \in R)
  BY <1>1, <1>3, WFMin
<1>6. PICK m \in S : s = Above(m)
  BY <1>5 DEF above
<1>7. \A k \in S : Above(k) \in above
  BY DEF above
<1>8. Above(m) = {}
  <2> HIDE DEF Above
  <2> QED BY <1>4, <1>5, <1>6, <1>7
<1>9. \A x \in S : m >= x
  BY <1>8
<1>10. Max(S) \in S /\ \A x \in S : Max(S) >= x
  BY <1>9 DEF Max
<1> QED BY <1>10

(* A fold of a sequence of n elements, the last of them first: the result  *)
(* on the first k elements is the step from the result on k - 1.           *)
StepsBy(g, step, base, n) ==
    g = [s \in SUBSET (1..n) |-> IF s = {} THEN base ELSE step[<<g[s \ {Max(s)}], Max(s)>>]]

\* A fold over 1..n that takes the greatest element last runs step by step from 1
\* to n: what a loop over a sequence does.
LEMMA FoldRuns ==
    ASSUME NEW A, NEW base \in A, NEW n \in Nat, NEW step \in [A \X (1..n) -> A]
    PROVE  \E g \in [SUBSET (1..n) -> A] : StepsBy(g, step, base, n)
<1> DEFINE D == 1..n
           pick == [s \in SUBSET D |-> Max(s)]
<1>1. IsFiniteSet(D)
  BY FS_Interval
<1>2. \A s \in SUBSET D : s # {} => pick[s] \in s
  <2> SUFFICES ASSUME NEW s \in SUBSET D, s # {} PROVE Max(s) \in s
    OBVIOUS
  <2>1. IsFiniteSet(s) /\ s \subseteq Nat
    <3>1. D \subseteq Nat
      OBVIOUS
    <3> HIDE DEF D
    <3> QED BY <1>1, <3>1, FS_Subset
  <2> QED BY <2>1, GreatestOf
<1>3. \A s \in SUBSET D : pick[s] = Max(s)
  OBVIOUS
<1> HIDE DEF pick
<1>4. PICK g : Folding(g, step, base, pick, D)
  BY <1>1, <1>2, FoldingsExist
<1>5. \A s \in SUBSET D : g[s] \in A
  <2> DEFINE W == {t \in SUBSET D : g[t] \notin A}
  <2> SUFFICES ASSUME W # {} PROVE FALSE
    OBVIOUS
  <2>1. W \subseteq SUBSET D
    OBVIOUS
  <2> HIDE DEF W
  <2>2. PICK t \in W : \A u \in W : u \subseteq t => u = t
    <3> HIDE DEF D
    <3> QED BY <1>1, <2>1, SmallestSet
  <2>3. t \in SUBSET D /\ g[t] \notin A
    BY <2>2 DEF W
  <2>4. t # {}
    BY <1>4, <2>3 DEF Folding
  <2>5. pick[t] \in t /\ g[t] = step[<<g[t \ {pick[t]}], pick[t]>>]
    BY <1>2, <1>4, <2>3, <2>4 DEF Folding
  <2>6. g[t \ {pick[t]}] \in A
    BY <2>2, <2>3, <2>5 DEF W
  <2> QED BY <2>3, <2>5, <2>6
<1>6. g = [s \in SUBSET D |-> IF s = {} THEN base ELSE step[<<g[s \ {pick[s]}], pick[s]>>]]
  BY <1>4, Zenon DEF Folding
<1>7. g \in [SUBSET D -> A]
  <2> DEFINE e(s) == IF s = {} THEN base ELSE step[<<g[s \ {pick[s]}], pick[s]>>]
  <2>1. g = [s \in SUBSET D |-> e(s)]
    BY <1>6
  <2> HIDE DEF e
  <2> QED BY <1>5, <2>1
<1>8. g = [s \in SUBSET D |-> IF s = {} THEN base ELSE step[<<g[s \ {Max(s)}], Max(s)>>]]
  BY <1>3, <1>6
<1> QED BY <1>7, <1>8 DEF StepsBy

(* The first elements: the greatest of 1..k is k.                          *)
LEMMA GreatestOfFirst ==
    ASSUME NEW n \in Nat, NEW k \in 1..n
    PROVE  Max(1..k) = k /\ (1..k) \ {k} = 1..(k - 1) /\ 1..k # {} /\ 1..k \in SUBSET (1..n)
<1>1. IsFiniteSet(1..k) /\ 1..k \subseteq Nat /\ 1..k # {} /\ k \in 1..k
  <2>1. k \in Nat /\ 1 \in Nat /\ k \in 1..k
    OBVIOUS
  <2>2. IsFiniteSet(1..k)
    BY <2>1, FS_Interval
  <2> QED BY <2>1, <2>2
<1>2. Max(1..k) \in 1..k /\ k <= Max(1..k)
  BY <1>1, GreatestOf
<1>3. Max(1..k) = k
  BY <1>2
<1>4. (1..k) \ {k} = 1..(k - 1)
  OBVIOUS
<1> QED BY <1>1, <1>3, <1>4

(* Induction on the numbers up to n, for a set of numbers.                 *)
LEMMA UpTo ==
    ASSUME NEW n \in Nat, NEW T, 0 \in T, \A k \in 1..n : k - 1 \in T => k \in T
    PROVE  \A k \in 0..n : k \in T
<1> DEFINE W == {k \in 0..n : k \notin T}
<1> SUFFICES ASSUME W # {} PROVE FALSE
  OBVIOUS
<1>1. W \subseteq Nat
  OBVIOUS
<1>2. PICK m \in W : \A k \in W : m <= k
  <2> HIDE DEF W
  <2> QED BY <1>1, LeastNumber
<1>3. m \in 1..n /\ m - 1 \in 0..n /\ m - 1 \notin W
  BY <1>2
<1> QED BY <1>2, <1>3

-----------------------------------------------------------------------------
(* A strict order of the numbers up to n, and the numbers in that order.   *)
StrictOrder(R, n) ==
    /\ \A k \in 1..n : <<k, k>> \notin R
    /\ \A i, j, k \in 1..n : <<i, j>> \in R /\ <<j, k>> \in R => <<i, k>> \in R
    /\ \A j, k \in 1..n : j # k => <<j, k>> \in R \/ <<k, j>> \in R

Ranked(R, n) == [p \in 1..n |-> CHOOSE k \in 1..n : Cardinality({j \in 1..n : <<j, k>> \in R}) = p - 1]

\* Ordering by the number of predecessors names each number once, in order.
LEMMA RankedOnce ==
    ASSUME NEW n \in Nat, NEW R, StrictOrder(R, n)
    PROVE  /\ Ranked(R, n) \in [1..n -> 1..n]
           /\ \A p, q \in 1..n : Ranked(R, n)[p] = Ranked(R, n)[q] => p = q
           /\ \A k \in 1..n : \E p \in 1..n : Ranked(R, n)[p] = k
           /\ \A p, q \in 1..n : <<Ranked(R, n)[p], Ranked(R, n)[q]>> \in R => p < q
<1> DEFINE D == 1..n
           before(k) == {j \in D : <<j, k>> \in R}
           rank == [k \in D |-> Cardinality(before(k))]
           ranks == 0..(n - 1)
<1>2. IsFiniteSet(D) /\ Cardinality(D) = n
  BY FS_Interval
<1>3. IsFiniteSet(ranks) /\ Cardinality(ranks) = n
  BY FS_Interval
<1>4. \A k \in D : IsFiniteSet(before(k)) /\ Cardinality(before(k)) \in ranks
  <2> TAKE k \in D
  <2>1. before(k) \subseteq D /\ k \notin before(k)
    BY DEF StrictOrder
  <2>2. IsFiniteSet(before(k)) /\ Cardinality(before(k)) \in Nat
    BY <1>2, <2>1, FS_Subset, FS_CardinalityType
  <2> HIDE DEF before
  <2>3. before(k) \cup {k} \subseteq D
    BY <2>1
  <2>4. Cardinality(before(k) \cup {k}) = Cardinality(before(k)) + 1
    BY <2>1, <2>2, FS_AddElement
  <2>5. Cardinality(before(k) \cup {k}) <= n
    BY <1>2, <2>3, FS_Subset
  <2> QED BY <2>2, <2>4, <2>5
<1>6. ASSUME NEW j \in D, NEW k \in D, <<j, k>> \in R PROVE rank[j] < rank[k]
  <2>1. before(j) \subseteq before(k) /\ j \in before(k) /\ j \notin before(j)
    BY <1>6 DEF StrictOrder
  <2>2. IsFiniteSet(before(k)) /\ IsFiniteSet(before(j))
    BY <1>4
  <2>3. Cardinality(before(j)) \in Nat /\ Cardinality(before(k)) \in Nat
    BY <2>2, FS_CardinalityType
  <2> HIDE DEF before
  <2>4. before(j) \cup {j} \subseteq before(k)
    BY <2>1
  <2>5. Cardinality(before(j) \cup {j}) = Cardinality(before(j)) + 1
    BY <2>1, <2>2, FS_AddElement
  <2>6. Cardinality(before(j) \cup {j}) <= Cardinality(before(k))
    BY <2>2, <2>4, FS_Subset
  <2> QED BY <2>3, <2>5, <2>6
<1>7. rank \in [D -> ranks]
  BY <1>4
<1>0. \A k \in D : rank[k] \in Int
  <2>1. \A v \in ranks : v \in Int
    OBVIOUS
  <2> HIDE DEF rank, ranks
  <2> QED BY <1>7, <2>1
<1>8. \A j, k \in D : rank[j] = rank[k] => j = k
  <2> SUFFICES ASSUME NEW j \in D, NEW k \in D, j # k PROVE rank[j] # rank[k]
    OBVIOUS
  <2>2. rank[j] < rank[k] \/ rank[k] < rank[j]
    BY <1>6 DEF StrictOrder
  <2> HIDE DEF rank
  <2> QED BY <1>0, <2>2
<1>9. \A k \in D : rank[k] = Cardinality({j \in D : <<j, k>> \in R})
  OBVIOUS
<1> HIDE DEF rank
<1>10. rank \in Surjection(D, ranks)
  <2>1. rank \in Injection(D, ranks)
    BY <1>7, <1>8 DEF Injection, IsInjective
  <2> QED BY <1>2, <1>3, <2>1, FS_Injection
<1>11. \A v \in ranks : \E k \in D : rank[k] = v
  BY <1>10 DEF Surjection
<1> DEFINE order == Ranked(R, n)
<1>12. \A p \in D : order[p] \in D /\ rank[order[p]] = p - 1
  <2> TAKE p \in D
  <2>1. order[p] = CHOOSE k \in D : rank[k] = p - 1
    BY <1>9 DEF Ranked
  <2>2. p - 1 \in ranks
    OBVIOUS
  <2>3. \E k \in D : rank[k] = p - 1
    BY <1>11, <2>2
  <2> HIDE DEF order
  <2> QED BY <2>1, <2>3
<1>13. order \in [D -> D]
  <2> DEFINE e(p) == CHOOSE k \in 1..n : Cardinality({j \in 1..n : <<j, k>> \in R}) = p - 1
  <2>1. order = [p \in D |-> e(p)]
    BY DEF Ranked
  <2> HIDE DEF e, order
  <2> QED BY <1>12, <2>1
<1> HIDE DEF order
<1>14. \A p, q \in D : order[p] = order[q] => p = q
  BY <1>12
<1>15. \A k \in D : \E p \in D : order[p] = k
  <2> TAKE k \in D
  <2>1. rank[k] + 1 \in D /\ rank[k] \in Int
    BY <1>7
  <2>2. rank[order[rank[k] + 1]] = rank[k] + 1 - 1
    BY <1>12, <2>1
  <2>3. order[rank[k] + 1] = k
    BY <1>8, <1>12, <2>1, <2>2
  <2> QED BY <2>1, <2>3
<1>16. \A p, q \in D : <<order[p], order[q]>> \in R => p < q
  <2> SUFFICES ASSUME NEW p \in D, NEW q \in D, <<order[p], order[q]>> \in R PROVE p < q
    OBVIOUS
  <2>1. rank[order[p]] < rank[order[q]] /\ rank[order[p]] = p - 1 /\ rank[order[q]] = q - 1
    BY <1>6, <1>12
  <2> QED BY <2>1
<1> QED BY <1>13, <1>14, <1>15, <1>16 DEF order

\* One more element of a sequence, seen as a function.
LEMMA AppendSeen ==
    ASSUME NEW q, DOMAIN q = 1..Len(q), Len(q) \in Nat, NEW x
    PROVE  /\ Len(Append(q, x)) = Len(q) + 1 /\ DOMAIN Append(q, x) = 1..(Len(q) + 1)
           /\ Append(q, x)[Len(q) + 1] = x
           /\ \A i \in 1..Len(q) : Append(q, x)[i] = q[i]
OBVIOUS
=============================================================================
