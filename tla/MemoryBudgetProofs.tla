------------------------- MODULE MemoryBudgetProofs -------------------------
(***************************************************************************)
(* Memory: what is charged, what is measured and what is asked about.      *)
(* The ledger's invariants hold for every set of names, every counter      *)
(* width and every nesting of scopes.  The inductive invariant is LedgerOK *)
(* of module BudgetProofs (the sum, its finiteness and the order of used,  *)
(* peak and total) together with the types and the correspondence between  *)
(* open scopes and temporary charges.  The measurements: whatever the      *)
(* kernel does between the readings, and for all mappings, limits and      *)
(* inventories, no reported number claims more than was read.  The pages   *)
(* asked about around a prefetch: for every inventory and every budget the *)
(* counts add up, and no verdict is a guess.  The registry of resources:   *)
(* for all measurements its totals add up, and nothing unknown is a zero.  *)
(***************************************************************************)
EXTENDS BoundedCache, MemoryLedger, PageResidency, ResourceAccounting, BudgetProofs

IInv == TypeOK /\ LedgerOK(budget) /\ TempChargesScoped
-----------------------------------------------------------------------------
(* Whatever an operation on the ledger alone returns, the ledger adds up.  *)
LEMMA ReturnsOK ==
    ASSUME LedgerOK(budget), NEW r, NEW b, Returns(r, b), r = "Ok" => LedgerOK(b)
    PROVE  LedgerOK(budget') /\ budget' \in Ledgers
BY DEF Returns, LedgerOK

(* Results are of their type.                                              *)
LEMMA ResultTypes ==
    ASSUME NEW b, NEW n, NEW m, NEW bytes, NEW p, NEW q
    PROVE  /\ AllocateResult(b, n, bytes) \in Results
           /\ ReleaseResult(b, n) \in Results
           /\ ResizeResult(b, n, bytes) \in Results
           /\ CommitResizeResult(b, n, m, bytes) \in Results
           /\ RenamePrefixResult(b, p, q) \in Results
BY DEF AllocateResult, ReleaseResult, ResizeResult, CommitResizeResult,
       RenamePrefixResult, Results

(* The ledger adds up from the start.                                      *)
LEMMA InitIInv == Init => IInv
<1> SUFFICES ASSUME Init PROVE IInv
  OBVIOUS
<1>1. PICK total \in 1..MaxU64 : budget = NewLedger(total)
  BY DEF Init
<1>2. LedgerOK(budget)
  BY <1>1, NewLedgerOK
<1>3. TypeOK
  <2>1. budget \in Ledgers
    BY <1>2 DEF LedgerOK
  <2>2. scopes \in Seq(Scopes)
    BY DEF Init
  <2>3. unwinding \in BOOLEAN /\ result \in Results
    BY Zenon DEF Init, Results
  <2>4. QED
    BY <2>1, <2>2, <2>3 DEF TypeOK
<1>4. TempChargesScoped
  <2>1. \A n \in Names : ~Charged(budget, n)
    BY <1>1 DEF NewLedger, Charged
  <2>2. QED
    BY <2>1 DEF Init, TempChargesScoped, TempNames, OwnNames
<1>5. QED
  BY <1>2, <1>3, <1>4 DEF IInv

(* An operation that leaves the scopes alone and the temporary names as    *)
(* charged as they were preserves the correspondence between the two.      *)
LEMMA ScopesUntouched ==
    ASSUME TempChargesScoped, UNCHANGED scopes,
           \A n \in TempNames : Charged(budget', n) <=> Charged(budget, n)
    PROVE  TempChargesScoped'
BY DEF TempChargesScoped, TempNames, OwnNames

(* The sequence facts a scope's end needs.                                 *)
LEMMA PopFacts ==
    ASSUME NEW S, NEW q \in Seq(S), q # <<>>
    PROVE  /\ Len(q) \in Nat \ {0}
           /\ q[Len(q)] \in S
           /\ SubSeq(q, 1, Len(q) - 1) \in Seq(S)
           /\ Len(SubSeq(q, 1, Len(q) - 1)) = Len(q) - 1
           /\ \A i \in 1..(Len(q) - 1) : SubSeq(q, 1, Len(q) - 1)[i] = q[i]
<1>1. Len(q) \in Nat \ {0} /\ q[Len(q)] \in S
  OBVIOUS
<1> DEFINE k == Len(q)
           r == SubSeq(q, 1, k - 1)
<1>2. 1 \in 1..(k + 1) /\ k - 1 \in (1 - 1)..k
  BY <1>1
<1>3. /\ r \in Seq(S)
      /\ Len(r) = IF 1 <= k - 1 THEN k - 1 - 1 + 1 ELSE 0
      /\ \A i \in 1..(k - 1 - 1 + 1) : r[i] = q[1 + i - 1]
  BY <1>2, SubSeqProperties
<1> HIDE DEF r
<1>4. Len(r) = k - 1
  <2>1. k \in Nat \ {0}
    BY <1>1
  <2> HIDE DEF k
  <2>2. CASE k = 1
    BY <1>3, <2>1, <2>2
  <2>3. CASE k > 1
    BY <1>3, <2>1, <2>3
  <2>4. QED
    BY <2>1, <2>2, <2>3
<1>5. \A i \in 1..(k - 1) : r[i] = q[i]
  BY <1>1, <1>3
<1>6. QED
  BY <1>1, <1>3, <1>4, <1>5 DEF r

(* An innermost scope that is closed takes its charge, and only it, along. *)
LEMMA CloseScopeIInv ==
    ASSUME IInv, CloseScope
    PROVE  LedgerOK(budget') /\ budget' \in Ledgers /\ result' \in Results
           /\ scopes' \in Seq(Scopes) /\ TempChargesScoped'
<1> DEFINE k == Len(scopes)
           s == scopes[k]
<1>1. scopes \in Seq(Scopes) /\ scopes # <<>> /\ scopes' = SubSeq(scopes, 1, k - 1)
  BY DEF IInv, TypeOK, CloseScope
<1>2. /\ k \in Nat \ {0} /\ s \in Scopes
      /\ scopes' \in Seq(Scopes) /\ Len(scopes') = k - 1
      /\ \A i \in 1..(k - 1) : scopes'[i] = scopes[i]
  BY <1>1, PopFacts
<1>3. s.name \in Names /\ s.bytes \in 0..MaxU64
  BY <1>2 DEF Scopes
<1>4. ASSUME NEW n \in TempNames, NEW i \in 1..Len(scopes'), NEW j \in 1..Len(scopes'),
             Holds(scopes'[i], n), Holds(scopes'[j], n)
      PROVE  i = j
  <2>1. i \in 1..k /\ j \in 1..k /\ scopes'[i] = scopes[i] /\ scopes'[j] = scopes[j]
    BY <1>2
  <2>2. QED
    BY <1>4, <2>1 DEF IInv, TempChargesScoped
<1>5. ASSUME NEW n \in TempNames, ~Holds(s, n)
      PROVE  Charged(budget, n) <=> \E i \in 1..Len(scopes') : Holds(scopes'[i], n)
  <2>1. (\E i \in 1..k : Holds(scopes[i], n)) <=> \E i \in 1..(k - 1) : Holds(scopes[i], n)
    <3>1. ASSUME NEW i \in 1..k, Holds(scopes[i], n) PROVE i \in 1..(k - 1)
      BY <1>2, <1>5, <3>1
    <3>2. \A i \in 1..(k - 1) : i \in 1..k
      BY <1>2
    <3>3. QED
      BY <3>1, <3>2
  <2>2. (\E i \in 1..(k - 1) : Holds(scopes[i], n)) <=> \E i \in 1..Len(scopes') : Holds(scopes'[i], n)
    BY <1>2
  <2>3. QED
    BY <2>1, <2>2 DEF IInv, TempChargesScoped
<1>6. CASE s.bytes # 0
  <2>1. Returns(ReleaseResult(budget, s.name), Released(budget, s.name))
    BY <1>6 DEF CloseScope, Innermost
  <2>2. LedgerOK(budget') /\ budget' \in Ledgers
    BY <1>3, <2>1, ReturnsOK, ReleasedOK DEF IInv
  <2>3. result' \in Results
    BY <2>1, ResultTypes DEF Returns
  <2>4. /\ ~Charged(budget', s.name)
        /\ \A n \in Names \ {s.name} : Charged(budget', n) <=> Charged(budget, n)
    <3>1. CASE ReleaseResult(budget, s.name) = "Ok"
      <4>1. budget'.allocations = [budget.allocations EXCEPT ![s.name] = 0]
        BY <2>1, <3>1 DEF Returns, Released
      <4>2. QED
        BY <1>3, <4>1, LedgerParts DEF IInv, Charged
    <3>2. CASE ReleaseResult(budget, s.name) # "Ok"
      <4>1. budget' = budget
        BY <2>1, <3>2 DEF Returns
      <4>2. ~Charged(budget, s.name)
        BY <1>3, <3>2, ReleasedOK, LedgerParts DEF IInv, ReleaseResult
      <4>3. QED
        BY <4>1, <4>2
    <3>3. QED
      BY <3>1, <3>2
  <2>5. ASSUME NEW n \in TempNames
        PROVE  Charged(budget', n) <=> \E i \in 1..Len(scopes') : Holds(scopes'[i], n)
    <3>1. CASE n = s.name
      <4>1. Holds(scopes[k], n) /\ k \in 1..k
        BY <1>2, <1>6, <3>1 DEF Holds
      <4>2. ASSUME NEW i \in 1..(k - 1), Holds(scopes[i], n) PROVE FALSE
        <5>1. i \in 1..k /\ i # k
          BY <1>2
        <5>2. QED
          BY <4>1, <4>2, <5>1 DEF IInv, TempChargesScoped
      <4>3. QED
        BY <1>2, <2>4, <3>1, <4>2
    <3>2. CASE n # s.name
      <4>1. ~Holds(s, n)
        BY <3>2 DEF Holds
      <4>2. Charged(budget', n) <=> Charged(budget, n)
        BY <2>4, <3>2 DEF TempNames
      <4>3. QED
        BY <1>5, <4>1, <4>2
    <3>3. QED
      BY <3>1, <3>2
  <2>6. TempChargesScoped'
    BY <1>4, <2>5 DEF TempChargesScoped, TempNames, OwnNames
  <2>7. QED
    BY <1>2, <2>2, <2>3, <2>6
<1>7. CASE s.bytes = 0
  <2>1. budget' = budget /\ result' = "Ok"
    BY <1>7 DEF CloseScope, Innermost
  <2>2. ASSUME NEW n \in TempNames
        PROVE  Charged(budget', n) <=> \E i \in 1..Len(scopes') : Holds(scopes'[i], n)
    <3>1. ~Holds(s, n)
      BY <1>7 DEF Holds
    <3>2. QED
      BY <1>5, <2>1, <3>1
  <2>3. TempChargesScoped'
    BY <1>4, <2>2 DEF TempChargesScoped, TempNames, OwnNames
  <2>4. LedgerOK(budget') /\ budget' \in Ledgers
    BY <2>1 DEF IInv, LedgerOK
  <2>5. QED
    BY <1>2, <2>1, <2>3, <2>4 DEF Results
<1>8. QED
  BY <1>6, <1>7

(* Every step of the ledger's callers preserves the inductive invariant.   *)
LEMMA NextIInv == IInv /\ [Next]_vars => IInv'
<1> SUFFICES ASSUME IInv, [Next]_vars PROVE IInv'
  OBVIOUS
<1> USE DEF IInv
<1>1. ASSUME NEW n \in Names, NEW bytes \in 0..MaxU64, Allocate(n, bytes)
      PROVE  IInv'
  <2>1. Returns(AllocateResult(budget, n, bytes), Allocated(budget, n, bytes))
        /\ n \in OwnNames /\ UNCHANGED <<scopes, unwinding>>
    BY <1>1 DEF Allocate
  <2>2. LedgerOK(budget') /\ budget' \in Ledgers
    BY <2>1, ReturnsOK, AllocatedOK
  <2>3. \A m \in TempNames : Charged(budget', m) <=> Charged(budget, m)
    BY <2>1, LedgerParts DEF Returns, Allocated, Recharged, Charged, TempNames
  <2>4. TypeOK'
    BY <2>1, <2>2, ResultTypes DEF TypeOK, Returns
  <2>5. QED
    BY <2>1, <2>2, <2>3, <2>4, ScopesUntouched
<1>2. ASSUME NEW n \in Names, Release(n)
      PROVE  IInv'
  <2>1. Returns(ReleaseResult(budget, n), Released(budget, n))
        /\ n \in OwnNames /\ UNCHANGED <<scopes, unwinding>>
    BY <1>2 DEF Release
  <2>2. LedgerOK(budget') /\ budget' \in Ledgers
    BY <2>1, ReturnsOK, ReleasedOK
  <2>3. \A m \in TempNames : Charged(budget', m) <=> Charged(budget, m)
    BY <2>1, LedgerParts DEF Returns, Released, Charged, TempNames
  <2>4. TypeOK'
    BY <2>1, <2>2, ResultTypes DEF TypeOK, Returns
  <2>5. QED
    BY <2>1, <2>2, <2>3, <2>4, ScopesUntouched
<1>3. ASSUME NEW n \in Names, NEW bytes \in 0..MaxU64, Resize(n, bytes)
      PROVE  IInv'
  <2>1. Returns(ResizeResult(budget, n, bytes), Resized(budget, n, bytes))
        /\ UNCHANGED <<scopes, unwinding>>
    BY <1>3 DEF Resize
  <2>2. LedgerOK(budget') /\ budget' \in Ledgers
    BY <2>1, ReturnsOK, ResizedOK
  <2>3. \A m \in Names : Charged(budget', m) <=> Charged(budget, m)
    <3>1. CASE ResizeResult(budget, n, bytes) = "Ok"
      <4>1. budget'.allocations = [budget.allocations EXCEPT ![n] = bytes]
        BY <2>1, <3>1 DEF Returns, Resized, Recharged
      <4>2. bytes # 0 /\ budget.allocations[n] # 0
        BY <3>1 DEF ResizeResult, Charged
      <4>3. QED
        BY <4>1, <4>2, LedgerParts DEF Charged
    <3>2. CASE ResizeResult(budget, n, bytes) # "Ok"
      BY <2>1, <3>2 DEF Returns
    <3>3. QED
      BY <3>1, <3>2
  <2>4. TypeOK'
    BY <2>1, <2>2, ResultTypes DEF TypeOK, Returns
  <2>5. QED
    BY <2>1, <2>2, <2>3, <2>4, ScopesUntouched DEF TempNames
<1>4. ASSUME NEW n \in Names, NEW m \in Names, NEW bytes \in 0..MaxU64,
             CommitResize(n, m, bytes)
      PROVE  IInv'
  <2>1. Returns(CommitResizeResult(budget, n, m, bytes), ResizeCommitted(budget, n, m, bytes))
        /\ n \in OwnNames /\ m \in OwnNames /\ UNCHANGED <<scopes, unwinding>>
    BY <1>4 DEF CommitResize
  <2>2. LedgerOK(budget') /\ budget' \in Ledgers
    BY <2>1, ReturnsOK, ResizeCommittedOK
  <2>3. \A l \in TempNames : Charged(budget', l) <=> Charged(budget, l)
    BY <2>1, LedgerParts DEF Returns, ResizeCommitted, Recharged, Charged, TempNames
  <2>4. TypeOK'
    BY <2>1, <2>2, ResultTypes DEF TypeOK, Returns
  <2>5. QED
    BY <2>1, <2>2, <2>3, <2>4, ScopesUntouched
<1>5. ASSUME NEW p \in NamePrefixes, NEW q \in NamePrefixes, RenamePrefix(p, q)
      PROVE  IInv'
  <2>1. Returns(RenamePrefixResult(budget, p, q), PrefixRenamed(budget, p, q))
        /\ p # TempPrefix /\ q # TempPrefix /\ UNCHANGED <<scopes, unwinding>>
    BY <1>5 DEF RenamePrefix
  <2>2. LedgerOK(budget') /\ budget' \in Ledgers
    BY <2>1, ReturnsOK, PrefixRenamedOK
  <2>3. ASSUME NEW n \in TempNames
        PROVE  Charged(budget', n) <=> Charged(budget, n)
    <3>1. n \in Names /\ n[1] # p /\ n[1] # q
      BY <2>1 DEF TempNames, OwnNames
    <3>2. CASE RenamePrefixResult(budget, p, q) = "Ok"
      <4>1. budget' = PrefixRenamed(budget, p, q)
        BY <2>1, <3>2 DEF Returns
      <4>2. budget'.allocations[n] = budget.allocations[n]
        BY <3>1, <4>1 DEF PrefixRenamed, LedgerOK, Ledgers
      <4>3. QED
        BY <4>2 DEF Charged
    <3>3. CASE RenamePrefixResult(budget, p, q) # "Ok"
      BY <2>1, <3>3 DEF Returns
    <3>4. QED
      BY <3>2, <3>3
  <2>4. TypeOK'
    BY <2>1, <2>2, ResultTypes DEF TypeOK, Returns
  <2>5. QED
    BY <2>1, <2>2, <2>3, <2>4, ScopesUntouched
<1>6. ASSUME NEW n \in Names, NEW bytes \in 0..MaxU64, EnterTemp(n, bytes)
      PROVE  IInv'
  <2> DEFINE s == [name |-> n, bytes |-> bytes]
  <2>1. n \in TempNames /\ s \in Scopes /\ scopes \in Seq(Scopes) /\ unwinding' = unwinding
    BY <1>6 DEF EnterTemp, Scopes, TypeOK
  <2>2. CASE bytes # 0 /\ AllocateResult(budget, n, bytes) # "Ok"
    <3>1. budget' = budget /\ scopes' = scopes /\ result' = AllocateResult(budget, n, bytes)
      BY <1>6, <2>2 DEF EnterTemp, Returns
    <3>2. TypeOK'
      BY <2>1, <3>1, ResultTypes DEF TypeOK
    <3>3. QED
      BY <3>1, <3>2, ScopesUntouched
  <2>3. CASE bytes = 0 \/ AllocateResult(budget, n, bytes) = "Ok"
    <3>1. /\ scopes' = Append(scopes, s) /\ result' = "Ok"
          /\ budget' = IF bytes = 0 THEN budget ELSE Allocated(budget, n, bytes)
      BY <1>6, <2>3 DEF EnterTemp, Returns
    <3>2. LedgerOK(budget') /\ budget' \in Ledgers
      <4>1. LedgerOK(budget')
        BY <2>3, <3>1, AllocatedOK
      <4>2. QED
        BY <4>1 DEF LedgerOK
    <3>3. TypeOK'
      <4>1. scopes' \in Seq(Scopes)
        BY <2>1, <3>1
      <4>2. result' \in Results
        BY <3>1 DEF Results
      <4>3. QED
        BY <2>1, <3>2, <4>1, <4>2 DEF TypeOK
    <3> DEFINE k == Len(scopes)
    <3>4. /\ k \in Nat /\ Len(scopes') = k + 1 /\ scopes'[k + 1] = s
          /\ \A i \in 1..k : scopes'[i] = scopes[i]
      BY <2>1, <3>1
    <3>5. s.name = n /\ s.bytes = bytes
      OBVIOUS
    <3> HIDE DEF s, k
    <3>6. ASSUME NEW l \in TempNames
          PROVE  /\ Charged(budget', l) <=> \E i \in 1..Len(scopes') : Holds(scopes'[i], l)
                 /\ \A i, j \in 1..Len(scopes') :
                      Holds(scopes'[i], l) /\ Holds(scopes'[j], l) => i = j
      <4>1. l \in Names
        BY DEF TempNames
      <4>2. CASE bytes # 0 /\ l = n
        <5>1. ~Charged(budget, l)
          BY <2>3, <4>2 DEF AllocateResult
        <5>2. \A i \in 1..k : ~Holds(scopes[i], l)
          BY <5>1 DEF TempChargesScoped, k
        <5>3. Charged(budget', l)
          BY <3>1, <4>1, <4>2, LedgerParts DEF Allocated, Recharged, Charged
        <5>4. Holds(scopes'[k + 1], l) /\ k + 1 \in 1..Len(scopes')
          BY <3>4, <3>5, <4>2 DEF Holds
        <5>5. ASSUME NEW i \in 1..Len(scopes'), Holds(scopes'[i], l) PROVE i = k + 1
          BY <3>4, <5>2, <5>5
        <5>6. QED
          BY <5>3, <5>4, <5>5
      <4>3. CASE ~(bytes # 0 /\ l = n)
        <5>1. Charged(budget', l) <=> Charged(budget, l)
          BY <3>1, <4>1, <4>3, LedgerParts DEF Allocated, Recharged, Charged
        <5>2. ~Holds(scopes'[k + 1], l)
          BY <3>4, <3>5, <4>3 DEF Holds
        <5>3. ASSUME NEW i \in 1..Len(scopes'), Holds(scopes'[i], l)
              PROVE  i \in 1..k /\ Holds(scopes[i], l)
          BY <3>4, <5>2, <5>3
        <5>4. \A i \in 1..k : i \in 1..Len(scopes') /\ (Holds(scopes[i], l) => Holds(scopes'[i], l))
          BY <3>4
        <5>5. /\ Charged(budget, l) <=> \E i \in 1..k : Holds(scopes[i], l)
              /\ \A i, j \in 1..k : Holds(scopes[i], l) /\ Holds(scopes[j], l) => i = j
          BY DEF TempChargesScoped, k
        <5>6. QED
          BY <5>1, <5>3, <5>4, <5>5
      <4>4. QED
        BY <4>2, <4>3
    <3>7. TempChargesScoped'
      BY <3>6 DEF TempChargesScoped, TempNames, OwnNames
    <3>8. QED
      BY <3>2, <3>3, <3>7
  <2>4. QED
    BY <2>2, <2>3
<1>7. CASE LeaveTemp
  <2>1. CloseScope /\ unwinding' = unwinding
    BY <1>7 DEF LeaveTemp
  <2>2. QED
    BY <2>1, CloseScopeIInv DEF TypeOK
<1>8. CASE Panic
  <2>1. UNCHANGED <<budget, scopes, result>> /\ unwinding' \in BOOLEAN
    BY <1>8 DEF Panic
  <2>2. QED
    BY <2>1, ScopesUntouched DEF TypeOK
<1>9. CASE Unwind
  <2>1. CloseScope /\ unwinding' \in BOOLEAN
    BY <1>9 DEF Unwind
  <2>2. QED
    BY <2>1, CloseScopeIInv DEF TypeOK
<1>10. CASE UNCHANGED vars
  <2>1. UNCHANGED <<budget, scopes, unwinding, result>>
    BY <1>10 DEF vars
  <2>2. QED
    BY <2>1, ScopesUntouched DEF TypeOK
<1>11. QED
  BY <1>1, <1>2, <1>3, <1>4, <1>5, <1>6, <1>7, <1>8, <1>9, <1>10 DEF Next

(* The inductive invariant is an invariant.                                *)
LEMMA SpecIInv == Spec => []IInv
BY InitIInv, NextIInv, PTL DEF Spec
-----------------------------------------------------------------------------
(***************************************************************************)
(* Types: in particular no counter of memory.rs ever leaves its width.     *)
(***************************************************************************)
THEOREM TypeCorrect == Spec => []TypeOK
<1>1. IInv => TypeOK
  BY DEF IInv
<1>2. QED
  BY <1>1, SpecIInv, PTL

(***************************************************************************)
(* `used` is the sum of the charges in every reachable state.              *)
(***************************************************************************)
THEOREM LedgerBalancedTheorem == Spec => []LedgerBalanced
<1>1. IInv => LedgerBalanced
  BY DEF IInv, LedgerOK, LedgerBalanced
<1>2. QED
  BY <1>1, SpecIInv, PTL

(***************************************************************************)
(* The charges never exceed the budget, and the peak lies between.         *)
(***************************************************************************)
THEOREM WithinBudgetTheorem == Spec => []WithinBudget
<1>1. IInv => WithinBudget
  BY DEF IInv, LedgerOK, WithinBudget
<1>2. QED
  BY <1>1, SpecIInv, PTL

\* A committed resize that is refused for its size would not fit.
LEMMA CommitRefused ==
    ASSUME LedgerOK(budget), NEW n \in Names, NEW m \in Names, NEW bytes \in 0..MaxU64
    PROVE  LET answer == CommitResizeResult(budget, n, m, bytes)
           IN  /\ answer # "AccountingUnderflow"
               /\ answer \in {"AccountingOverflow", "Insufficient"}
                    => ChargedBeside(budget, n, m) + bytes > budget.total
<1> DEFINE a == budget.allocations
           d == [a EXCEPT ![n] = 0]
           c == [d EXCEPT ![m] = 0]
           base == budget.used - a[n] - a[m]
<1>1. CASE n = m
  BY <1>1 DEF CommitResizeResult
<1>2. CASE n # m
  <2>1. /\ budget.used \in Nat /\ budget.total \in Nat /\ budget.total <= MaxU64 /\ bytes \in Nat
        /\ a[n] \in Nat /\ a[m] \in Nat /\ a[n] + a[m] <= budget.used
        /\ budget.used = Cardinality(ChargedBytes(a))
    BY <1>2, LedgerParts, TwoCharges, MaxU64Assumption DEF LedgerOK
  <2>2. /\ d \in ChargeMaps /\ IsFiniteSet(ChargedBytes(d))
        /\ Cardinality(ChargedBytes(d)) = Cardinality(ChargedBytes(a)) - a[n]
    BY LedgerParts, DischargeOne DEF LedgerOK
  <2>3. d[m] = a[m]
    BY <1>2, LedgerParts
  <2>4. Cardinality(ChargedBytes(c)) = Cardinality(ChargedBytes(d)) - d[m]
    <3> HIDE DEF d
    <3> QED BY <2>2, DischargeOne
  <2>5. ChargedBeside(budget, n, m) = Cardinality(ChargedBytes(c))
    BY DEF ChargedBeside
  <2> HIDE DEF c, d
  <2>6. ChargedBeside(budget, n, m) = base /\ base \in Nat
    BY <2>1, <2>2, <2>3, <2>4, <2>5
  <2>7. CommitResizeResult(budget, n, m, bytes) # "AccountingUnderflow"
    BY <2>6 DEF CommitResizeResult
  <2>8. CommitResizeResult(budget, n, m, bytes) \in {"AccountingOverflow", "Insufficient"}
          => base + bytes > budget.total
    BY <2>1, <2>6, MaxU64Assumption DEF CommitResizeResult
  <2> QED BY <2>6, <2>7, <2>8
<1> QED BY <1>1, <1>2

(***************************************************************************)
(* No release, charge or resize reports that the ledger is out of step,    *)
(* and a committed resize reports an overflow or a short budget only for a *)
(* size that does not fit.                                                 *)
(***************************************************************************)
THEOREM AccountingErrorsTheorem == Spec => []AccountingErrorsTruthful
<1>1. IInv => AccountingErrorsTruthful
  <2> SUFFICES ASSUME IInv, NEW n \in Names
               PROVE  /\ ReleaseResult(budget, n) # "AccountingUnderflow"
                      /\ \A bytes \in 0..MaxU64 :
                           /\ AllocateResult(budget, n, bytes) # "AccountingOverflow"
                           /\ ResizeResult(budget, n, bytes)
                                \notin {"AccountingOverflow", "AccountingUnderflow"}
                           /\ \A m \in Names :
                                LET answer == CommitResizeResult(budget, n, m, bytes)
                                IN  /\ answer # "AccountingUnderflow"
                                    /\ answer \in {"AccountingOverflow", "Insufficient"}
                                         => ChargedBeside(budget, n, m) + bytes > budget.total
    BY DEF AccountingErrorsTruthful
  <2>1. /\ LedgerOK(budget) /\ budget.used <= budget.total
        /\ budget.used \in Nat /\ budget.total \in Nat /\ budget.total <= MaxU64
        /\ \A m \in Names : budget.allocations[m] \in Nat /\ budget.allocations[m] <= budget.used
    BY LedgerParts, ReleasedOK, MaxU64Assumption DEF IInv, LedgerOK
  <2>2. ReleaseResult(budget, n) # "AccountingUnderflow"
    BY <2>1 DEF ReleaseResult
  <2>3. ASSUME NEW bytes \in 0..MaxU64
        PROVE  /\ AllocateResult(budget, n, bytes) # "AccountingOverflow"
               /\ ResizeResult(budget, n, bytes)
                    \notin {"AccountingOverflow", "AccountingUnderflow"}
    <3>1. bytes \in Nat
      OBVIOUS
    <3>2. AllocateResult(budget, n, bytes) # "AccountingOverflow"
      BY <2>1, <3>1, MaxU64Assumption DEF AllocateResult, CanAllocate, Available
    <3>3. ResizeResult(budget, n, bytes) \notin {"AccountingOverflow", "AccountingUnderflow"}
      BY <2>1, <3>1, MaxU64Assumption DEF ResizeResult, CanAllocate, Available
    <3>4. QED
      BY <3>2, <3>3
  <2>4. QED
    BY <2>1, <2>2, <2>3, CommitRefused
<1>2. QED
  BY <1>1, SpecIInv, PTL

(***************************************************************************)
(* with_temp's charges live exactly as long as its scopes, through normal  *)
(* returns, errors and panics at any nesting.                              *)
(***************************************************************************)
THEOREM TempChargesTheorem == Spec => []TempChargesScoped
<1>1. IInv => TempChargesScoped
  BY DEF IInv
<1>2. QED
  BY <1>1, SpecIInv, PTL
-----------------------------------------------------------------------------
(***************************************************************************)
(* The bounded cache over the ledger.                                      *)
(***************************************************************************)

\* The sizes of the entries and the bytes they stand for.
Held(c) == BytesOf(c.entries, DOMAIN c.entries)

CacheOK(c) ==
    /\ c.form \in Forms
    /\ c.capacity \in Nat /\ c.used \in Nat
    /\ DOMAIN c.entries \subseteq Keys
    /\ \A key \in DOMAIN c.entries : c.entries[key] \in Nat
    /\ IsFiniteSet(Held(c)) /\ c.used = Cardinality(Held(c))
    /\ c.used <= c.capacity
    /\ LruExact(Keys, c.lru, DOMAIN c.entries)

Matches(c, b) ==
    \A key \in Keys :
       b.allocations[BudgetKey(key)] =
          IF c.form = "budgeted" /\ Cached(c, key) THEN c.entries[key] ELSE 0

\* A cache and a ledger that agree.
Agree(c, b) == CacheOK(c) /\ LedgerOK(b) /\ Matches(c, b)

\* Two ledgers that differ in the cache's charges at most.
SameOutside(b, d) == \A n \in Names : n[1] # CachePrefix => d.allocations[n] = b.allocations[n]

CacheInv == IInv /\ CacheOK(cache) /\ Matches(cache, budget)

(* The names of the cache's charges.                                       *)
LEMMA BudgetKeys ==
    /\ \A key \in Keys : BudgetKey(key) \in Names /\ BudgetKey(key)[1] = CachePrefix
    /\ \A k, l \in Keys : BudgetKey(k) = BudgetKey(l) => k = l
BY CachePrefixAssumption DEF BudgetKey, Keys, Names

(* The bytes of some of the entries, as the operations subtract them.      *)
LEMMA KeptBytes ==
    ASSUME NEW c, CacheOK(c), NEW keys
    PROVE  /\ DOMAIN Keeping(c, keys) = DOMAIN c.entries \cap keys
           /\ \A key \in DOMAIN c.entries \cap keys : Keeping(c, keys)[key] = c.entries[key]
           /\ BytesOf(Keeping(c, keys), DOMAIN Keeping(c, keys)) =
                BytesOf(c.entries, DOMAIN c.entries \cap keys)
           /\ TotalSize(Keeping(c, keys)) =
                Cardinality(BytesOf(c.entries, DOMAIN c.entries \cap keys))
           /\ IsFiniteSet(BytesOf(c.entries, DOMAIN c.entries \cap keys))
           /\ TotalSize(Keeping(c, keys)) \in Nat /\ TotalSize(Keeping(c, keys)) <= c.used
           /\ c.used - TotalSize(Keeping(c, keys)) =
                Cardinality(BytesOf(c.entries, DOMAIN c.entries \ keys))
<1> DEFINE f == c.entries
           D == DOMAIN c.entries
           g == Keeping(c, keys)
<1>1. DOMAIN g = D \cap keys /\ \A key \in D \cap keys : g[key] = f[key]
  BY DEF Keeping
<1>2. /\ \A key \in D : f[key] \in Nat
      /\ IsFiniteSet(BytesOf(f, D)) /\ c.used = Cardinality(BytesOf(f, D))
  BY DEF CacheOK, Held
<1>3. TotalSize(g) = Cardinality(BytesOf(g, DOMAIN g))
  BY DEF TotalSize, BytesOf
<1> HIDE DEF f, D, g
<1>4. BytesOf(g, DOMAIN g) = BytesOf(f, D \cap keys)
  <2>1. BytesOf(g, D \cap keys) = BytesOf(f, D \cap keys)
    <3> DEFINE S == D \cap keys
    <3>1. \A key \in S : g[key] = f[key]
      BY <1>1
    <3> HIDE DEF S
    <3>2. BytesOf(g, S) = BytesOf(f, S)
      BY <3>1, BytesSame
    <3>3. QED
      BY <3>2 DEF S
  <2>2. QED
    BY <1>1, <2>1, Zenon
<1>5. /\ IsFiniteSet(BytesOf(f, D \cap keys))
      /\ Cardinality(BytesOf(f, D \cap keys)) \in Nat
      /\ Cardinality(BytesOf(f, D \ keys)) \in Nat
      /\ Cardinality(BytesOf(f, D)) =
           Cardinality(BytesOf(f, D \cap keys)) + Cardinality(BytesOf(f, D \ keys))
  BY <1>2, BytesSplit
<1>6. TotalSize(g) = Cardinality(BytesOf(f, D \cap keys))
  BY <1>3, <1>4, Zenon
<1>7. TotalSize(g) \in Nat /\ TotalSize(g) <= c.used
      /\ c.used - TotalSize(g) = Cardinality(BytesOf(f, D \ keys))
  BY <1>2, <1>5, <1>6
<1>8. QED
  BY <1>1, <1>4, <1>5, <1>6, <1>7 DEF f, D, g

(* Entries that go, with a list of the others.                             *)
LEMMA ShrunkOK ==
    ASSUME NEW c, CacheOK(c), NEW keys, NEW lru, NEW left, left = DOMAIN c.entries \ keys,
           LruExact(Keys, lru, left), NEW d, d = Shrunk(c, keys, lru)
    PROVE  /\ CacheOK(d) /\ d.form = c.form /\ d.capacity = c.capacity /\ d.used <= c.used
           /\ DOMAIN d.entries = DOMAIN c.entries \ keys
           /\ \A key \in DOMAIN d.entries : d.entries[key] = c.entries[key]
<1> DEFINE D == DOMAIN c.entries
<1>1. /\ d.form = c.form /\ d.capacity = c.capacity /\ d.lru = lru
      /\ d.used = c.used - TotalSize(Keeping(c, keys))
      /\ d.entries = Keeping(c, Keys \ keys)
  BY DEF Shrunk
<1>2. /\ c.form \in Forms /\ c.capacity \in Nat /\ c.used \in Nat /\ D \subseteq Keys
      /\ \A key \in D : c.entries[key] \in Nat
      /\ c.used <= c.capacity
  BY DEF CacheOK
<1>3. D \cap (Keys \ keys) = D \ keys
  BY <1>2
<1>4. /\ DOMAIN d.entries = D \cap (Keys \ keys)
      /\ \A key \in D \cap (Keys \ keys) : d.entries[key] = c.entries[key]
      /\ Held(d) = BytesOf(c.entries, D \cap (Keys \ keys))
      /\ IsFiniteSet(BytesOf(c.entries, D \cap (Keys \ keys)))
  <2> DEFINE others == Keys \ keys
               kept == Keeping(c, others)
  <2>1. d.entries = kept /\ Held(d) = BytesOf(kept, DOMAIN kept)
    BY <1>1, Zenon DEF Held
  <2> HIDE DEF others
  <2>2. /\ DOMAIN kept = D \cap others
        /\ \A key \in D \cap others : kept[key] = c.entries[key]
        /\ BytesOf(kept, DOMAIN kept) = BytesOf(c.entries, D \cap others)
        /\ IsFiniteSet(BytesOf(c.entries, D \cap others))
    BY KeptBytes
  <2> HIDE DEF kept, D
  <2>3. /\ DOMAIN d.entries = D \cap others
        /\ \A key \in D \cap others : d.entries[key] = c.entries[key]
    BY <2>1, <2>2
  <2>4. Held(d) = BytesOf(c.entries, D \cap others)
    BY <2>1, <2>2, Zenon
  <2>5. QED
    BY <2>2, <2>3, <2>4, Zenon DEF others
<1>5. /\ TotalSize(Keeping(c, keys)) \in Nat /\ TotalSize(Keeping(c, keys)) <= c.used
      /\ c.used - TotalSize(Keeping(c, keys)) = Cardinality(BytesOf(c.entries, D \ keys))
  BY KeptBytes
<1> HIDE DEF D
<1>6. Held(d) = BytesOf(c.entries, D \ keys) /\ IsFiniteSet(Held(d)) /\ DOMAIN d.entries = D \ keys
  <2>1. BytesOf(c.entries, D \cap (Keys \ keys)) = BytesOf(c.entries, D \ keys)
    BY <1>3, Zenon
  <2>2. QED
    BY <1>3, <1>4, <2>1
<1>7. d.used \in Nat /\ d.used <= c.used /\ d.used = Cardinality(Held(d)) /\ d.used <= d.capacity
  BY <1>1, <1>2, <1>5, <1>6
<1>8. \A key \in DOMAIN d.entries : key \in D /\ d.entries[key] = c.entries[key]
  BY <1>3, <1>4, <1>6
<1>9. LruExact(Keys, d.lru, DOMAIN d.entries)
  BY <1>1, <1>6, Zenon DEF D
<1>10. CacheOK(d)
  BY <1>1, <1>2, <1>6, <1>7, <1>8, <1>9 DEF CacheOK
<1>11. QED
  BY <1>1, <1>6, <1>7, <1>8, <1>10 DEF D

(* Their charges, which are as many bytes, go with them.                   *)
LEMMA UnchargedOK ==
    ASSUME NEW c, NEW b, Agree(c, b), c.form = "budgeted", NEW keys,
           NEW d, CacheOK(d), d.form = c.form, DOMAIN d.entries = DOMAIN c.entries \ keys,
           \A key \in DOMAIN d.entries : d.entries[key] = c.entries[key]
    PROVE  /\ Agree(d, Uncharged(b, c, keys))
           /\ SameOutside(b, Uncharged(b, c, keys))
<1> DEFINE D == DOMAIN c.entries
           K == D \cap keys
           S == ChargesOf(c, keys)
           b2 == Uncharged(b, c, keys)
           move == [key \in K |-> BudgetKey(key)]
<1>1. CacheOK(c) /\ LedgerOK(b) /\ Matches(c, b) /\ D \subseteq Keys
  BY DEF Agree, CacheOK
<1>2. S = {BudgetKey(key) : key \in K} /\ S \in SUBSET Names
  BY <1>1, BudgetKeys DEF ChargesOf
<1>3. move \in [K -> S] /\ \A key \in K : move[key] = BudgetKey(key)
  BY <1>2
<1>4. \A key \in K : b.allocations[BudgetKey(key)] = c.entries[key] /\ c.entries[key] \in Nat
  BY <1>1 DEF Matches, Cached, CacheOK
<1>5. /\ TotalSize(Keeping(c, keys)) = Cardinality(BytesOf(c.entries, K))
      /\ IsFiniteSet(BytesOf(c.entries, K))
  BY <1>1, KeptBytes
<1> HIDE DEF S, move, b2
<1>6. Cardinality(BytesOf(b.allocations, S)) = TotalSize(Keeping(c, keys))
  <2>1. \A key \in K : c.entries[key] \in Nat /\ b.allocations[move[key]] = c.entries[key]
    BY <1>3, <1>4
  <2>2. \A n \in S : \E key \in K : move[key] = n
    BY <1>2, <1>3
  <2>3. \A k, l \in K : move[k] = move[l] => k = l
    BY <1>1, <1>3, BudgetKeys
  <2> DEFINE f == c.entries
  <2> HIDE DEF K, f
  <2>4. (\A key \in K : f[key] \in Nat /\ b.allocations[move[key]] = f[key]) /\ IsFiniteSet(BytesOf(f, K))
    BY <1>5, <2>1 DEF f
  <2>5. Cardinality(BytesOf(b.allocations, S)) = Cardinality(BytesOf(f, K))
    BY <1>3, <2>2, <2>3, <2>4, BytesMoved
  <2>6. QED
    BY <1>5, <2>5 DEF f
<1>7. b2 = [total |-> b.total,
            allocations |-> [n \in Names |-> IF n \in S THEN 0 ELSE b.allocations[n]],
            used |-> b.used - Cardinality(BytesOf(b.allocations, S)), peak_used |-> b.peak_used]
  BY <1>6, Zenon DEF b2, Uncharged, S
<1>8. LedgerOK(b2)
  BY <1>1, <1>2, <1>7, DischargeSet
<1>9. \A n \in Names : b2.allocations[n] = IF n \in S THEN 0 ELSE b.allocations[n]
  BY <1>7
<1>10. SameOutside(b, b2)
  <2>1. \A n \in S : n[1] = CachePrefix
    BY <1>1, <1>2, BudgetKeys
  <2>2. QED
    BY <1>9, <2>1 DEF SameOutside
<1>11. ASSUME NEW key \in Keys
       PROVE  b2.allocations[BudgetKey(key)] =
                IF d.form = "budgeted" /\ Cached(d, key) THEN d.entries[key] ELSE 0
  <2>1. BudgetKey(key) \in Names
    BY BudgetKeys
  <2>2. BudgetKey(key) \in S <=> key \in K
    BY <1>1, <1>2, BudgetKeys
  <2>3. b.allocations[BudgetKey(key)] = IF Cached(c, key) THEN c.entries[key] ELSE 0
    BY <1>1 DEF Matches
  <2>4. Cached(d, key) <=> Cached(c, key) /\ key \notin keys
    BY DEF Cached
  <2>5. Cached(d, key) => d.entries[key] = c.entries[key]
    BY DEF Cached
  <2>6. CASE Cached(d, key)
    BY <1>9, <2>1, <2>2, <2>3, <2>4, <2>5, <2>6
  <2>7. CASE ~Cached(d, key)
    BY <1>9, <2>1, <2>2, <2>3, <2>4, <2>7 DEF Cached
  <2>8. QED
    BY <2>6, <2>7
<1>12. Agree(d, b2)
  BY <1>8, <1>11 DEF Agree, Matches
<1>13. QED
  BY <1>10, <1>12 DEF b2

(* The list after one entry, or the oldest ones, have gone.                *)
LEMMA ListsLeft ==
    ASSUME NEW c, CacheOK(c)
    PROVE  /\ \A key : LruExact(Keys, Without(c.lru, key), DOMAIN c.entries \ {key})
           /\ \A n \in 0..Len(c.lru) :
                LruExact(Keys, Newest(c.lru, n), DOMAIN c.entries \ Oldest(c.lru, n))
<1> DEFINE D == DOMAIN c.entries
<1>1. LruExact(Keys, c.lru, D)
  BY DEF CacheOK
<1> HIDE DEF D
<1>2. ASSUME NEW key PROVE LruExact(Keys, Without(c.lru, key), D \ {key})
  <2>1. CASE key \in D
    BY <1>1, <2>1, TakeOut
  <2>2. CASE key \notin D
    <3>1. Without(c.lru, key) = c.lru
      BY <1>1, <2>2, TakeOutAbsent
    <3>2. D \ {key} = D
      BY <2>2
    <3>3. QED
      BY <1>1, <3>1, <3>2, Zenon
  <2>3. QED
    BY <2>1, <2>2
<1>3. ASSUME NEW n \in 0..Len(c.lru) PROVE LruExact(Keys, Newest(c.lru, n), D \ Oldest(c.lru, n))
  BY <1>1, PopMany
<1>4. QED
  BY <1>2, <1>3 DEF D

(* One entry removed.                                                      *)
LEMMA RemovedOK ==
    ASSUME NEW c, CacheOK(c), NEW key
    PROVE  LET d == Removed(c, key)
           IN  /\ CacheOK(d) /\ d.form = c.form /\ d.capacity = c.capacity /\ ~Cached(d, key)
               /\ \A b : Agree(c, b) /\ c.form = "budgeted" =>
                     /\ Agree(d, Uncharged(b, c, {key}))
                     /\ SameOutside(b, Uncharged(b, c, {key}))
<1> DEFINE d == Removed(c, key)
           keys == {key}
<1>1. LruExact(Keys, Without(c.lru, key), DOMAIN c.entries \ keys)
  BY ListsLeft
<1> DEFINE lru == Without(c.lru, key)
<1>2. d = Shrunk(c, keys, lru)
  BY DEF Removed
<1> HIDE DEF d, keys
<1>0. LruExact(Keys, lru, DOMAIN c.entries \ keys)
  BY <1>1
<1> HIDE DEF lru
<1>3. /\ CacheOK(d) /\ d.form = c.form /\ d.capacity = c.capacity
      /\ DOMAIN d.entries = DOMAIN c.entries \ keys
      /\ \A k \in DOMAIN d.entries : d.entries[k] = c.entries[k]
  <2> DEFINE left == DOMAIN c.entries \ keys
  <2>1. left = DOMAIN c.entries \ keys /\ LruExact(Keys, lru, left)
    BY <1>0
  <2> HIDE DEF left
  <2>2. QED
    BY <1>2, <2>1, ShrunkOK
<1>4. ~Cached(d, key)
  BY <1>3 DEF Cached, keys
<1>5. ASSUME NEW b, Agree(c, b), c.form = "budgeted"
      PROVE  Agree(d, Uncharged(b, c, keys)) /\ SameOutside(b, Uncharged(b, c, keys))
  BY <1>3, <1>5, UnchargedOK
<1>6. QED
  BY <1>3, <1>4, <1>5 DEF d, keys

(* Several entries evicted.                                                *)
LEMMA EvictedOK ==
    ASSUME NEW c, CacheOK(c), NEW n \in 0..Len(c.lru)
    PROVE  LET d == Evicted(c, n)
               keys == Oldest(c.lru, n)
           IN  /\ CacheOK(d) /\ d.form = c.form /\ d.capacity = c.capacity /\ d.used <= c.used
               /\ DOMAIN d.entries = DOMAIN c.entries \ keys
               /\ \A b : Agree(c, b) /\ c.form = "budgeted" =>
                     /\ Agree(d, Uncharged(b, c, keys))
                     /\ SameOutside(b, Uncharged(b, c, keys))
<1> DEFINE d == Evicted(c, n)
           keys == Oldest(c.lru, n)
<1>1. LruExact(Keys, Newest(c.lru, n), DOMAIN c.entries \ keys)
  BY ListsLeft
<1> DEFINE lru == Newest(c.lru, n)
<1>2. d = Shrunk(c, keys, lru)
  BY DEF Evicted
<1> HIDE DEF d, keys
<1>0. LruExact(Keys, lru, DOMAIN c.entries \ keys)
  BY <1>1
<1> HIDE DEF lru
<1>3. /\ CacheOK(d) /\ d.form = c.form /\ d.capacity = c.capacity /\ d.used <= c.used
      /\ DOMAIN d.entries = DOMAIN c.entries \ keys
      /\ \A k \in DOMAIN d.entries : d.entries[k] = c.entries[k]
  <2> DEFINE left == DOMAIN c.entries \ keys
  <2>1. left = DOMAIN c.entries \ keys /\ LruExact(Keys, lru, left)
    BY <1>0
  <2> HIDE DEF left
  <2>2. QED
    BY <1>2, <2>1, ShrunkOK
<1>4. ASSUME NEW b, Agree(c, b), c.form = "budgeted"
      PROVE  Agree(d, Uncharged(b, c, keys)) /\ SameOutside(b, Uncharged(b, c, keys))
  BY <1>3, <1>4, UnchargedOK
<1>5. QED
  BY <1>3, <1>4 DEF d, keys

(* The evictions for the capacity make the room they are for.              *)
LEMMA RoomMade ==
    ASSUME NEW c, CacheOK(c), NEW size \in Nat, size <= c.capacity,
           NEW n \in EvictionsForCapacity(c, size)
    PROVE  n \in 0..Len(c.lru) /\ FitsCapacity(Evicted(c, n), size)
<1> DEFINE d == Evicted(c, n)
<1>1. n \in 0..Len(c.lru) /\ (n = Len(c.lru) \/ FitsCapacity(d, size))
  BY DEF EvictionsForCapacity, EvictionCounts
<1>2. /\ CacheOK(d) /\ d.capacity = c.capacity
      /\ DOMAIN d.entries = DOMAIN c.entries \ Oldest(c.lru, n)
  BY <1>1, EvictedOK
<1> HIDE DEF d
<1>3. CASE n = Len(c.lru)
  <2>1. /\ c.lru \in Seq(Keys)
        /\ {c.lru[j] : j \in 1..Len(c.lru)} = DOMAIN c.entries
    BY DEF CacheOK, LruExact
  <2>2. Len(c.lru) \in Nat /\ Len(c.lru) - n + 1 = 1
    BY <1>3, <2>1
  <2>3. Oldest(c.lru, n) = DOMAIN c.entries
    BY <2>1, <2>2 DEF Oldest
  <2>4. DOMAIN d.entries = {}
    BY <1>2, <2>3
  <2>5. Held(d) = {}
    BY <2>4 DEF Held, BytesOf
  <2>6. d.used = 0
    BY <1>2, <2>5, FS_EmptySet DEF CacheOK
  <2>7. QED
    BY <1>1, <1>2, <2>6 DEF FitsCapacity, d
<1>4. QED
  BY <1>1, <1>3 DEF d

(* A new entry.                                                            *)
LEMMA WithOK ==
    ASSUME NEW c, CacheOK(c), NEW key \in Keys, ~Cached(c, key), NEW size \in Nat,
           FitsCapacity(c, size)
    PROVE  LET d == With(c, key, size)
           IN  /\ CacheOK(d) /\ d.form = c.form
               /\ DOMAIN d.entries = DOMAIN c.entries \cup {key}
               /\ d.entries[key] = size
               /\ \A k \in DOMAIN c.entries : d.entries[k] = c.entries[k]
<1> DEFINE d == With(c, key, size)
           D == DOMAIN c.entries
           one == {key}
           f == d.entries
<1>1. /\ c.form \in Forms /\ c.capacity \in Nat /\ c.used \in Nat /\ D \subseteq Keys
      /\ \A k \in D : c.entries[k] \in Nat
      /\ IsFiniteSet(Held(c)) /\ c.used = Cardinality(Held(c))
      /\ LruExact(Keys, c.lru, D) /\ key \notin D
  BY DEF CacheOK, Cached
<1>2. /\ d.form = c.form /\ d.capacity = c.capacity /\ d.used = c.used + size
      /\ d.lru = <<key>> \o c.lru
      /\ d.entries = [k \in D \cup {key} |-> IF k = key THEN size ELSE c.entries[k]]
  BY DEF With
<1>3. DOMAIN f = D \cup one /\ f[key] = size /\ \A k \in D : f[k] = c.entries[k]
  BY <1>1, <1>2
<1> HIDE DEF d, D, f
<1>4. IsFiniteSet(BytesOf(f, one)) /\ Cardinality(BytesOf(f, one)) = size
  BY <1>3, BytesOne
<1>5. BytesOf(f, D) = Held(c)
  BY <1>3, BytesSame DEF Held, D
<1>6. D \cap one = {} /\ \A k \in D \cup one : f[k] \in Nat
  BY <1>1, <1>3
<1> HIDE DEF one
<1>7. /\ IsFiniteSet(BytesOf(f, D \cup one))
      /\ Cardinality(BytesOf(f, D \cup one)) = c.used + size
  <2>1. IsFiniteSet(BytesOf(f, D)) /\ Cardinality(BytesOf(f, D)) = c.used
    BY <1>1, <1>5
  <2>2. /\ IsFiniteSet(BytesOf(f, D \cup one))
        /\ Cardinality(BytesOf(f, D \cup one)) =
             Cardinality(BytesOf(f, D)) + Cardinality(BytesOf(f, one))
    BY <1>4, <1>6, <2>1, BytesJoin
  <2>3. QED
    BY <1>4, <2>1, <2>2
<1>8. Held(d) = BytesOf(f, D \cup one)
  BY <1>3, Zenon DEF Held, f
<1>9. LruExact(Keys, d.lru, DOMAIN d.entries)
  <2>1. LruExact(Keys, <<key>> \o c.lru, D \cup one)
    BY <1>1, PushFront DEF one
  <2>2. QED
    BY <1>2, <1>3, <2>1, Zenon DEF f
<1>10. d.used \in Nat /\ d.used <= d.capacity
  BY <1>1, <1>2 DEF FitsCapacity
<1>11. DOMAIN d.entries \subseteq Keys /\ \A k \in DOMAIN d.entries : d.entries[k] \in Nat
  BY <1>1, <1>3, <1>6 DEF f, one
<1>12. CacheOK(d)
  BY <1>1, <1>2, <1>7, <1>8, <1>9, <1>10, <1>11 DEF CacheOK
<1>13. QED
  BY <1>2, <1>3, <1>12 DEF d, D, f, one

(* An entry that is read.                                                  *)
LEMMA TouchedOK ==
    ASSUME NEW c, CacheOK(c), NEW key \in Keys, Cached(c, key)
    PROVE  LET d == Touched(c, key)
           IN  CacheOK(d) /\ d.form = c.form /\ d.entries = c.entries
<1> DEFINE d == Touched(c, key)
           D == DOMAIN c.entries
<1>1. LruExact(Keys, Without(c.lru, key), D \ {key}) /\ key \in D
  BY ListsLeft DEF Cached
<1>2. (D \ {key}) \cup {key} = D /\ key \notin D \ {key}
  BY <1>1
<1> HIDE DEF D
<1>3. LruExact(Keys, <<key>> \o Without(c.lru, key), (D \ {key}) \cup {key})
  BY <1>1, <1>2, PushFront
<1>4. LruExact(Keys, <<key>> \o Without(c.lru, key), D)
  BY <1>2, <1>3, Zenon
<1>5. /\ d.form = c.form /\ d.capacity = c.capacity /\ d.used = c.used
      /\ d.entries = c.entries /\ d.lru = <<key>> \o Without(c.lru, key)
  BY DEF Touched
<1> HIDE DEF d
<1>6. LruExact(Keys, d.lru, DOMAIN d.entries)
  BY <1>4, <1>5, Zenon DEF D
<1>7. Held(d) = Held(c)
  BY <1>5 DEF Held
<1>8. CacheOK(d)
  BY <1>5, <1>6, <1>7 DEF CacheOK
<1>9. QED
  BY <1>5, <1>8 DEF d
-----------------------------------------------------------------------------
(* A step that leaves the scopes and the charges of the others alone.      *)
LEMMA CacheStepInv ==
    ASSUME CacheInv, Agree(cache', budget'), SameOutside(budget, budget'),
           UNCHANGED <<scopes, result>>, unwinding' \in BOOLEAN
    PROVE  CacheInv'
<1>1. \A n \in TempNames : Charged(budget', n) <=> Charged(budget, n)
  BY CachePrefixAssumption DEF SameOutside, TempNames, OwnNames, Charged
<1>2. TempChargesScoped'
  BY <1>1, ScopesUntouched DEF CacheInv, IInv
<1>3. scopes' = scopes /\ result' = result
  OBVIOUS
<1>4. TypeOK'
  <2>1. budget' \in Ledgers
    BY DEF Agree, LedgerOK
  <2>2. scopes' \in Seq(Scopes) /\ result' \in Results
    BY <1>3 DEF CacheInv, IInv, TypeOK
  <2>3. QED
    BY <2>1, <2>2 DEF TypeOK
<1>5. QED
  BY <1>2, <1>4 DEF CacheInv, IInv, Agree

(* A step of a cache that does not know the ledger.                        *)
LEMMA PlainStepInv ==
    ASSUME CacheInv, cache.form = "plain", CacheOK(cache'), cache'.form = cache.form,
           UNCHANGED <<budget, scopes, unwinding, result>>
    PROVE  CacheInv'
<1>1. budget' = budget /\ unwinding' = unwinding
  OBVIOUS
<1>2. Matches(cache', budget')
  BY <1>1 DEF CacheInv, Matches
<1>3. LedgerOK(budget') /\ unwinding' \in BOOLEAN
  BY <1>1 DEF CacheInv, IInv, TypeOK
<1>4. SameOutside(budget, budget')
  BY <1>1 DEF SameOutside
<1>5. QED
  BY <1>2, <1>3, <1>4, CacheStepInv DEF Agree

(* An empty cache.                                                         *)
LEMMA EmptyOK ==
    ASSUME NEW form \in Forms, NEW capacity \in Nat
    PROVE  LET c == NewCache(form, capacity)
           IN  CacheOK(c) /\ c.form = form /\ c.capacity = capacity /\ DOMAIN c.entries = {}
<1> DEFINE c == NewCache(form, capacity)
<1>1. /\ c.form = form /\ c.capacity = capacity /\ c.used = 0 /\ c.lru = <<>>
      /\ DOMAIN c.entries = {}
  BY DEF NewCache
<1> HIDE DEF c
<1>2. Held(c) = {}
  BY <1>1 DEF Held, BytesOf
<1>3. IsFiniteSet(Held(c)) /\ Cardinality(Held(c)) = 0
  BY <1>2, FS_EmptySet
<1>4. LruExact(Keys, c.lru, DOMAIN c.entries)
  BY <1>1 DEF LruExact
<1>5. CacheOK(c)
  BY <1>1, <1>3, <1>4 DEF CacheOK
<1>6. QED
  BY <1>1, <1>5 DEF c

LEMMA CacheInitInv ==
    ASSUME CacheInit
    PROVE  CacheInv
<1>1. PICK form \in Forms, capacity \in 1..MaxU64 : cache = NewCache(form, capacity)
  BY DEF CacheInit
<1>2. CacheOK(cache) /\ DOMAIN cache.entries = {}
  BY <1>1, EmptyOK, MaxU64Assumption
<1>3. Init
  BY DEF CacheInit
<1>4. \A n \in Names : budget.allocations[n] = 0
  BY <1>3 DEF Init, NewLedger
<1>5. Matches(cache, budget)
  BY <1>2, <1>4, BudgetKeys DEF Matches, Cached
<1>6. QED
  BY <1>2, <1>3, <1>5, InitIInv DEF CacheInv

(* What insert_budgeted_with does once there is room.                      *)
LEMMA BuiltOK ==
    ASSUME CacheInv, NEW room, NEW ledger, Agree(room, ledger), SameOutside(budget, ledger),
           room.form = "budgeted", NEW key \in Keys, ~Cached(room, key),
           NEW size \in 0..MaxU64, FitsCapacity(room, size), NEW build,
           Built(room, ledger, key, size, build), UNCHANGED <<scopes, result>>
    PROVE  CacheInv'
<1> DEFINE n == BudgetKey(key)
           charged == Allocated(ledger, n, size)
           returned == Released(charged, n)
<1>1. /\ n \in Names /\ n[1] = CachePrefix
      /\ \A k \in Keys : BudgetKey(k) = n => k = key
      /\ \A k \in Keys : BudgetKey(k) \in Names
  BY BudgetKeys
<1>2. CacheOK(room) /\ LedgerOK(ledger) /\ Matches(room, ledger) /\ size \in Nat
  BY MaxU64Assumption DEF Agree
<1>3. unwinding \in BOOLEAN
  BY DEF CacheInv, IInv, TypeOK
<1>4. CASE /\ cache' = room
           /\ budget' = ledger
           /\ UNCHANGED unwinding
  BY <1>3, <1>4, CacheStepInv
<1>5. ASSUME AllocateResult(ledger, n, size) = "Ok"
      PROVE  /\ LedgerOK(charged) /\ LedgerOK(returned)
             /\ \A m \in Names : charged.allocations[m] = IF m = n THEN size ELSE ledger.allocations[m]
             /\ \A m \in Names : returned.allocations[m] = ledger.allocations[m]
  <2>1. LedgerOK(charged)
    BY <1>1, <1>2, <1>5, AllocatedOK
  <2>2. \A m \in Names : charged.allocations[m] = IF m = n THEN size ELSE ledger.allocations[m]
    BY <1>1, <1>2, LedgerParts DEF Allocated, Recharged
  <2>3. charged.allocations \in [Names -> 0..MaxU64]
    BY <2>1, LedgerParts
  <2>4. ledger.allocations[n] = 0
    BY <1>1, <1>2 DEF Matches, Cached
  <2> HIDE DEF charged
  <2>5. LedgerOK(returned)
    BY <1>1, <2>1, ReleasedOK
  <2>6. \A m \in Names : returned.allocations[m] = IF m = n THEN 0 ELSE charged.allocations[m]
    BY <1>1, <2>3 DEF Released
  <2>7. \A m \in Names : returned.allocations[m] = ledger.allocations[m]
    BY <2>2, <2>4, <2>6
  <2>8. QED
    BY <2>1, <2>2, <2>5, <2>7 DEF charged
<1>6. CASE /\ AllocateResult(ledger, n, size) = "Ok"
           /\ cache' = With(room, key, size)
           /\ budget' = charged
           /\ UNCHANGED unwinding
  <2>1. LedgerOK(budget')
        /\ \A m \in Names : budget'.allocations[m] = IF m = n THEN size ELSE ledger.allocations[m]
    BY <1>5, <1>6
  <2>2. /\ CacheOK(cache') /\ cache'.form = "budgeted"
        /\ DOMAIN cache'.entries = DOMAIN room.entries \cup {key}
        /\ cache'.entries[key] = size
        /\ \A k \in DOMAIN room.entries : cache'.entries[k] = room.entries[k]
    BY <1>2, <1>6, WithOK
  <2> HIDE DEF n
  <2>3. ASSUME NEW k \in Keys
        PROVE  budget'.allocations[BudgetKey(k)] =
                  IF cache'.form = "budgeted" /\ Cached(cache', k) THEN cache'.entries[k] ELSE 0
    <3>1. CASE k = key
      <4>1. budget'.allocations[BudgetKey(k)] = size /\ Cached(cache', k)
        BY <1>1, <2>1, <2>2, <3>1 DEF n, Cached
      <4>2. QED
        BY <2>2, <3>1, <4>1
    <3>2. CASE k # key
      <4>1. budget'.allocations[BudgetKey(k)] = ledger.allocations[BudgetKey(k)]
        BY <1>1, <2>1, <3>2
      <4>2. ledger.allocations[BudgetKey(k)] = IF Cached(room, k) THEN room.entries[k] ELSE 0
        BY <1>2 DEF Matches
      <4>3. Cached(cache', k) <=> Cached(room, k)
        BY <2>2, <3>2 DEF Cached
      <4>4. QED
        BY <2>2, <4>1, <4>2, <4>3 DEF Cached
    <3>3. QED
      BY <3>1, <3>2
  <2>4. SameOutside(budget, budget')
    BY <1>1, <2>1 DEF SameOutside
  <2>5. Agree(cache', budget')
    BY <2>1, <2>2, <2>3 DEF Agree, Matches
  <2>6. unwinding' \in BOOLEAN
    BY <1>3, <1>6
  <2>7. QED
    BY <2>4, <2>5, <2>6, CacheStepInv
<1>7. CASE /\ AllocateResult(ledger, n, size) = "Ok"
           /\ cache' = room
           /\ budget' = returned
           /\ unwinding' = (build = "panic" /\ scopes # <<>>)
  <2>1. LedgerOK(budget') /\ \A m \in Names : budget'.allocations[m] = ledger.allocations[m]
    BY <1>5, <1>7
  <2>2. Matches(cache', budget')
    BY <1>1, <1>2, <1>7, <2>1 DEF Matches, Cached
  <2>3. SameOutside(budget, budget')
    BY <2>1 DEF SameOutside
  <2>4. Agree(cache', budget')
    BY <1>2, <1>7, <2>1, <2>2 DEF Agree
  <2>5. unwinding' \in BOOLEAN
    BY <1>7, Zenon
  <2>6. QED
    BY <2>3, <2>4, <2>5, CacheStepInv
<1>8. QED
  BY <1>4, <1>6, <1>7, Zenon DEF Built

(* insert_budgeted_with whole.                                             *)
LEMMA InsertBudgetedInv ==
    ASSUME CacheInv, NEW key \in Keys, NEW size \in 0..MaxU64, NEW build,
           InsertBudgetedWith(key, size, build)
    PROVE  CacheInv'
<1>1. /\ CacheOK(cache) /\ LedgerOK(budget) /\ Matches(cache, budget)
      /\ Agree(cache, budget) /\ unwinding \in BOOLEAN
  BY DEF CacheInv, IInv, TypeOK, Agree
<1>2. cache.form = "budgeted" /\ UNCHANGED <<scopes, result>>
  BY DEF InsertBudgetedWith
<1>3. CASE size \notin 1..cache.capacity
  <2>1. cache' = cache /\ budget' = budget /\ unwinding' = unwinding
    BY <1>3 DEF InsertBudgetedWith
  <2>2. Agree(cache', budget') /\ SameOutside(budget, budget') /\ unwinding' \in BOOLEAN
    BY <1>1, <2>1 DEF SameOutside
  <2>3. QED
    BY <1>2, <2>2, CacheStepInv
<1>4. CASE size \in 1..cache.capacity
  <2> DEFINE open == Removed(cache, key)
             opened == Uncharged(budget, cache, {key})
             fitting(m) == Evicted(open, m)
             freed(m) == Uncharged(opened, open, Oldest(open.lru, m))
  <2>1. PICK m \in EvictionsForCapacity(open, size) :
           \E n \in EvictionsForBudget(fitting(m), freed(m), size) :
              Built(Evicted(fitting(m), n),
                    Uncharged(freed(m), fitting(m), Oldest(fitting(m).lru, n)),
                    key, size, build)
    BY <1>4 DEF InsertBudgetedWith
  <2>2. PICK n \in EvictionsForBudget(fitting(m), freed(m), size) :
              Built(Evicted(fitting(m), n),
                    Uncharged(freed(m), fitting(m), Oldest(fitting(m).lru, n)),
                    key, size, build)
    BY <2>1
  <2>3. /\ CacheOK(open) /\ open.form = "budgeted" /\ open.capacity = cache.capacity
        /\ ~Cached(open, key)
        /\ Agree(open, opened) /\ SameOutside(budget, opened)
    BY <1>1, <1>2, RemovedOK
  <2> HIDE DEF open, opened
  <2>4. size \in Nat /\ size <= open.capacity
    BY <1>1, <1>4, <2>3 DEF CacheOK
  <2>5. m \in 0..Len(open.lru) /\ FitsCapacity(Evicted(open, m), size)
    BY <2>3, <2>4, RoomMade
  <2> DEFINE fit == fitting(m)
             free == freed(m)
  <2>6. /\ CacheOK(fit) /\ fit.form = "budgeted" /\ fit.capacity = cache.capacity
        /\ DOMAIN fit.entries = DOMAIN open.entries \ Oldest(open.lru, m)
        /\ Agree(fit, free) /\ SameOutside(opened, free)
    BY <2>3, <2>5, EvictedOK
  <2>7. FitsCapacity(fit, size)
    BY <2>5
  <2>8. n \in 0..Len(fit.lru)
    BY <2>2 DEF EvictionsForBudget, EvictionCounts
  <2>9. Built(Evicted(fit, n), Uncharged(free, fit, Oldest(fit.lru, n)), key, size, build)
    BY <2>2
  <2> HIDE DEF fit, free
  <2> DEFINE room == Evicted(fit, n)
             ledger == Uncharged(free, fit, Oldest(fit.lru, n))
  <2>10. /\ CacheOK(room) /\ room.form = "budgeted" /\ room.capacity = fit.capacity
         /\ room.used <= fit.used
         /\ DOMAIN room.entries = DOMAIN fit.entries \ Oldest(fit.lru, n)
         /\ Agree(room, ledger) /\ SameOutside(free, ledger)
    BY <2>6, <2>8, EvictedOK
  <2>11. Built(room, ledger, key, size, build)
    BY <2>9
  <2> HIDE DEF room, ledger
  <2>12. FitsCapacity(room, size)
    BY <2>4, <2>6, <2>7, <2>10 DEF FitsCapacity, CacheOK
  <2>13. ~Cached(room, key)
    BY <2>3, <2>6, <2>10 DEF Cached
  <2>14. SameOutside(budget, ledger)
    BY <2>3, <2>6, <2>10 DEF SameOutside
  <2>15. QED
    BY <1>2, <2>10, <2>11, <2>12, <2>13, <2>14, BuiltOK
<1>5. QED
  BY <1>3, <1>4

(* Every step of the cache, and every step of the ledger's other users.    *)
LEMMA CacheNextInv == CacheInv /\ [CacheNext]_cacheVars => CacheInv'
<1> SUFFICES ASSUME CacheInv, [CacheNext]_cacheVars PROVE CacheInv'
  OBVIOUS
<1>1. /\ CacheOK(cache) /\ LedgerOK(budget) /\ Matches(cache, budget) /\ IInv
      /\ Agree(cache, budget) /\ unwinding \in BOOLEAN
      /\ cache.form \in Forms /\ cache.capacity \in Nat
  BY DEF CacheInv, IInv, TypeOK, Agree, CacheOK
<1>2. ASSUME OthersNext PROVE CacheInv'
  <2>1. IInv'
    BY <1>1, <1>2, NextIInv DEF OthersNext
  <2>2. cache' = cache /\ Matches(cache', budget')
    BY <1>1, <1>2 DEF OthersNext, Matches
  <2>3. QED
    BY <1>1, <2>1, <2>2 DEF CacheInv
<1>3. ASSUME NEW key \in Keys, Lookup(key) PROVE CacheInv'
  <2>1. /\ budget' = budget /\ UNCHANGED <<scopes, result>> /\ unwinding' \in BOOLEAN
        /\ CacheOK(cache') /\ cache'.form = cache.form /\ cache'.entries = cache.entries
    <3>1. CASE Cached(cache, key)
      BY <1>1, <1>3, <3>1, TouchedOK DEF Lookup
    <3>2. CASE ~Cached(cache, key)
      BY <1>1, <1>3, <3>2 DEF Lookup
    <3>3. QED
      BY <3>1, <3>2
  <2>2. Matches(cache', budget')
    BY <1>1, <2>1 DEF Matches, Cached
  <2>3. Agree(cache', budget') /\ SameOutside(budget, budget')
    BY <1>1, <2>1, <2>2 DEF Agree, SameOutside
  <2>4. QED
    BY <2>1, <2>3, CacheStepInv
<1>4. ASSUME NEW key \in Keys, RemovePlain(key) PROVE CacheInv'
  <2>1. CacheOK(cache') /\ cache'.form = cache.form
    BY <1>1, <1>4, RemovedOK DEF RemovePlain
  <2>2. cache.form = "plain" /\ UNCHANGED <<budget, scopes, unwinding, result>>
    BY <1>4 DEF RemovePlain
  <2>3. QED
    BY <2>1, <2>2, PlainStepInv
<1>5. ASSUME NEW key \in Keys, RemoveBudgeted(key) PROVE CacheInv'
  <2>1. /\ cache.form = "budgeted" /\ UNCHANGED <<scopes, unwinding, result>>
        /\ cache' = Removed(cache, key) /\ budget' = Uncharged(budget, cache, {key})
    BY <1>5 DEF RemoveBudgeted
  <2>2. Agree(cache', budget') /\ SameOutside(budget, budget')
    BY <1>1, <2>1, RemovedOK
  <2>3. UNCHANGED <<scopes, result>> /\ unwinding' \in BOOLEAN
    BY <1>1, <2>1
  <2>4. QED
    BY <2>2, <2>3, CacheStepInv
<1>6. ASSUME NEW key \in Keys, NEW size \in 0..MaxU64, Insert(key, size) PROVE CacheInv'
  <2>1. cache.form = "plain" /\ UNCHANGED <<budget, scopes, unwinding, result>>
    BY <1>6 DEF Insert
  <2>2. CacheOK(cache') /\ cache'.form = cache.form
    <3>1. CASE size > cache.capacity
      BY <1>1, <1>6, <3>1 DEF Insert
    <3>2. CASE ~(size > cache.capacity)
      <4> DEFINE open == Removed(cache, key)
      <4>1. PICK n \in EvictionsForCapacity(open, size) :
               cache' = With(Evicted(open, n), key, size)
        BY <1>6, <3>2 DEF Insert
      <4>2. /\ CacheOK(open) /\ open.form = cache.form /\ open.capacity = cache.capacity
            /\ ~Cached(open, key)
        BY <1>1, RemovedOK
      <4> HIDE DEF open
      <4>3. size \in Nat /\ size <= open.capacity
        BY <1>1, <3>2, <4>2, MaxU64Assumption
      <4>4. n \in 0..Len(open.lru) /\ FitsCapacity(Evicted(open, n), size)
        BY <4>2, <4>3, RoomMade
      <4> DEFINE room == Evicted(open, n)
      <4>5. /\ CacheOK(room) /\ room.form = open.form
            /\ DOMAIN room.entries = DOMAIN open.entries \ Oldest(open.lru, n)
        BY <4>2, <4>4, EvictedOK
      <4>6. FitsCapacity(room, size) /\ cache' = With(room, key, size)
        BY <4>1, <4>4
      <4> HIDE DEF room
      <4>7. ~Cached(room, key)
        BY <4>2, <4>5 DEF Cached
      <4>8. CacheOK(cache') /\ cache'.form = room.form
        BY <4>3, <4>5, <4>6, <4>7, WithOK
      <4>9. QED
        BY <4>2, <4>5, <4>8
    <3>3. QED
      BY <3>1, <3>2
  <2>3. QED
    BY <2>1, <2>2, PlainStepInv
<1>7. ASSUME NEW key \in Keys, NEW size \in 0..MaxU64, NEW build \in Builds,
             GetTensor(key, size, build)
      PROVE  CacheInv'
  BY <1>3, <1>7, InsertBudgetedInv DEF GetTensor
<1>8. ASSUME Clear PROVE CacheInv'
  <2>1. CacheOK(cache') /\ cache'.form = cache.form
    BY <1>1, <1>8, EmptyOK DEF Clear, Emptied
  <2>2. cache.form = "plain" /\ UNCHANGED <<budget, scopes, unwinding, result>>
    BY <1>8 DEF Clear
  <2>3. QED
    BY <2>1, <2>2, PlainStepInv
<1>9. ASSUME ClearBudgeted PROVE CacheInv'
  <2>1. /\ cache.form = "budgeted" /\ UNCHANGED <<scopes, unwinding, result>>
        /\ cache' = Emptied(cache)
        /\ budget' = Uncharged(budget, cache, DOMAIN cache.entries)
    BY <1>9 DEF ClearBudgeted
  <2>2. /\ CacheOK(cache') /\ cache'.form = cache.form
        /\ DOMAIN cache'.entries = {}
    BY <1>1, <2>1, EmptyOK DEF Emptied
  <2> DEFINE keys == DOMAIN cache.entries
  <2>3. DOMAIN cache'.entries = DOMAIN cache.entries \ keys
    BY <2>2
  <2>4. \A key \in DOMAIN cache'.entries : cache'.entries[key] = cache.entries[key]
    BY <2>2
  <2>5. budget' = Uncharged(budget, cache, keys)
    BY <2>1
  <2> HIDE DEF keys
  <2>6. Agree(cache', budget') /\ SameOutside(budget, budget')
    BY <1>1, <2>1, <2>2, <2>3, <2>4, <2>5, UnchargedOK
  <2>7. UNCHANGED <<scopes, result>> /\ unwinding' \in BOOLEAN
    BY <1>1, <2>1
  <2>8. QED
    BY <2>6, <2>7, CacheStepInv
<1>10. ASSUME UNCHANGED cacheVars PROVE CacheInv'
  <2>1. /\ cache' = cache /\ budget' = budget /\ scopes' = scopes /\ result' = result
        /\ unwinding' = unwinding
    BY <1>10 DEF cacheVars
  <2>2. Agree(cache', budget') /\ SameOutside(budget, budget') /\ unwinding' \in BOOLEAN
    BY <1>1, <2>1 DEF SameOutside
  <2>3. QED
    BY <2>1, <2>2, CacheStepInv
<1>11. QED
  BY <1>2, <1>3, <1>4, <1>5, <1>6, <1>7, <1>8, <1>9, <1>10, InsertBudgetedInv, Zenon DEF CacheNext

LEMMA CacheSpecInv == CacheSpec => []CacheInv
<1>1. CacheInit => CacheInv
  BY CacheInitInv
<1>2. CacheInv /\ [CacheNext]_cacheVars => CacheInv'
  BY CacheNextInv
<1>3. QED
  BY <1>1, <1>2, PTL DEF CacheSpec

(* The cache's entries, recency list and byte count and the ledger's       *)
(* charges agree after any inserts, builders that fail or panic, evictions *)
(* and clears (cache.rs), whatever the ledger's other users do meanwhile.  *)
THEOREM CacheChargesMatchTheorem == CacheSpec => []CacheChargesMatch
<1>1. CacheInv => CacheChargesMatch
  <2> SUFFICES ASSUME CacheInv PROVE CacheChargesMatch
    OBVIOUS
  <2>1. CacheOK(cache) /\ Matches(cache, budget) /\ LruExact(Keys, cache.lru, DOMAIN cache.entries)
    BY DEF CacheInv, CacheOK
  <2>2. {cache.lru[i] : i \in 1..Len(cache.lru)} = DOMAIN cache.entries
    BY <2>1 DEF LruExact
  <2>3. Len(cache.lru) = Cardinality(DOMAIN cache.entries)
    BY <2>1, ListLength
  <2>4. cache.used = TotalSize(cache.entries) /\ cache.used <= cache.capacity
    BY <2>1 DEF CacheOK, Held, TotalSize, BytesOf
  <2>5. QED
    BY <2>1, <2>2, <2>3, <2>4 DEF CacheChargesMatch, Matches
<1>2. QED
  BY <1>1, CacheSpecInv, PTL

(* The ledger itself stays sound while the cache charges it: the sum of    *)
(* its charges is exact and within the budget, and every charge of a       *)
(* with_temp scope is released however the scopes and builders end.        *)
THEOREM SharedLedgerTheorem ==
    CacheSpec => [](LedgerBalanced /\ WithinBudget /\ TempChargesScoped)
<1>1. CacheInv => LedgerBalanced /\ WithinBudget /\ TempChargesScoped
  BY LedgerParts DEF CacheInv, IInv, LedgerOK, LedgerBalanced, WithinBudget
<1>2. QED
  BY <1>1, CacheSpecInv, PTL

-----------------------------------------------------------------------------
(* The measurements.                                                       *)
\* The sum of a finite set of numbers.
LEMMA SumSetIsSum ==
    ASSUME NEW S \in SUBSET Nat, IsFiniteSet(S)
    PROVE  SumSet(S) \in Nat /\ (S = {} => SumSet(S) = 0)
<1> DEFINE f == [x \in S |-> x]
<1>1. SumSet(S) = (CHOOSE h : Sums(h, f, S))[S]
  <2>1. SumSet(S) = (CHOOSE h : h = [s \in SUBSET S |-> IF s = {} THEN 0
                                      ELSE LET x == CHOOSE x \in s : TRUE IN x + h[s \ {x}]])[S]
    BY DEF SumSet, FoldSet, MapThenFoldSet
  <2>2. \A s \in SUBSET S : s # {} => f[CHOOSE x \in s : TRUE] = CHOOSE x \in s : TRUE
    OBVIOUS
  <2>3. ASSUME NEW h
        PROVE  h = [s \in SUBSET S |-> IF s = {} THEN 0 ELSE LET x == CHOOSE x \in s : TRUE IN x + h[s \ {x}]]
               <=> Sums(h, f, S)
    <3> HIDE DEF f
    <3> QED BY <2>2 DEF Sums
  <2> QED BY <2>1, <2>3
<1>2. SumSet(S) = SumOver(f, S)
  BY <1>1, SumIsFold
<1>3. \A x \in S : f[x] \in Nat
  OBVIOUS
<1> HIDE DEF f
<1> QED BY <1>2, <1>3, SumNat, SumEmpty

\* The resident pages of the mappings.
LEMMA ResidentTyped ==
    ASSUME NEW pages \in [Mappings -> Nat]
    PROVE  ResidentIn(pages) \in Nat
<1>1. IsFiniteSet(Mappings) /\ \A m \in Mappings : pages[m] \in Nat
  BY MappingsAssumption
<1>2. ResidentIn(pages) = (CHOOSE h : Sums(h, pages, Mappings))[Mappings]
  BY DEF ResidentIn, MapThenSumSet, MapThenFoldSet, Sums
<1>3. ResidentIn(pages) = SumOver(pages, Mappings)
  BY <1>2, SumIsFold
<1> QED BY <1>1, <1>3, SumNat

\* What smaps says of a path.
LEMMA SmapsTyped ==
    ASSUME resident \in [Mappings -> Nat], NEW path
    PROVE  ParseSmaps(path).rss \in Nat /\ ParseSmaps(path).pss \in Nat
<1> DEFINE M == {m \in Mappings : m.path = path}
           g == [m \in M |-> resident[m] \div m.sharers]
<1>1. IsFiniteSet(M)
  BY MappingsAssumption, FS_Subset
<1>2. \A m \in M : resident[m] \in Nat /\ m.sharers \in Nat \ {0}
  BY MappingsAssumption
<1>3. \A m \in M : g[m] = resident[m] \div m.sharers /\ g[m] \in Nat
  BY <1>2
<1>4. ParseSmaps(path).rss = SumOver(resident, M)
  <2>1. ParseSmaps(path).rss = (CHOOSE h : Sums(h, resident, M))[M]
    BY DEF ParseSmaps, MapThenSumSet, MapThenFoldSet, Sums
  <2> HIDE DEF M
  <2> QED BY <2>1, SumIsFold
<1>5. ParseSmaps(path).pss = MapThenSumSet(LAMBDA m : resident[m] \div m.sharers, M)
  BY DEF ParseSmaps
<1>6. MapThenSumSet(LAMBDA m : resident[m] \div m.sharers, M) = SumOver(g, M)
  <2>1. MapThenSumSet(LAMBDA m : resident[m] \div m.sharers, M)
          = (CHOOSE h : h = [s \in SUBSET M |-> IF s = {} THEN 0
                               ELSE LET m == CHOOSE m \in s : TRUE
                                    IN  (resident[m] \div m.sharers) + h[s \ {m}]])[M]
    BY DEF MapThenSumSet, MapThenFoldSet
  <2>2. \A s \in SUBSET M : s # {} => (CHOOSE m \in s : TRUE) \in M
    OBVIOUS
  <2>3. ASSUME NEW h
        PROVE  h = [s \in SUBSET M |-> IF s = {} THEN 0
                      ELSE LET m == CHOOSE m \in s : TRUE IN (resident[m] \div m.sharers) + h[s \ {m}]]
               <=> Sums(h, g, M)
    <3>1. \A s \in SUBSET M : s # {} =>
             g[CHOOSE m \in s : TRUE] = resident[CHOOSE m \in s : TRUE] \div (CHOOSE m \in s : TRUE).sharers
      BY <1>3, <2>2
    <3> HIDE DEF g, M
    <3> QED BY <3>1 DEF Sums
  <2>4. MapThenSumSet(LAMBDA m : resident[m] \div m.sharers, M) = (CHOOSE h : Sums(h, g, M))[M]
    BY <2>1, <2>3
  <2> HIDE DEF g, M
  <2> QED BY <2>4, SumIsFold
<1> HIDE DEF M, g
<1> QED BY <1>1, <1>2, <1>3, <1>4, <1>5, <1>6, SumNat

\* The step of a fold over D, its greatest element last, keeps within A.
StaysIn(H, A, D) ==
    /\ D \subseteq Nat
    /\ \A s \in SUBSET D : s # {} /\ Max(s) \in s /\ H[s \ {Max(s)}] \in A => H[s] \in A

\* Where a fold over a set of numbers starts and stays, it ends.
LEMMA FoldStays ==
    ASSUME NEW D, IsFiniteSet(D), NEW A, NEW H, H[{}] \in A, StaysIn(H, A, D)
    PROVE  \A s \in SUBSET D : H[s] \in A
<1> DEFINE T == {s \in SUBSET D : H[s] \notin A}
<1> SUFFICES ASSUME T # {} PROVE FALSE
  OBVIOUS
<1>1. T \subseteq SUBSET D
  OBVIOUS
<1>2. D \subseteq Nat /\ \A s \in SUBSET D : s # {} /\ Max(s) \in s /\ H[s \ {Max(s)}] \in A => H[s] \in A
  BY DEF StaysIn
<1>3. \A s \in SUBSET D : s \in T <=> H[s] \notin A
  OBVIOUS
<1> HIDE DEF T
<1>4. PICK t \in T : \A u \in T : u \subseteq t => u = t
  BY <1>1, SmallestSet
<1>5. t # {} /\ t \in SUBSET D
  BY <1>1, <1>3, <1>4
<1>6. t \subseteq Nat /\ IsFiniteSet(t)
  BY <1>2, <1>5, FS_Subset
<1>7. Max(t) \in t
  BY <1>5, <1>6, GreatestOf
<1>8. t \ {Max(t)} \in SUBSET D /\ t \ {Max(t)} \notin T
  BY <1>4, <1>5, <1>7
<1> QED BY <1>2, <1>3, <1>4, <1>5, <1>7, <1>8

\* The greatest of some of the numbers up to n is one of them.
LEMMA GreatestIn ==
    ASSUME NEW n \in Nat, NEW s \in SUBSET (1..n), s # {}
    PROVE  Max(s) \in s
<1> DEFINE D == 1..n
<1>1. IsFiniteSet(D) /\ D \subseteq Nat /\ s \subseteq D
  BY FS_Interval
<1> HIDE DEF D
<1>2. s \subseteq Nat /\ IsFiniteSet(s)
  BY <1>1, FS_Subset
<1> QED BY <1>2, GreatestOf

\* What the shards that answer add up to: a number if one does.
LEMMA ShardResidencyFacts ==
    ASSUME resident \in [Mappings -> Nat], readable.paths \subseteq Range(ShardPaths),
           NEW field \in {"rss", "pss"}
    PROVE  /\ ShardResidency(field) # {} <=> readable.smaps /\ readable.paths # {}
           /\ \/ ShardResidency(field) = {}
              \/ \E total \in Nat : ShardResidency(field) = {total}
<1> DEFINE n == Len(ShardPaths)
           D == 1..n
           answers == [i \in DOMAIN ShardPaths |-> ModelMappingResidency(ShardPaths[i])]
           part == [i \in D |-> SumSet({r[field] : r \in answers[i]})]
           step == [x \in Nat \X D |-> SaturatingAdd(x[1], part[x[2]])]
           Runs(h) == h = [s \in SUBSET D |-> IF s = {} THEN 0
                             ELSE SaturatingAdd(h[s \ {Max(s)}], SumSet({r[field] : r \in answers[Max(s)]}))]
           H == CHOOSE h : Runs(h)
<1>1. n \in Nat /\ DOMAIN ShardPaths = D
  BY MappingsAssumption, LenProperties
<1>2. (\A i \in D : answers[i] = {}) <=> ~(readable.smaps /\ readable.paths # {})
  <2>1. Range(ShardPaths) = {ShardPaths[i] : i \in D}
    BY <1>1 DEF Range
  <2>2. \A i \in D : answers[i] = {} <=> ~(readable.smaps /\ ShardPaths[i] \in readable.paths)
    BY <1>1 DEF ModelMappingResidency
  <2>3. (\E i \in D : ShardPaths[i] \in readable.paths) <=> readable.paths # {}
    BY <2>1
  <2> QED BY <2>2, <2>3
<1>3. \A i \in D : part[i] \in Nat
  <2> TAKE i \in D
  <2>1. answers[i] = {} \/ answers[i] = {ParseSmaps(ShardPaths[i])}
    BY <1>1 DEF ModelMappingResidency
  <2>2. ParseSmaps(ShardPaths[i])[field] \in Nat
    <3>1. ParseSmaps(ShardPaths[i]).rss \in Nat /\ ParseSmaps(ShardPaths[i]).pss \in Nat
      BY SmapsTyped
    <3> QED BY <3>1
  <2>3. \/ {r[field] : r \in answers[i]} = {}
        \/ {r[field] : r \in answers[i]} = {ParseSmaps(ShardPaths[i])[field]}
    BY <2>1
  <2>4. {r[field] : r \in answers[i]} \in SUBSET Nat
    BY <2>2, <2>3
  <2>5. IsFiniteSet({r[field] : r \in answers[i]})
    <3> DEFINE R == {r[field] : r \in answers[i]}
               v == ParseSmaps(ShardPaths[i])[field]
    <3>1. R = {} \/ R = {v}
      BY <2>3
    <3> HIDE DEF R, v
    <3>2. IsFiniteSet({v}) /\ IsFiniteSet({})
      BY FS_EmptySet, FS_Singleton
    <3>3. IsFiniteSet(R)
      BY <3>1, <3>2
    <3> QED BY <3>3 DEF R
  <2> QED BY <2>4, <2>5, SumSetIsSum
<1>4. step \in [Nat \X D -> Nat]
  <2> HIDE DEF part
  <2>1. \A a \in Nat, i \in D : SaturatingAdd(a, part[i]) \in Nat
    BY <1>3, MappingsAssumption DEF SaturatingAdd
  <2> QED BY <2>1
<1>5. \A a \in Nat, i \in D : step[<<a, i>>] = SaturatingAdd(a, SumSet({r[field] : r \in answers[i]}))
  OBVIOUS
<1> HIDE DEF step, part
<1>6. PICK g \in [SUBSET D -> Nat] : StepsBy(g, step, 0, n)
  <2> HIDE DEF n
  <2> QED BY <1>1, <1>4, FoldRuns
<1>7. Runs(g)
  <2>1. \A s \in SUBSET D : s # {} => Max(s) \in D /\ g[s \ {Max(s)}] \in Nat
    <3> SUFFICES ASSUME NEW s \in SUBSET D, s # {} PROVE Max(s) \in s
      OBVIOUS
    <3> QED BY <1>1, GreatestIn
  <2>2. \A s \in SUBSET D : s # {} =>
           step[<<g[s \ {Max(s)}], Max(s)>>]
             = SaturatingAdd(g[s \ {Max(s)}], SumSet({r[field] : r \in answers[Max(s)]}))
    <3> HIDE DEF D, answers
    <3> QED BY <1>5, <2>1
  <2> QED BY <1>6, <2>2 DEF StepsBy
<1>8. Runs(H)
  <2> HIDE DEF Runs
  <2> QED BY <1>7
<1> HIDE DEF H
<1>9. H[D] \in Nat
  <2>1. H[{}] = 0
    BY <1>8
  <2>2. \A s \in SUBSET D : s # {} /\ Max(s) \in s /\ H[s \ {Max(s)}] \in Nat => H[s] \in Nat
    <3> TAKE s \in SUBSET D
    <3> HAVE s # {} /\ Max(s) \in s /\ H[s \ {Max(s)}] \in Nat
    <3>1. H[s] = SaturatingAdd(H[s \ {Max(s)}], SumSet({r[field] : r \in answers[Max(s)]}))
      <4> HIDE DEF D, answers
      <4> QED BY <1>8
    <3>2. H[s] = SaturatingAdd(H[s \ {Max(s)}], part[Max(s)]) /\ part[Max(s)] \in Nat
      BY <1>3, <3>1 DEF part
    <3>3. \A a, b \in Nat : SaturatingAdd(a, b) \in Nat
      BY MappingsAssumption DEF SaturatingAdd
    <3> DEFINE before == H[s \ {Max(s)}]
               next == part[Max(s)]
    <3>4. before \in Nat /\ next \in Nat /\ H[s] = SaturatingAdd(before, next)
      BY <3>2
    <3> HIDE DEF D, part, before, next, Runs, answers
    <3>5. SaturatingAdd(before, next) \in Nat
      BY <3>3, <3>4
    <3> QED BY <3>4, <3>5
  <2>3. \A s \in SUBSET D : H[s] \in Nat
    <3>1. IsFiniteSet(D) /\ D \subseteq Nat
      BY <1>1, FS_Interval
    <3>2. H[{}] \in Nat
      BY <2>1
    <3> HIDE DEF n, D
    <3> QED BY <2>2, <3>1, <3>2, FoldStays DEF StaysIn
  <2> QED BY <2>3
<1> USE DEF H
<1>10. ShardResidency(field) = IF \A i \in DOMAIN answers : answers[i] = {} THEN {} ELSE {H[D]}
  BY <1>1 DEF ShardResidency, FoldLeft, MapThenFoldSet
<1> QED BY <1>1, <1>2, <1>9, <1>10
\* What the kernel holds, and the most the process ever had.
KernelHeld ==
    /\ resident \in [Mappings -> Nat] /\ anonymous \in Nat
    /\ DOMAIN highWater = {"rss", "cgroup"} /\ highWater.rss \in Nat /\ Rss <= highWater.rss
    /\ highWater.cgroup \in Nat /\ Rss <= highWater.cgroup

\* The sources and the case of this run.
RunTyped ==
    /\ readable.paths \subseteq Range(ShardPaths) /\ readable.status \in BOOLEAN
    /\ facts \in LedgerCases

\* Readings of the process: none is above what it ever had.
Reached(readings, mark) == \A rss \in readings : rss \in Nat /\ rss <= mark

\* How many readings there are at each stage; the last one is a peak.
RssReadings ==
    /\ DOMAIN rssAt = 1..Len(rssAt) /\ Len(rssAt) \in Nat
    /\ \A i \in 1..3 : i <= Len(rssAt) => Reached(rssAt[i], highWater.rss)
    /\ stage = "beforeLoad" => Len(rssAt) = 0
    /\ stage = "afterLoad" => Len(rssAt) = 1
    /\ stage \in {"admit", "decoded"} => Len(rssAt) = 2
    /\ stage \in {"shard", "cgroupPeak", "cgroupCurrent", "rss", "peak", "report"} => Len(rssAt) = 3
    /\ Len(rssAt) = 4 => \A peak \in rssAt[4], i \in 1..3 : \A rss \in rssAt[i] : rss <= peak

\* The mappings answer for some shard.
MapsReadable == readable.smaps /\ readable.paths # {}

\* The snapshot in progress holds what was read so far.
CaptureHeld ==
    /\ DOMAIN capture = DOMAIN NoSnapshot
    /\ Reached(capture.rss, highWater.rss)
    /\ stage \in {"cgroupPeak", "cgroupCurrent", "rss", "peak"} =>
          (capture.mappingRss # {} <=> MapsReadable)
    /\ stage \in {"rss", "peak"} => (capture.cgroupCurrent # {} <=> readable.cgroup)
    /\ stage = "peak" => (capture.rss # {} <=> readable.status)

\* What a snapshot shows was read, and its peak after its reading.
Shown(snapshot) ==
    /\ \A rss \in snapshot.rss, peak \in snapshot.peak : rss <= peak
    /\ snapshot.mappingRss # {} <=> MapsReadable
    /\ snapshot.cgroupCurrent # {} <=> readable.cgroup
    /\ snapshot.rss # {} <=> readable.status

\* Every snapshot taken.
CapturedHeld ==
    /\ DOMAIN captured = 1..Len(captured) /\ Len(captured) \in Nat
    /\ \A i \in DOMAIN captured : Shown(captured[i])

\* A figure of the cgroup is covered by its high-water mark, and by the peaks
\* that are read after it.
CgroupCovered ==
    /\ Reached(capture.cgroupCurrent, highWater.cgroup)
    /\ \A i \in DOMAIN captured : Reached(captured[i].cgroupCurrent, highWater.cgroup)
    /\ \A i \in DOMAIN captured :
         \A current \in captured[i].cgroupCurrent, peak \in capture.cgroupPeak : current <= peak
    /\ \A j \in DOMAIN captured : \A i \in 1..(j - 1) :
         \A current \in captured[i].cgroupCurrent, peak \in captured[j].cgroupPeak : current <= peak

\* The inductive invariant of the measurements.
MeasuredInv ==
    KernelHeld /\ RunTyped /\ RssReadings /\ CaptureHeld /\ CapturedHeld /\ CgroupCovered /\ AdmittedFits

\* Before anything is read the invariant holds.
LEMMA MeasuredInit == LedgerInit => MeasuredInv
<1> SUFFICES ASSUME LedgerInit PROVE MeasuredInv
  OBVIOUS
<1>1. /\ resident = [m \in Mappings |-> 0] /\ anonymous \in AnonPages
      /\ highWater = [rss |-> anonymous, cgroup |-> anonymous]
      /\ readable \in Sources /\ facts \in LedgerCases /\ stage = "beforeLoad" /\ rssAt = <<>>
      /\ admission = NoAdmission /\ capture = NoSnapshot /\ captured = <<>>
  BY DEF LedgerInit, LedgerStart
<1>2. ResidentIn(resident) = 0
  <2>1. ResidentIn(resident) = (CHOOSE h : Sums(h, resident, Mappings))[Mappings]
    BY DEF ResidentIn, MapThenSumSet, MapThenFoldSet, Sums
  <2>2. ResidentIn(resident) = SumOver(resident, Mappings)
    BY <2>1, SumIsFold
  <2>3. IsFiniteSet(Mappings) /\ \A m \in Mappings : resident[m] \in Int /\ resident[m] = 0 + 0
    BY <1>1, MappingsAssumption
  <2>4. SumOver(resident, Mappings) = SumOver(resident, Mappings) + SumOver(resident, Mappings)
    BY <1>1, <2>3, SumPlus
  <2> QED BY <2>2, <2>3, <2>4, SumInt
<1>3. KernelHeld
  BY <1>1, <1>2, MappingsAssumption DEF KernelHeld, Rss
<1>4. RunTyped
  BY <1>1 DEF RunTyped, Sources
<1>5. RssReadings
  BY <1>1 DEF RssReadings
<1>6. CaptureHeld
  BY <1>1 DEF CaptureHeld, NoSnapshot, Reached
<1>7. CapturedHeld /\ CgroupCovered
  BY <1>1 DEF CapturedHeld, CgroupCovered, NoSnapshot, Reached
<1> QED BY <1>1, <1>3, <1>4, <1>5, <1>6, <1>7 DEF MeasuredInv, AdmittedFits

\* The readings stay below a mark that rises.
LEMMA MarkRises ==
    ASSUME NEW a \in Nat, NEW b \in Nat, a <= b, NEW readings, Reached(readings, a)
    PROVE  Reached(readings, b)
BY DEF Reached

\* The kernel moves pages and memory, and the high-water marks follow.
LEMMA KernelStep ==
    ASSUME MeasuredInv, KernelMovesPages PROVE MeasuredInv'
<1>1. /\ KernelHeld /\ RunTyped /\ RssReadings /\ CaptureHeld /\ CapturedHeld /\ CgroupCovered
      /\ AdmittedFits
      /\ UNCHANGED <<readable, facts, stage, rssAt, admission, capture, captured>>
  BY DEF MeasuredInv, KernelMovesPages
<1>2. resident' \in [Mappings -> Nat] /\ anonymous' \in Nat
  <2>1. CASE \E m \in Mappings, n \in {-1, 1} :
                 /\ resident[m] + n \in 0..m.pages
                 /\ resident' = [resident EXCEPT ![m] = @ + n] /\ UNCHANGED anonymous
    <3>1. PICK m \in Mappings, n \in {-1, 1} :
                 /\ resident[m] + n \in 0..m.pages
                 /\ resident' = [resident EXCEPT ![m] = @ + n] /\ UNCHANGED anonymous
      BY <2>1
    <3>2. resident[m] + n \in Nat
      BY <3>1, MappingsAssumption
    <3> QED BY <1>1, <3>1, <3>2 DEF KernelHeld
  <2>2. CASE anonymous' \in AnonPages \ {anonymous} /\ UNCHANGED resident
    BY <1>1, <2>2, MappingsAssumption DEF KernelHeld
  <2> QED BY <2>1, <2>2 DEF KernelMovesPages
<1> DEFINE now == ResidentIn(resident') + anonymous'
<1>3. now \in Nat
  BY <1>2, ResidentTyped
<1>4. /\ highWater' = [rss |-> IF now > highWater.rss THEN now ELSE highWater.rss,
                       cgroup |-> IF now > highWater.cgroup THEN now ELSE highWater.cgroup]
      /\ Rss' = now
  BY DEF KernelMovesPages, Rss
<1>5. /\ highWater.rss \in Nat /\ highWater'.rss \in Nat /\ highWater.rss <= highWater'.rss
      /\ now <= highWater'.rss /\ DOMAIN highWater' = {"rss", "cgroup"}
  <2>1. highWater.rss \in Nat
    BY <1>1 DEF KernelHeld
  <2> HIDE DEF now
  <2> QED BY <1>3, <1>4, <2>1
<1>12. /\ highWater.cgroup \in Nat /\ highWater'.cgroup \in Nat /\ highWater.cgroup <= highWater'.cgroup
       /\ now <= highWater'.cgroup
  <2>1. highWater.cgroup \in Nat
    BY <1>1 DEF KernelHeld
  <2> HIDE DEF now
  <2> QED BY <1>3, <1>4, <2>1
<1>6. KernelHeld'
  BY <1>2, <1>4, <1>5, <1>12 DEF KernelHeld
<1>13. CgroupCovered'
  <2>1. Reached(capture.cgroupCurrent, highWater'.cgroup)
    BY <1>1, <1>12, MarkRises DEF CgroupCovered
  <2>2. \A i \in DOMAIN captured : Reached(captured[i].cgroupCurrent, highWater'.cgroup)
    BY <1>1, <1>12, MarkRises DEF CgroupCovered
  <2> QED BY <1>1, <2>1, <2>2 DEF CgroupCovered
<1>7. RunTyped'
  BY <1>1 DEF RunTyped
<1>8. RssReadings'
  <2>1. \A i \in 1..3 : i <= Len(rssAt) => Reached(rssAt[i], highWater'.rss)
    BY <1>1, <1>5, MarkRises DEF RssReadings
  <2> QED BY <1>1, <2>1 DEF RssReadings
<1>9. CaptureHeld'
  <2>1. Reached(capture.rss, highWater'.rss)
    BY <1>1, <1>5, MarkRises DEF CaptureHeld
  <2> QED BY <1>1, <2>1 DEF CaptureHeld, MapsReadable
<1>10. CapturedHeld'
  BY <1>1 DEF CapturedHeld, Shown, MapsReadable
<1>11. AdmittedFits'
  BY <1>1 DEF AdmittedFits
<1> QED BY <1>6, <1>7, <1>8, <1>9, <1>10, <1>11, <1>13 DEF MeasuredInv

\* A reading of the process is a number it reached.
LEMMA RssReached ==
    ASSUME KernelHeld
    PROVE  /\ Rss \in Nat /\ Rss <= highWater.rss /\ Rss <= highWater.cgroup
           /\ Reached(ProcessRss, highWater.rss) /\ Reached({}, highWater.rss)
           /\ readable.status \in BOOLEAN => (ProcessRss # {} <=> readable.status)
<1>1. Rss \in Nat
  BY ResidentTyped DEF KernelHeld, Rss
<1> QED BY <1>1 DEF KernelHeld, ProcessRss, Reached

\* A reading of the process between the stages.
LEMMA ReadRssStep ==
    ASSUME MeasuredInv, RssBeforeLoad \/ RssAfterLoad \/ RssAfterDecode PROVE MeasuredInv'
<1>1. /\ KernelHeld /\ RunTyped /\ RssReadings /\ CaptureHeld /\ CapturedHeld /\ CgroupCovered
      /\ AdmittedFits
      /\ UNCHANGED <<kernelState, readable, facts, admission, capture, captured>>
      /\ rssAt' = Append(rssAt, ProcessRss)
      /\ \/ stage = "beforeLoad" /\ stage' = "afterLoad"
         \/ stage = "afterLoad" /\ stage' = "admit"
         \/ stage = "decoded" /\ stage' = "shard"
  BY DEF MeasuredInv, RssBeforeLoad, RssAfterLoad, RssAfterDecode, ReadRss
<1>2. /\ resident' = resident /\ anonymous' = anonymous /\ highWater' = highWater
  BY <1>1 DEF kernelState
<1>3. KernelHeld' /\ RunTyped' /\ CapturedHeld' /\ AdmittedFits'
  BY <1>1, <1>2 DEF KernelHeld, RunTyped, CapturedHeld, Shown, MapsReadable, AdmittedFits, Rss
<1>6. CgroupCovered'
  BY <1>1, <1>2 DEF CgroupCovered
<1>4. RssReadings'
  <2> DEFINE k == Len(rssAt)
  <2>1. /\ DOMAIN rssAt = 1..k /\ k \in Nat /\ k \in {0, 1, 2}
        /\ stage' = "afterLoad" => k = 0
        /\ stage' = "admit" => k = 1
        /\ stage' = "shard" => k = 2
    BY <1>1 DEF RssReadings
  <2>2. /\ Len(rssAt') = k + 1 /\ DOMAIN rssAt' = 1..(k + 1)
        /\ rssAt'[k + 1] = ProcessRss /\ \A i \in 1..k : rssAt'[i] = rssAt[i]
    BY <1>1, <2>1, AppendSeen
  <2>3. Reached(ProcessRss, highWater.rss)
    BY <1>1, RssReached
  <2>4. \A i \in 1..3 : i <= k => Reached(rssAt[i], highWater.rss)
    BY <1>1 DEF RssReadings
  <2> HIDE DEF k
  <2>5. \A i \in 1..3 : i <= k + 1 => Reached(rssAt'[i], highWater.rss)
    <3> TAKE i \in 1..3
    <3> HAVE i <= k + 1
    <3>1. i = k + 1 \/ (i \in 1..k /\ i <= k)
      BY <2>1
    <3> QED BY <2>2, <2>3, <2>4, <3>1
  <2>6. stage' \in {"afterLoad", "admit", "shard"} /\ k + 1 # 4
    BY <1>1, <2>1
  <2> QED BY <1>2, <2>1, <2>2, <2>5, <2>6 DEF RssReadings
<1>5. CaptureHeld'
  BY <1>1, <1>2 DEF CaptureHeld
<1> QED BY <1>3, <1>4, <1>5, <1>6 DEF MeasuredInv

\* The report reads the peak once more.
LEMMA ReportStep ==
    ASSUME MeasuredInv, Report PROVE MeasuredInv'
<1>1. /\ KernelHeld /\ RunTyped /\ RssReadings /\ CaptureHeld /\ CapturedHeld /\ CgroupCovered
      /\ AdmittedFits
      /\ UNCHANGED <<kernelState, readable, facts, admission, capture, captured>>
      /\ rssAt' = Append(rssAt, ProcessRssPeak)
      /\ stage = "report" /\ stage' = "reported"
  BY DEF MeasuredInv, Report
<1>2. /\ resident' = resident /\ anonymous' = anonymous /\ highWater' = highWater
  BY <1>1 DEF kernelState
<1>3. KernelHeld' /\ RunTyped' /\ CapturedHeld' /\ AdmittedFits'
  BY <1>1, <1>2 DEF KernelHeld, RunTyped, CapturedHeld, Shown, MapsReadable, AdmittedFits, Rss
<1>6. CgroupCovered'
  BY <1>1, <1>2 DEF CgroupCovered
<1>4. RssReadings'
  <2>1. /\ DOMAIN rssAt = 1..3 /\ Len(rssAt) = 3
        /\ \A i \in 1..3 : Reached(rssAt[i], highWater.rss)
    BY <1>1 DEF RssReadings
  <2>2. /\ Len(rssAt') = 4 /\ DOMAIN rssAt' = 1..4
        /\ rssAt'[4] = ProcessRssPeak /\ \A i \in 1..3 : rssAt'[i] = rssAt[i]
    <3> DEFINE k == Len(rssAt)
    <3>1. k = 3 /\ k \in Nat /\ DOMAIN rssAt = 1..k
      BY <2>1
    <3>4. Len(rssAt) \in Nat /\ DOMAIN rssAt = 1..Len(rssAt)
      BY <2>1
    <3>2. /\ Len(rssAt') = k + 1 /\ DOMAIN rssAt' = 1..(k + 1)
          /\ rssAt'[k + 1] = ProcessRssPeak /\ \A i \in 1..k : rssAt'[i] = rssAt[i]
      <4> DEFINE q == Append(rssAt, ProcessRssPeak)
      <4>1. /\ Len(q) = k + 1 /\ DOMAIN q = 1..(k + 1)
            /\ q[k + 1] = ProcessRssPeak /\ \A i \in 1..k : q[i] = rssAt[i]
        BY <3>4, AppendSeen
      <4>2. rssAt' = q
        BY <1>1
      <4> HIDE DEF k, q
      <4> QED BY <4>1, <4>2
    <3> HIDE DEF k
    <3>3. k + 1 = 4
      BY <3>1
    <3> QED BY <3>1, <3>2, <3>3
  <2>3. \A peak \in ProcessRssPeak : peak = highWater.rss
    BY DEF ProcessRssPeak
  <2>4. \A peak \in rssAt'[4], i \in 1..3 : \A rss \in rssAt'[i] : rss <= peak
    BY <2>1, <2>2, <2>3 DEF Reached
  <2> QED BY <1>1, <1>2, <2>1, <2>2, <2>4 DEF RssReadings
<1>5. CaptureHeld'
  BY <1>1, <1>2 DEF CaptureHeld
<1> QED BY <1>3, <1>4, <1>5, <1>6 DEF MeasuredInv

\* The parts of a snapshot, each read at its stage.
LEMMA CaptureStep ==
    ASSUME MeasuredInv,
           CaptureMappings \/ CaptureCgroupPeak \/ CaptureCgroupCurrent \/ CaptureFirst
    PROVE  MeasuredInv'
<1>1. /\ KernelHeld /\ RunTyped /\ RssReadings /\ CaptureHeld /\ CapturedHeld /\ CgroupCovered
      /\ AdmittedFits
      /\ UNCHANGED <<kernelState, readable, facts, rssAt, admission, captured>>
  BY DEF MeasuredInv, CaptureMappings, CaptureCgroupPeak, CaptureCgroupCurrent, CaptureFirst
<1>2. /\ resident' = resident /\ anonymous' = anonymous /\ highWater' = highWater
      /\ readable' = readable /\ readable.status \in BOOLEAN
  BY <1>1 DEF kernelState, RunTyped
<1>3. KernelHeld' /\ RunTyped' /\ CapturedHeld' /\ AdmittedFits'
  BY <1>1, <1>2 DEF KernelHeld, RunTyped, CapturedHeld, Shown, MapsReadable, AdmittedFits, Rss
<1>6. CgroupCovered'
  <2>1. CASE CaptureMappings
    <3>1. capture'.cgroupCurrent = {} /\ capture'.cgroupPeak = {}
      BY <2>1 DEF CaptureMappings, NoSnapshot
    <3> QED BY <1>1, <1>2, <3>1 DEF CgroupCovered, Reached
  <2>2. CASE CaptureCgroupPeak
    <3>1. /\ capture'.cgroupCurrent = capture.cgroupCurrent
          /\ \A peak \in capture'.cgroupPeak : peak = highWater.cgroup
      BY <1>1, <2>2 DEF CaptureCgroupPeak, CaptureHeld, NoSnapshot
    <3> QED BY <1>1, <1>2, <3>1 DEF CgroupCovered, Reached
  <2>3. CASE CaptureCgroupCurrent
    <3>1. capture'.cgroupPeak = capture.cgroupPeak /\ capture'.cgroupCurrent \in {{}, {Rss}}
      BY <1>1, <2>3 DEF CaptureCgroupCurrent, CaptureHeld, NoSnapshot
    <3>2. Reached(capture'.cgroupCurrent, highWater.cgroup)
      BY <1>1, <3>1, RssReached DEF Reached
    <3> QED BY <1>1, <1>2, <3>1, <3>2 DEF CgroupCovered
  <2>4. CASE CaptureFirst
    <3>1. capture'.cgroupPeak = capture.cgroupPeak /\ capture'.cgroupCurrent = capture.cgroupCurrent
      BY <1>1, <2>4 DEF CaptureFirst, ProcessReading, CaptureHeld, NoSnapshot
    <3> QED BY <1>1, <1>2, <3>1 DEF CgroupCovered
  <2> QED BY <2>1, <2>2, <2>3, <2>4
<1>4. RssReadings'
  <2>1. \/ stage = "shard" /\ stage' = "cgroupPeak"
        \/ stage = "cgroupPeak" /\ stage' = "cgroupCurrent"
        \/ stage = "cgroupCurrent" /\ stage' = "rss"
        \/ stage = "rss" /\ stage' = "peak"
    BY DEF CaptureMappings, CaptureCgroupPeak, CaptureCgroupCurrent, CaptureFirst
  <2> QED BY <1>1, <1>2, <2>1 DEF RssReadings
<1>5. CaptureHeld'
  <2>0. Reached(ProcessRss, highWater.rss) /\ Reached({}, highWater.rss) /\ (ProcessRss # {} <=> readable.status)
    BY <1>1, <1>2, RssReached
  <2>1. CASE CaptureMappings
    <3>1. capture' = [NoSnapshot EXCEPT !.mappingRss = ShardResidency("rss"), !.mappingPss = ShardResidency("pss")]
          /\ stage' = "cgroupPeak"
      BY <2>1 DEF CaptureMappings
    <3>2. ShardResidency("rss") # {} <=> MapsReadable
      BY <1>1, ShardResidencyFacts DEF KernelHeld, RunTyped, MapsReadable
    <3>3. DOMAIN capture' = DOMAIN NoSnapshot /\ capture'.rss = {} /\ capture'.mappingRss = ShardResidency("rss")
      BY <3>1 DEF NoSnapshot
    <3>4. MapsReadable' <=> MapsReadable
      BY <1>2 DEF MapsReadable
    <3> QED BY <1>2, <2>0, <3>1, <3>2, <3>3, <3>4 DEF CaptureHeld
  <2>2. CASE CaptureCgroupPeak
    <3>1. stage = "cgroupPeak" /\ stage' = "cgroupCurrent" /\ MapsReadable' = MapsReadable
          /\ DOMAIN capture' = DOMAIN capture /\ capture'.rss = capture.rss /\ capture'.mappingRss = capture.mappingRss
      BY <1>1, <1>2, <2>2 DEF CaptureCgroupPeak, CaptureHeld, NoSnapshot, MapsReadable
    <3> QED BY <1>1, <1>2, <3>1 DEF CaptureHeld
  <2>3. CASE CaptureCgroupCurrent
    <3>1. stage = "cgroupCurrent" /\ stage' = "rss" /\ MapsReadable' = MapsReadable
          /\ DOMAIN capture' = DOMAIN capture /\ capture'.rss = capture.rss /\ capture'.mappingRss = capture.mappingRss
          /\ capture'.cgroupCurrent = IF readable.cgroup THEN {Rss} ELSE {}
      BY <1>1, <1>2, <2>3 DEF CaptureCgroupCurrent, CaptureHeld, NoSnapshot, MapsReadable
    <3> QED BY <1>1, <1>2, <3>1 DEF CaptureHeld
  <2>4. CASE CaptureFirst
    <3>1. stage = "rss" /\ stage' = "peak" /\ MapsReadable' = MapsReadable
          /\ DOMAIN capture' = DOMAIN capture /\ capture'.rss = ProcessRss /\ capture'.mappingRss = capture.mappingRss
          /\ capture'.cgroupCurrent = capture.cgroupCurrent
      BY <1>1, <1>2, <2>4 DEF CaptureFirst, ProcessReading, CaptureHeld, NoSnapshot, MapsReadable
    <3> QED BY <1>1, <1>2, <2>0, <3>1 DEF CaptureHeld
  <2> QED BY <2>1, <2>2, <2>3, <2>4
<1> QED BY <1>3, <1>4, <1>5, <1>6 DEF MeasuredInv

\* The peak is read last, and the snapshot is taken.
LEMMA CapturedStep ==
    ASSUME MeasuredInv, CaptureSecond PROVE MeasuredInv'
<1>1. /\ KernelHeld /\ RunTyped /\ RssReadings /\ CaptureHeld /\ CapturedHeld /\ CgroupCovered
      /\ AdmittedFits
      /\ UNCHANGED <<kernelState, readable, facts, rssAt, admission>>
      /\ stage = "peak" /\ stage' \in {"shard", "report"} /\ capture' = NoSnapshot
      /\ captured' = Append(captured, [capture EXCEPT !["peak"] = ProcessRssPeak])
  BY DEF MeasuredInv, CaptureSecond, ProcessReading
<1>2. /\ resident' = resident /\ anonymous' = anonymous /\ highWater' = highWater
      /\ readable' = readable /\ MapsReadable' = MapsReadable
  BY <1>1 DEF kernelState, MapsReadable
<1>3. KernelHeld' /\ RunTyped' /\ AdmittedFits'
  BY <1>1, <1>2 DEF KernelHeld, RunTyped, AdmittedFits, Rss
<1>4. RssReadings'
  BY <1>1, <1>2 DEF RssReadings
<1>5. CaptureHeld'
  BY <1>1, <1>2 DEF CaptureHeld, NoSnapshot, Reached
<1>6. CapturedHeld'
  <2> DEFINE taken == [capture EXCEPT !["peak"] = ProcessRssPeak]
             k == Len(captured)
  <2>1. /\ taken.rss = capture.rss /\ taken.mappingRss = capture.mappingRss
        /\ taken.cgroupCurrent = capture.cgroupCurrent /\ taken.peak = ProcessRssPeak
    BY <1>1 DEF CaptureHeld, NoSnapshot
  <2>2. \A rss \in capture.rss, peak \in ProcessRssPeak : rss <= peak
    BY <1>1 DEF CaptureHeld, Reached, ProcessRssPeak
  <2> HIDE DEF taken
  <2>3. Shown(taken)
    BY <1>1, <2>1, <2>2 DEF Shown, CaptureHeld
  <2>4. k \in Nat /\ DOMAIN captured = 1..k /\ \A i \in 1..k : Shown(captured[i])
    BY <1>1 DEF CapturedHeld
  <2>5. /\ Len(captured') = k + 1 /\ DOMAIN captured' = 1..(k + 1)
        /\ captured'[k + 1] = taken /\ \A i \in 1..k : captured'[i] = captured[i]
    BY <1>1, <2>4, AppendSeen DEF taken
  <2> HIDE DEF k
  <2>6. \A i \in 1..(k + 1) : Shown(captured'[i])
    <3> TAKE i \in 1..(k + 1)
    <3>1. i \in 1..k \/ i = k + 1
      BY <2>4
    <3> QED BY <2>3, <2>4, <2>5, <3>1
  <2>7. \A i \in 1..(k + 1) : Shown(captured[i])'
    BY <1>2, <2>6 DEF Shown
  <2> QED BY <2>4, <2>5, <2>7 DEF CapturedHeld
<1>7. CgroupCovered'
  <2> DEFINE taken == [capture EXCEPT !["peak"] = ProcessRssPeak]
             k == Len(captured)
  <2>1. taken.cgroupPeak = capture.cgroupPeak /\ taken.cgroupCurrent = capture.cgroupCurrent
    BY <1>1 DEF CaptureHeld, NoSnapshot
  <2>2. k \in Nat /\ DOMAIN captured = 1..k
    BY <1>1 DEF CapturedHeld
  <2> HIDE DEF taken
  <2>3. /\ DOMAIN captured' = 1..(k + 1)
        /\ captured'[k + 1] = taken /\ \A i \in 1..k : captured'[i] = captured[i]
    BY <1>1, <2>2, AppendSeen DEF taken
  <2> HIDE DEF k
  <2>4. /\ Reached(taken.cgroupCurrent, highWater.cgroup)
        /\ \A i \in 1..k : Reached(captured[i].cgroupCurrent, highWater.cgroup)
        /\ \A i \in 1..k :
             \A current \in captured[i].cgroupCurrent, peak \in taken.cgroupPeak : current <= peak
        /\ \A j \in 1..k : \A i \in 1..(j - 1) :
             \A current \in captured[i].cgroupCurrent, peak \in captured[j].cgroupPeak : current <= peak
    BY <1>1, <2>1, <2>2 DEF CgroupCovered
  <2>5. Reached(capture'.cgroupCurrent, highWater'.cgroup) /\ capture'.cgroupPeak = {}
    BY <1>1 DEF NoSnapshot, Reached
  <2>6. \A i \in 1..(k + 1) : Reached(captured'[i].cgroupCurrent, highWater.cgroup)
    <3> TAKE i \in 1..(k + 1)
    <3>1. i \in 1..k \/ i = k + 1
      BY <2>2
    <3> QED BY <2>3, <2>4, <3>1
  <2>7. \A j \in 1..(k + 1) : \A i \in 1..(j - 1) :
           \A current \in captured'[i].cgroupCurrent, peak \in captured'[j].cgroupPeak : current <= peak
    <3> TAKE j \in 1..(k + 1)
    <3> TAKE i \in 1..(j - 1)
    <3>1. (j \in 1..k /\ i \in 1..k) \/ (j = k + 1 /\ i \in 1..k)
      BY <2>2
    <3> QED BY <2>3, <2>4, <3>1
  <2> QED BY <1>2, <2>3, <2>5, <2>6, <2>7 DEF CgroupCovered
<1> QED BY <1>3, <1>4, <1>5, <1>6, <1>7 DEF MeasuredInv

\* The decision on what the process and the tensors need.
LEMMA AdmissionFits ==
    ASSUME facts \in LedgerCases, NEW n \in Nat
    PROVE  LET decision == Admission({n})
           IN /\ decision.outcome # "Unknown" /\ decision.current = {n}
              /\ decision.outcome \in {"Admitted", "AdmittedWithWarning"} =>
                    \A hard \in facts.hard :
                       /\ n + facts.reserve <= hard
                       /\ facts.fileBacked + facts.anonymous + facts.reserve <= hard
              /\ decision.reclaimable > 0 => facts.bound /\ facts.quiescent
<1> DEFINE known == SaturatingAdd(facts.fileBacked, facts.anonymous)
           reserve == facts.reserve
           total == facts.fileBacked + facts.anonymous
           outcome == Outcome(facts.soft, facts.hard, reserve, {n}, known)
           currentSum == UNION {WithReserve(c, reserve) : c \in {n}}
           knownSum == WithReserve(known, reserve)
           Over(limits, sums) == \E limit \in limits, sum \in UNION sums : sum > limit
<1>1. /\ facts.fileBacked \in Nat /\ facts.anonymous \in Nat /\ reserve \in Nat /\ MaxBytes \in Nat
      /\ \A hard \in facts.hard : hard \in Nat /\ hard <= MaxBytes
      /\ facts.fileBacked + facts.anonymous <= MaxBytes \/ \A hard \in facts.hard : hard < MaxBytes
  BY LedgerCasesAssumption, MappingsAssumption
<1>2. known \in Nat /\ (known = total \/ (known = MaxBytes /\ MaxBytes < total))
  BY <1>1 DEF SaturatingAdd
<1>3. currentSum = WithReserve(n, reserve)
  OBVIOUS
<1>4. \/ WithReserve(n, reserve) = {}
      \/ WithReserve(n, reserve) = {n + reserve}
  BY DEF WithReserve, Checked
<1>5. \/ WithReserve(known, reserve) = {}
      \/ WithReserve(known, reserve) = {known + reserve}
  BY DEF WithReserve, Checked
<1>6. outcome = CASE currentSum = {} \/ knownSum = {} -> "Rejected"
                  [] ~(currentSum = {} \/ knownSum = {}) ->
                        (CASE Over(facts.hard, {currentSum, knownSum}) -> "Rejected"
                           [] ~Over(facts.hard, {currentSum, knownSum}) /\ Over(facts.soft, {currentSum})
                                -> "AdmittedWithWarning"
                           [] OTHER -> "Admitted")
  BY DEF Outcome
<1>7. outcome # "Unknown"
  <2> HIDE DEF currentSum, knownSum, Over
  <2> QED BY <1>6
<1>8. ASSUME outcome \in {"Admitted", "AdmittedWithWarning"}, NEW hard \in facts.hard
      PROVE  n + reserve <= hard /\ total + reserve <= hard
  <2>1. currentSum # {} /\ knownSum # {} /\ ~Over(facts.hard, {currentSum, knownSum})
    <3> HIDE DEF currentSum, knownSum, Over
    <3> QED BY <1>6, <1>8
  <2>2. currentSum = {n + reserve} /\ knownSum = {known + reserve}
    BY <1>3, <1>4, <1>5, <2>1
  <2>3. ~(n + reserve > hard) /\ ~(known + reserve > hard)
    BY <2>1, <2>2
  <2> HIDE DEF known, total, reserve
  <2>4. n + reserve <= hard /\ known + reserve <= hard
    BY <1>1, <1>2, <2>3
  <2>5. known = total
    BY <1>1, <1>2, <2>4 DEF total
  <2> QED BY <2>4, <2>5
<1>9. /\ Admission({n}).outcome = outcome /\ Admission({n}).current = {n}
      /\ Admission({n}).reclaimable > 0 => facts.bound /\ facts.quiescent
  <2> DEFINE amount == MapThenSumSet(LAMBDA r : r.bytes - r.shared, {r \in facts.resources : r.safe})
             decision == [outcome |-> outcome, current |-> {n}, known |-> known,
                          reclaimable |-> IF facts.bound /\ facts.quiescent THEN amount ELSE 0]
  <2>1. Admission({n}) = decision
    BY DEF Admission
  <2> HIDE DEF amount, outcome, known
  <2>2. /\ decision.outcome = outcome /\ decision.current = {n}
        /\ decision.reclaimable > 0 => facts.bound /\ facts.quiescent
    OBVIOUS
  <2> QED BY <2>1, <2>2
<1> QED BY <1>7, <1>8, <1>9

\* The figure that an admission starts from is one number.
LEMMA AdmitStep ==
    ASSUME MeasuredInv, Admit PROVE MeasuredInv'
<1>1. /\ KernelHeld /\ RunTyped /\ RssReadings /\ CaptureHeld /\ CapturedHeld /\ CgroupCovered
      /\ AdmittedFits
      /\ UNCHANGED <<kernelState, readable, facts, rssAt, capture, captured>>
      /\ stage = "admit" /\ stage' = "decoded"
      /\ admission' = Admission(OrElse(ProcessRss, OrElse(ShardResidency("rss"), {facts.pageBytes})))
  BY DEF MeasuredInv, Admit
<1>2. /\ resident' = resident /\ anonymous' = anonymous /\ highWater' = highWater
  BY <1>1 DEF kernelState
<1>3. KernelHeld' /\ RunTyped' /\ CapturedHeld' /\ CgroupCovered'
  BY <1>1, <1>2 DEF KernelHeld, RunTyped, CapturedHeld, Shown, MapsReadable, Rss, CgroupCovered
<1>4. RssReadings'
  BY <1>1, <1>2 DEF RssReadings
<1>5. CaptureHeld'
  BY <1>1, <1>2 DEF CaptureHeld
<1>6. AdmittedFits'
  <2>1. \E n \in Nat : OrElse(ProcessRss, OrElse(ShardResidency("rss"), {facts.pageBytes})) = {n}
    <3>1. ProcessRss = {} \/ ProcessRss = {Rss}
      BY DEF ProcessRss
    <3>2. Rss \in Nat
      BY <1>1, RssReached
    <3>3. \/ ShardResidency("rss") = {}
          \/ \E total \in Nat : ShardResidency("rss") = {total}
      BY <1>1, ShardResidencyFacts DEF KernelHeld, RunTyped
    <3>4. facts.pageBytes \in Nat
      BY <1>1, LedgerCasesAssumption, MappingsAssumption DEF RunTyped
    <3> QED BY <3>1, <3>2, <3>3, <3>4 DEF OrElse
  <2>2. PICK n \in Nat : OrElse(ProcessRss, OrElse(ShardResidency("rss"), {facts.pageBytes})) = {n}
    BY <2>1
  <2>3. admission' = Admission({n}) /\ facts' = facts /\ facts \in LedgerCases
    BY <1>1, <2>2 DEF RunTyped
  <2> DEFINE decision == Admission({n})
  <2>4. /\ decision.outcome # "Unknown" /\ decision.current = {n}
        /\ decision.outcome \in {"Admitted", "AdmittedWithWarning"} =>
              \A hard \in facts.hard :
                 /\ n + facts.reserve <= hard
                 /\ facts.fileBacked + facts.anonymous + facts.reserve <= hard
        /\ decision.reclaimable > 0 => facts.bound /\ facts.quiescent
    BY <2>3, AdmissionFits
  <2> HIDE DEF decision
  <2> QED BY <2>3, <2>4 DEF AdmittedFits, decision
<1> QED BY <1>3, <1>4, <1>5, <1>6 DEF MeasuredInv

\* No stage of a run breaks the invariant, whatever the kernel does.
LEMMA MeasuredNext == MeasuredInv /\ [LedgerNext]_ledgerVars => MeasuredInv'
<1> SUFFICES ASSUME MeasuredInv, [LedgerNext]_ledgerVars PROVE MeasuredInv'
  OBVIOUS
<1>1. CASE UNCHANGED ledgerVars
  BY <1>1 DEF ledgerVars, MeasuredInv, KernelHeld, Rss, RunTyped, RssReadings, CaptureHeld, CapturedHeld,
              CgroupCovered, Reached, Shown, MapsReadable, AdmittedFits
<1>2. CASE LedgerNext
  BY <1>2, KernelStep, ReadRssStep, AdmitStep, CaptureStep, CapturedStep, ReportStep DEF LedgerNext
<1> QED BY <1>1, <1>2

\* What the ledger says of a snapshot that was taken.
LEMMA UnknownKept ==
    ASSUME MeasuredInv PROVE UnknownStaysUnknown
<1> SUFFICES ASSUME NEW i \in DOMAIN captured
             PROVE  LET ledger == Ledger(captured[i])
                        differences == Reconciliation(ledger) IN
                    /\ readable.status <=> ledger.ProcessRss.bytes # {}
                    /\ readable.cgroup <=> ledger.CgroupCurrent.bytes # {}
                    /\ (readable.smaps /\ readable.paths # {}) <=> ledger.FileBackedResident.bytes # {}
                    /\ \A c \in DOMAIN ledger : ledger[c].bytes = {} <=> ledger[c].kind = "Unknown"
                    /\ differences.rssMinusMapping # {} <=>
                         readable.status /\ readable.smaps /\ readable.paths # {}
                    /\ differences.cgroupMinusRss # {} <=> readable.status /\ readable.cgroup
                    /\ CheckedTotal(ledger, {"KvCache", "GraphScratch", "Runtime"}) = {0}
  BY DEF UnknownStaysUnknown
<1> DEFINE snapshot == captured[i]
           ledger == Ledger(snapshot)
           C == {"KvCache", "GraphScratch", "Runtime"}
           f == [c \in C |-> SumSet(ledger[c].bytes)]
<1>1. Shown(snapshot)
  BY DEF MeasuredInv, CapturedHeld
<1>2. /\ ledger.ProcessRss.bytes = snapshot.rss /\ ledger.CgroupCurrent.bytes = snapshot.cgroupCurrent
      /\ ledger.FileBackedResident.bytes = snapshot.mappingRss
  BY DEF Ledger, Measured
<1>3. \A c \in DOMAIN ledger : ledger[c].bytes = {} <=> ledger[c].kind = "Unknown"
  BY DEF Ledger, Measured
<1>4. \A c \in C : ledger[c].bytes = {}
  BY DEF Ledger, Measured
<1> HIDE DEF ledger
<1>5. CheckedTotal(ledger, C) = {0}
  <2> DEFINE total == MapThenSumSet(LAMBDA c : SumSet(ledger[c].bytes), C)
  <2>1. total = (CHOOSE h : Sums(h, f, C))[C]
    BY DEF MapThenSumSet, MapThenFoldSet, Sums
  <2>2. SumSet({}) = 0
    BY SumSetIsSum, FS_EmptySet
  <2>3. \A c \in C : f[c] = 0
    BY <1>4, <2>2
  <2>4. IsFiniteSet(C)
    <3>1. C = (({} \cup {"KvCache"}) \cup {"GraphScratch"}) \cup {"Runtime"}
      OBVIOUS
    <3>2. \A S, x : IsFiniteSet(S) => IsFiniteSet(S \cup {x})
      BY FS_AddElement
    <3>3. IsFiniteSet(({} \cup {"KvCache"}) \cup {"GraphScratch"})
      BY <3>2, FS_EmptySet
    <3>4. IsFiniteSet((({} \cup {"KvCache"}) \cup {"GraphScratch"}) \cup {"Runtime"})
      BY <3>2, <3>3
    <3> QED BY <3>1, <3>4
  <2>7. CheckedTotal(ledger, C) = Checked(total)
    BY DEF CheckedTotal
  <2> HIDE DEF f, C, total
  <2>5. SumOver(f, C) \in Int /\ SumOver(f, C) = SumOver(f, C) + SumOver(f, C)
    BY <2>3, <2>4, SumInt, SumPlus
  <2>6. SumOver(f, C) = 0
    <3>1. \A s \in Int : s = s + s => s = 0
      OBVIOUS
    <3> QED BY <2>5, <3>1
  <2>8. total = 0
    <3>1. SumOver(f, C) = (CHOOSE h : Sums(h, f, C))[C]
      BY SumIsFold
    <3> QED BY <2>1, <2>6, <3>1
  <2> QED BY <2>7, <2>8, MappingsAssumption DEF Checked
<1>6. /\ Reconciliation(ledger).rssMinusMapping # {} <=> snapshot.rss # {} /\ snapshot.mappingRss # {}
      /\ Reconciliation(ledger).cgroupMinusRss # {} <=> snapshot.cgroupCurrent # {} /\ snapshot.rss # {}
  <2>1. \A a, b : ZipDifference(a, b) # {} <=> a # {} /\ b # {}
    <3> TAKE a, b
    <3>1. ASSUME a # {}, b # {} PROVE ZipDifference(a, b) # {}
      <4>1. PICK x \in a, y \in b : TRUE
        BY <3>1
      <4>2. x - y \in ZipDifference(a, b)
        BY <4>1 DEF ZipDifference
      <4> QED BY <4>2
    <3>2. ASSUME ZipDifference(a, b) # {} PROVE a # {} /\ b # {}
      BY <3>2 DEF ZipDifference
    <3> QED BY <3>1, <3>2
  <2>2. /\ Reconciliation(ledger).rssMinusMapping = ZipDifference(ledger.ProcessRss.bytes, ledger.FileBackedResident.bytes)
        /\ Reconciliation(ledger).cgroupMinusRss = ZipDifference(ledger.CgroupCurrent.bytes, ledger.ProcessRss.bytes)
    BY DEF Reconciliation
  <2> QED BY <1>2, <2>1, <2>2
<1> QED BY <1>1, <1>2, <1>3, <1>5, <1>6 DEF Shown, MapsReadable, ledger

\* The peaks, by the invariant.
LEMMA PeaksCover ==
    ASSUME MeasuredInv PROVE PeakCoversReadings
<1>1. \A i \in DOMAIN captured : \A rss \in captured[i].rss, peak \in captured[i].peak : rss <= peak
  BY DEF MeasuredInv, CapturedHeld, Shown
<1>2. Len(rssAt) = 4 => \A rss \in rssAt[1] \cup rssAt[2] \cup rssAt[3], peak \in rssAt[4] : rss <= peak
  BY DEF MeasuredInv, RssReadings
<1>3. \A j \in DOMAIN captured : \A i \in 1..(j - 1) :
         \A current \in captured[i].cgroupCurrent, peak \in captured[j].cgroupPeak : current <= peak
  BY DEF MeasuredInv, CgroupCovered
<1> QED BY <1>1, <1>2, <1>3 DEF PeakCoversReadings

(***************************************************************************)
(* ResidencySnapshot, MemoryLedger, admit: for all mappings, limits and    *)
(* inventories, and whatever the kernel does between the readings, an RSS  *)
(* peak covers the readings it is shown beside, a cgroup peak the current  *)
(* figures of earlier snapshots, a number is shown where a source answered *)
(* (the mappings' where one shard did) and Unknown elsewhere, and an       *)
(* admission fits the hard limit.                                          *)
(***************************************************************************)
THEOREM MeasurementsTheorem == LedgerSpec => []MeasurementsHonest
<1>1. MeasuredInv => MeasurementsHonest
  BY PeaksCover, UnknownKept DEF MeasuredInv, MeasurementsHonest
<1> QED BY <1>1, MeasuredInit, MeasuredNext, PTL DEF LedgerSpec

-----------------------------------------------------------------------------
(* The page residency observation.                                         *)
\* Rounding down and rounding up.
LEMMA Rounding ==
    ASSUME NEW a \in Nat, NEW m \in Nat \ {0}
    PROVE  /\ a \div m \in Nat
           /\ m * (a \div m) <= a /\ a < m * (a \div m) + m
OBVIOUS

\* Whole pages: as many pages as a range's bytes fill, counted from its first
\* page, do not go beyond the page of its last byte.
LEMMA PagesInside ==
    ASSUME NEW first \in Nat, NEW end \in Nat, first < end, NEW m \in Nat \ {0}
    PROVE  /\ (end - first + m - 1) \div m \in Nat
           /\ (first \div m) + ((end - first + m - 1) \div m) <= (end + m - 1) \div m
<1> DEFINE q == first \div m
           c == (end - first + m - 1) \div m
           e == (end + m - 1) \div m
<1>1. q \in Nat /\ m * q <= first
  BY Rounding
<1>2. c \in Nat /\ m * c <= end - first + m - 1
  <2>1. end - first + m - 1 \in Nat
    OBVIOUS
  <2> QED BY <2>1, Rounding
<1>3. e \in Nat /\ end + m - 1 < m * e + m
  <2>1. end + m - 1 \in Nat
    OBVIOUS
  <2> QED BY <2>1, Rounding
<1> HIDE DEF q, c, e
<1>4. m * q \in Nat /\ m * c \in Nat /\ m * e \in Nat
  BY <1>1, <1>2, <1>3
<1>5. m * q + m * c < m * e + m
  BY <1>1, <1>2, <1>3, <1>4
<1>6. m * (q + c) = m * q + m * c /\ m * (e + 1) = m * e + m
  BY <1>1, <1>2, <1>3
<1>7. q + c < e + 1
  <2> SUFFICES ASSUME e + 1 <= q + c PROVE FALSE
    BY <1>1, <1>2, <1>3
  <2>1. m * (e + 1) <= m * (q + c)
    BY <1>1, <1>2, <1>3
  <2>2. m * (e + 1) \in Nat /\ m * (q + c) \in Nat
    BY <1>1, <1>2, <1>3
  <2> QED BY <1>4, <1>5, <1>6, <2>1, <2>2
<1> QED BY <1>1, <1>2, <1>3, <1>7 DEF q, c, e

\* The pages of the available ranges among some of the ranges.
LEMMA PagesAre ==
    /\ \A p : p \in AllPages <=>
          \E i \in DOMAIN ranges :
             /\ AvailableFor(ranges[i]) /\ PageCount(ranges[i]) > 0
             /\ p \in {ranges[i].mapping} \X PageInterval(ranges[i])
    /\ \A p : p \in TargetPages <=>
          \E i \in DOMAIN ranges :
             /\ IsTargeted(ranges[i]) /\ AvailableFor(ranges[i]) /\ PageCount(ranges[i]) > 0
             /\ p \in {ranges[i].mapping} \X PageInterval(ranges[i])
    /\ \A n : \A p : p \in PagesOfName(n) <=>
          \E i \in DOMAIN ranges :
             /\ ranges[i].name = n /\ AvailableFor(ranges[i]) /\ PageCount(ranges[i]) > 0
             /\ p \in {ranges[i].mapping} \X PageInterval(ranges[i])
<1>1. \A p : p \in AllPages <=>
          \E i \in DOMAIN ranges :
             /\ AvailableFor(ranges[i]) /\ PageCount(ranges[i]) > 0
             /\ p \in {ranges[i].mapping} \X PageInterval(ranges[i])
  BY DEF AllPages, IntervalUnion
<1>2. \A p : p \in TargetPages <=>
          \E i \in DOMAIN ranges :
             /\ IsTargeted(ranges[i]) /\ AvailableFor(ranges[i]) /\ PageCount(ranges[i]) > 0
             /\ p \in {ranges[i].mapping} \X PageInterval(ranges[i])
  BY DEF TargetPages, IntervalUnion
<1>3. ASSUME NEW n
      PROVE \A p : p \in PagesOfName(n) <=>
          \E i \in DOMAIN ranges :
             /\ ranges[i].name = n /\ AvailableFor(ranges[i]) /\ PageCount(ranges[i]) > 0
             /\ p \in {ranges[i].mapping} \X PageInterval(ranges[i])
  BY DEF PagesOfName, IntervalUnion
<1> QED BY <1>1, <1>2, <1>3

\* Concatenation, seen as a function.
LEMMA ConcatSeen ==
    ASSUME NEW q, DOMAIN q = 1..Len(q), Len(q) \in Nat, NEW t, DOMAIN t = 1..Len(t), Len(t) \in Nat
    PROVE  /\ Len(q \o t) = Len(q) + Len(t) /\ DOMAIN (q \o t) = 1..(Len(q) + Len(t))
           /\ \A i \in 1..Len(q) : (q \o t)[i] = q[i]
           /\ \A i \in 1..Len(t) : (q \o t)[Len(q) + i] = t[i]
OBVIOUS

\* The images of a finite set, as many as its elements when none are equal.
LEMMA ImageOf ==
    ASSUME NEW S, IsFiniteSet(S), NEW f
    PROVE  /\ IsFiniteSet({f[x] : x \in S})
           /\ (\A x, y \in S : f[x] = f[y] => x = y) => Cardinality({f[x] : x \in S}) = Cardinality(S)
<1> DEFINE T == {f[x] : x \in S}
           g == [x \in S |-> f[x]]
<1>1. g \in [S -> T] /\ \A t \in T : \E x \in S : g[x] = t
  OBVIOUS
<1>2. g \in Surjection(S, T)
  BY <1>1 DEF Surjection
<1>3. IsFiniteSet(T) /\ (g \in Injection(S, T) => Cardinality(T) = Cardinality(S))
  BY <1>2, FS_Surjection
<1>4. (\A x, y \in S : f[x] = f[y] => x = y) => g \in Injection(S, T)
  BY <1>1 DEF Injection, IsInjective
<1> QED BY <1>3, <1>4

\* Ranges of an inventory.
LEMMA RangesRead ==
    ASSUME ranges \in RangeLists
    PROVE  /\ Len(ranges) \in Nat /\ DOMAIN ranges = 1..Len(ranges)
           /\ \A i \in 1..Len(ranges) : ranges[i].start \in Nat /\ ranges[i].end \in Nat
<1>1. ranges \in Seq(Range(ranges))
  BY RangeListsAssumption
<1>2. Len(ranges) \in Nat /\ DOMAIN ranges = 1..Len(ranges)
  BY <1>1, LenProperties
<1> QED BY <1>2, RangeListsAssumption

\* The pages of a range, counted from its first one.
LEMMA RangePages ==
    ASSUME NEW r, r.start \in Nat, r.end \in Nat
    PROVE  /\ PageCount(r) \in Nat /\ IsFiniteSet(PageInterval(r))
           /\ \A i \in 0..(PageCount(r) - 1) : Key(r, i) \in {r.mapping} \X PageInterval(r)
           /\ \A i, j \in Nat : Key(r, i) = Key(r, j) => i = j
<1> DEFINE q == r.start \div ObservedPage
           e == (r.end + ObservedPage - 1) \div ObservedPage
           c == (r.end - r.start + ObservedPage - 1) \div ObservedPage
<1>1. q \in Nat
  BY Rounding, PageLimitsAssumption
<1>2. e \in Nat
  <2>1. r.end + ObservedPage - 1 \in Nat
    BY PageLimitsAssumption
  <2> QED BY <2>1, Rounding, PageLimitsAssumption
<1>3. r.start < r.end => c \in Nat /\ q + c <= e
  BY PagesInside, PageLimitsAssumption
<1>4. PageInterval(r) = q..(e - 1)
  BY DEF PageInterval, FirstPage, DivCeil
<1>5. PageCount(r) = IF r.end <= r.start THEN 0 ELSE c
  BY DEF PageCount, DivCeil
<1>6. \A i : Key(r, i) = <<r.mapping, q + i>>
  BY DEF Key, FirstPage
<1> HIDE DEF q, e, c
<1>7. IsFiniteSet(PageInterval(r))
  <2>1. q \in Int /\ e - 1 \in Int
    BY <1>1, <1>2
  <2> QED BY <1>4, <2>1, FS_Interval
<1>8. PageCount(r) \in Nat
  BY <1>3, <1>5
<1>9. ASSUME NEW i \in 0..(PageCount(r) - 1) PROVE Key(r, i) \in {r.mapping} \X PageInterval(r)
  <2>1. r.start < r.end /\ PageCount(r) = c /\ q + c <= e /\ c \in Nat
    BY <1>3, <1>5, <1>8
  <2>2. q + i \in q..(e - 1)
    BY <1>1, <1>2, <2>1
  <2> QED BY <1>4, <1>6, <2>2
<1>10. \A i, j \in Nat : Key(r, i) = Key(r, j) => i = j
  BY <1>1, <1>6
<1> QED BY <1>7, <1>8, <1>9, <1>10

\* The pages of the inventory.
LEMMA PagesHeld ==
    ASSUME ranges \in RangeLists
    PROVE  /\ IsFiniteSet(AllPages) /\ TargetPages \subseteq AllPages
           /\ \A k \in 1..Len(ranges) : \A i \in 0..(PageCount(ranges[k]) - 1) :
                 AvailableFor(ranges[k]) =>
                    /\ Key(ranges[k], i) \in AllPages
                    /\ IsTargeted(ranges[k]) => Key(ranges[k], i) \in TargetPages
                    /\ Key(ranges[k], i) \in PagesOfName(ranges[k].name)
<1>1. /\ Len(ranges) \in Nat /\ DOMAIN ranges = 1..Len(ranges)
      /\ \A i \in 1..Len(ranges) : ranges[i].start \in Nat /\ ranges[i].end \in Nat
  BY RangesRead
<1> DEFINE D == 1..Len(ranges)
           P == [i \in D |-> {ranges[i].mapping} \X PageInterval(ranges[i])]
<1>2. \A i \in D : IsFiniteSet(P[i])
  <2> TAKE i \in D
  <2>1. IsFiniteSet(PageInterval(ranges[i])) /\ IsFiniteSet({ranges[i].mapping})
    BY <1>1, RangePages, FS_Singleton
  <2> QED BY <2>1, FS_Product
<1>3. IsFiniteSet({P[i] : i \in D})
  <2>1. IsFiniteSet(D)
    BY <1>1, FS_Interval
  <2> HIDE DEF D, P
  <2> QED BY <2>1, ImageOf
<1>4. IsFiniteSet(UNION {P[i] : i \in D})
  <2> HIDE DEF D, P
  <2> QED BY <1>2, <1>3, FS_UNION
<1>5. AllPages \subseteq UNION {P[i] : i \in D}
  <2> SUFFICES ASSUME NEW p \in AllPages PROVE p \in UNION {P[i] : i \in D}
    OBVIOUS
  <2>1. PICK i \in D : p \in {ranges[i].mapping} \X PageInterval(ranges[i])
    BY <1>1, PagesAre
  <2>2. p \in P[i]
    BY <2>1
  <2> HIDE DEF P, D
  <2> QED BY <2>2
<1>6. IsFiniteSet(AllPages)
  BY <1>4, <1>5, FS_Subset
<1>7. TargetPages \subseteq AllPages
  BY PagesAre
<1>8. ASSUME NEW k \in D, NEW i \in 0..(PageCount(ranges[k]) - 1), AvailableFor(ranges[k])
      PROVE  /\ Key(ranges[k], i) \in AllPages
             /\ IsTargeted(ranges[k]) => Key(ranges[k], i) \in TargetPages
             /\ Key(ranges[k], i) \in PagesOfName(ranges[k].name)
  <2>1. Key(ranges[k], i) \in {ranges[k].mapping} \X PageInterval(ranges[k]) /\ PageCount(ranges[k]) \in Nat
    BY <1>1, RangePages
  <2>2. PageCount(ranges[k]) > 0
    BY <2>1
  <2> QED BY <1>1, <1>8, <2>1, <2>2, PagesAre
<1> QED BY <1>6, <1>7, <1>8

\* The walk takes up every range once, the selected ones first.
LEMMA OrderHeld ==
    ASSUME ranges \in RangeLists
    PROVE  /\ ProcessingOrder \in [1..Len(ranges) -> 1..Len(ranges)]
           /\ \A k \in 1..Len(ranges) : \E p \in 1..Len(ranges) : ProcessingOrder[p] = k
           /\ \A p, q \in 1..Len(ranges) :
                 IsTargeted(ranges[ProcessingOrder[p]]) /\ ~IsTargeted(ranges[ProcessingOrder[q]]) => p < q
           /\ ProcessedCount \in 0..Len(ranges)
<1>1. Len(ranges) \in Nat /\ DOMAIN ranges = 1..Len(ranges)
  BY RangesRead
<1> DEFINE n == Len(ranges)
           R == {pair \in (1..n) \X (1..n) : ProcessedBefore(pair[1], pair[2])}
           preceding(k) == {j \in 1..n : <<j, k>> \in R}
<1>2. \A i, j \in 1..n : <<i, j>> \in R <=> ProcessedBefore(i, j)
  OBVIOUS
<1>3. StrictOrder(R, n)
  <2>0. \A i \in 1..n : IsTargeted(ranges[i]) \in BOOLEAN
    BY DEF IsTargeted
  <2>1. \A i, j \in 1..n : <<i, j>> \in R <=>
           \/ IsTargeted(ranges[i]) = IsTargeted(ranges[j]) /\ i < j
           \/ IsTargeted(ranges[i]) /\ ~IsTargeted(ranges[j])
    BY <1>2, <2>0 DEF ProcessedBefore
  <2> HIDE DEF R
  <2>2. \A k \in 1..n : <<k, k>> \notin R
    BY <2>1
  <2>3. \A i, j, k \in 1..n : <<i, j>> \in R /\ <<j, k>> \in R => <<i, k>> \in R
    BY <2>1
  <2>4. ASSUME NEW j \in 1..n, NEW k \in 1..n, j # k PROVE <<j, k>> \in R \/ <<k, j>> \in R
    <3>1. j < k \/ k < j
      BY <1>1, <2>4
    <3>2. CASE IsTargeted(ranges[j]) = IsTargeted(ranges[k])
      BY <2>1, <3>1, <3>2
    <3>3. CASE IsTargeted(ranges[j]) # IsTargeted(ranges[k])
      BY <2>0, <2>1, <3>3
    <3> QED BY <3>2, <3>3
  <2> QED BY <2>2, <2>3, <2>4 DEF StrictOrder
<1>4. ProcessingOrder = Ranked(R, n)
  <2>1. \A k \in 1..n : {i \in 1..n : ProcessedBefore(i, k)} = {j \in 1..n : <<j, k>> \in R}
    BY <1>2
  <2> HIDE DEF R
  <2>2. ASSUME NEW p \in 1..n
        PROVE  (CHOOSE j \in 1..n : Cardinality({i \in 1..n : ProcessedBefore(i, j)}) = p - 1)
                  = CHOOSE k \in 1..n : Cardinality({j \in 1..n : <<j, k>> \in R}) = p - 1
    <3>1. \A k \in 1..n : Cardinality({i \in 1..n : ProcessedBefore(i, k)}) = p - 1
                            <=> Cardinality({j \in 1..n : <<j, k>> \in R}) = p - 1
      BY <2>1
    <3> QED BY <3>1
  <2> DEFINE e1(p) == CHOOSE j \in 1..n : Cardinality({i \in 1..n : ProcessedBefore(i, j)}) = p - 1
             e2(p) == CHOOSE k \in 1..n : Cardinality({j \in 1..n : <<j, k>> \in R}) = p - 1
  <2>3. ProcessingOrder = [p \in 1..n |-> e1(p)]
    BY <1>1 DEF ProcessingOrder
  <2>4. Ranked(R, n) = [p \in 1..n |-> e2(p)]
    BY DEF Ranked
  <2>5. \A p \in 1..n : e1(p) = e2(p)
    BY <2>2
  <2> HIDE DEF e1, e2
  <2> QED BY <2>3, <2>4, <2>5
<1> HIDE DEF R
<1>5. /\ ProcessingOrder \in [1..n -> 1..n]
      /\ \A k \in 1..n : \E p \in 1..n : ProcessingOrder[p] = k
      /\ \A p, q \in 1..n : <<ProcessingOrder[p], ProcessingOrder[q]>> \in R => p < q
  <2>1. /\ Ranked(R, n) \in [1..n -> 1..n]
        /\ \A k \in 1..n : \E p \in 1..n : Ranked(R, n)[p] = k
        /\ \A p, q \in 1..n : <<Ranked(R, n)[p], Ranked(R, n)[q]>> \in R => p < q
    <3> HIDE DEF n
    <3>1. n \in Nat
      BY <1>1 DEF n
    <3> QED BY <1>3, <3>1, RankedOnce
  <2> QED BY <1>4, <2>1
<1>6. ASSUME NEW p \in 1..n, NEW q \in 1..n,
             IsTargeted(ranges[ProcessingOrder[p]]), ~IsTargeted(ranges[ProcessingOrder[q]])
      PROVE  p < q
  <2>1. ProcessingOrder[p] \in 1..n /\ ProcessingOrder[q] \in 1..n
    BY <1>5
  <2>2. ProcessedBefore(ProcessingOrder[p], ProcessingOrder[q])
    BY <1>6 DEF ProcessedBefore
  <2> QED BY <1>2, <1>5, <2>1, <2>2
<1>7. ProcessedCount \in 0..n
  BY <1>1, PageLimitsAssumption DEF ProcessedCount, Lower
<1> QED BY <1>5, <1>6, <1>7

\* The ranges and the selection of an observation.
RangesHeld == ranges \in RangeLists /\ selected \subseteq {r.name : r \in Range(ranges)}

ResourceFields == {"name", "total", "inspected", "resident", "nonresident", "unknown", "error", "targeted"}

\* How many of the first k pages of a range were seen resident.
Seen(r, k, obs) == Cardinality({i \in 0..(k - 1) : obs[Key(r, i)]})

\* A resource says of a range what was seen of its first pages.
Describes(res, r, obs) ==
    /\ DOMAIN res = ResourceFields
    /\ res.name = r.name /\ res.total = PageCount(r) /\ res.targeted = IsTargeted(r)
    /\ res.inspected \in 0..res.total
    /\ \A i \in 0..(res.inspected - 1) : Key(r, i) \in DOMAIN obs
    /\ res.inspected > 0 => AvailableFor(r)
    /\ res.resident = Seen(r, res.inspected, obs)
    /\ res.nonresident = res.inspected - res.resident

\* What was not inspected is unknown.
Answered(res) == res.unknown = res.total - res.inspected

\* No answer is missing but where mincore failed or nothing is mapped.
Complete(res) == res.error \/ res.unknown = 0

\* The pages asked about are pages of the inventory, within the budget.
ObservedHeld(obs) ==
    /\ DOMAIN obs \subseteq AllPages /\ \A p \in DOMAIN obs : obs[p] \in BOOLEAN
    /\ Cardinality(DOMAIN obs) <= MaxPages

WalkFields == {"order", "at", "index", "observed", "resource", "resources"}

\* The ranges reported so far: those that are short of an answer have used up
\* the budget.
ReportedHeld ==
    \A j \in 1..(walk.at - 1) :
       /\ Describes(walk.resources[j], ranges[ProcessingOrder[j]], walk.observed)
       /\ Answered(walk.resources[j])
       /\ Complete(walk.resources[j]) \/ Cardinality(DOMAIN walk.observed) = MaxPages

\* The range being walked.
InsideHeld ==
    walk.resource # <<>> =>
       /\ walk.at <= ProcessedCount
       /\ Describes(walk.resource, ranges[ProcessingOrder[walk.at]], walk.observed)
       /\ walk.index = walk.resource.inspected
       /\ AvailableFor(ranges[ProcessingOrder[walk.at]])

\* Once a page outside the selection was asked about, the selection is done.
TargetsDone ==
    \/ DOMAIN walk.observed \subseteq TargetPages
    \/ \A j \in 1..Len(ranges) :
          IsTargeted(ranges[ProcessingOrder[j]]) => j < walk.at /\ Complete(walk.resources[j])

\* The walk.
WalkHeld ==
    Walking =>
       /\ DOMAIN walk = WalkFields /\ walk.order = ProcessingOrder
       /\ walk.at \in 1..(ProcessedCount + 1)
       /\ DOMAIN walk.resources = 1..(walk.at - 1) /\ Len(walk.resources) = walk.at - 1
       /\ ObservedHeld(walk.observed) /\ ReportedHeld /\ InsideHeld /\ TargetsDone

\* The counts of a snapshot.
AddsUp(s) ==
    LET t == s.targeted
    IN  /\ s.resident + s.nonresident + s.unknown = s.total
        /\ s.inspected <= MaxPages
        /\ t.targetedSampled + t.targetedUnknown = t.targetedAvailable
        /\ t.generalSampled + t.generalUnknown = t.generalAvailable
        /\ t.fully + t.partially + t.notObserved = Cardinality(selected)

SnapshotHeld(s) ==
    /\ DOMAIN s.resources = 1..Len(ranges) /\ ObservedHeld(s.observed)
    /\ \A j \in 1..Len(ranges) :
          /\ Describes(s.resources[j], ranges[ProcessingOrder[j]], s.observed)
          /\ Answered(s.resources[j])
          /\ s.targeted.generalSampled > 0 /\ s.resources[j].targeted => Complete(s.resources[j])
    /\ AddsUp(s)

SnapshotsHeld ==
    /\ Len(snapshots) \in Nat /\ DOMAIN snapshots = 1..Len(snapshots)
    /\ \A i \in 1..Len(snapshots) : SnapshotHeld(snapshots[i])

PagesInv == RangesHeld /\ WalkHeld /\ SnapshotsHeld

\* What depends on the inventory, the selection and the mappings alone.
LEMMA Steady ==
    ASSUME UNCHANGED <<ranges, selected, mapped>>
    PROVE  /\ AllPages' = AllPages /\ TargetPages' = TargetPages
           /\ ProcessingOrder' = ProcessingOrder /\ ProcessedCount' = ProcessedCount
           /\ \A r : AvailableFor(r)' = AvailableFor(r) /\ IsTargeted(r)' = IsTargeted(r)
           /\ RangesHeld' = RangesHeld
           /\ \A res, r, obs : Describes(res, r, obs)' = Describes(res, r, obs)
           /\ \A obs : ObservedHeld(obs)' = ObservedHeld(obs)
           /\ \A s : SnapshotHeld(s)' = SnapshotHeld(s)
<1>1. ranges' = ranges /\ selected' = selected /\ mapped' = mapped
  OBVIOUS
<1>2. \A r : AvailableFor(r)' = AvailableFor(r) /\ IsTargeted(r)' = IsTargeted(r)
  BY <1>1 DEF AvailableFor, IsTargeted
<1>3. AllPages' = AllPages
  BY <1>1, <1>2 DEF AllPages, IntervalUnion
<1>4. TargetPages' = TargetPages
  BY <1>1, <1>2 DEF TargetPages, IntervalUnion
<1>5. ProcessingOrder' = ProcessingOrder
  BY <1>1 DEF ProcessingOrder, ProcessedBefore, IsTargeted
<1>6. ProcessedCount' = ProcessedCount
  BY <1>1 DEF ProcessedCount
<1>7. RangesHeld' = RangesHeld
  BY <1>1 DEF RangesHeld
<1>8. \A res, r, obs : Describes(res, r, obs)' = Describes(res, r, obs)
  BY <1>2 DEF Describes
<1>9. \A obs : ObservedHeld(obs)' = ObservedHeld(obs)
  BY <1>3 DEF ObservedHeld
<1>10. \A s : SnapshotHeld(s)' = SnapshotHeld(s)
  BY <1>1, <1>5, <1>8, <1>9 DEF SnapshotHeld, AddsUp
<1> QED BY <1>2, <1>3, <1>4, <1>5, <1>6, <1>7, <1>8, <1>9, <1>10

\* The pages seen resident are some of the pages seen.
LEMMA SeenSome ==
    ASSUME NEW r, NEW k \in Nat, NEW obs
    PROVE  Seen(r, k, obs) \in 0..k /\ (Seen(r, k, obs) = k => \A i \in 0..(k - 1) : obs[Key(r, i)])
<1> DEFINE D == 0..(k - 1)
           T == {i \in D : obs[Key(r, i)]}
<1>1. IsFiniteSet(D) /\ Cardinality(D) = k
  BY FS_Interval
<1>2. T \in SUBSET D /\ Seen(r, k, obs) = Cardinality(T)
  BY DEF Seen
<1> HIDE DEF D, T
<1>3. IsFiniteSet(T) /\ Cardinality(T) <= k /\ (Cardinality(T) = k => T = D) /\ Cardinality(T) \in Nat
  BY <1>1, <1>2, FS_Subset, FS_CardinalityType
<1>4. T = D => \A i \in D : obs[Key(r, i)]
  BY DEF T
<1> QED BY <1>2, <1>3, <1>4 DEF D

\* More answers change nothing that was answered.
LEMMA DescribesKept ==
    ASSUME NEW res, NEW r, NEW old, NEW new, Describes(res, r, old),
           DOMAIN old \subseteq DOMAIN new, \A p \in DOMAIN old : new[p] = old[p]
    PROVE  Describes(res, r, new)
<1>1. \A i \in 0..(res.inspected - 1) : Key(r, i) \in DOMAIN new /\ new[Key(r, i)] = old[Key(r, i)]
  BY DEF Describes
<1>2. {i \in 0..(res.inspected - 1) : new[Key(r, i)]} = {i \in 0..(res.inspected - 1) : old[Key(r, i)]}
  BY <1>1
<1>3. Seen(r, res.inspected, new) = Seen(r, res.inspected, old)
  BY <1>2 DEF Seen
<1> QED BY <1>1, <1>3 DEF Describes


\* Nothing is observed at first.
LEMMA PagesInvInit == PageInit => PagesInv
<1> SUFFICES ASSUME PageInit PROVE PagesInv
  OBVIOUS
<1>1. RangesHeld
  BY DEF PageInit, RangesHeld
<1>2. WalkHeld
  BY DEF PageInit, WalkHeld, Walking
<1>3. SnapshotsHeld
  <2>1. snapshots = <<>>
    BY DEF PageInit
  <2>2. Len(snapshots) = 0 /\ DOMAIN snapshots = 1..0
    BY <2>1
  <2> QED BY <2>2 DEF SnapshotsHeld
<1> QED BY <1>1, <1>2, <1>3 DEF PagesInv

\* The position the walk is at.
LEMMA PositionHeld ==
    ASSUME PagesInv, Walking, walk.at <= ProcessedCount
    PROVE  /\ walk.at \in 1..Len(ranges) /\ walk.at \in 1..ProcessedCount
           /\ ProcessingOrder[walk.at] \in 1..Len(ranges) /\ Len(ranges) \in Nat
           /\ CurrentRange = ranges[ProcessingOrder[walk.at]]
           /\ CurrentRange.start \in Nat /\ CurrentRange.end \in Nat
           /\ PageCount(CurrentRange) \in Nat
<1>1. Len(ranges) \in Nat /\ ProcessedCount \in 0..Len(ranges)
  BY OrderHeld, RangesRead DEF PagesInv, RangesHeld
<1>2. walk.at \in 1..ProcessedCount /\ walk.at \in 1..Len(ranges)
  BY <1>1 DEF PagesInv, WalkHeld
<1>3. ProcessingOrder[walk.at] \in 1..Len(ranges)
  BY <1>2, OrderHeld DEF PagesInv, RangesHeld
<1>4. CurrentRange = ranges[ProcessingOrder[walk.at]]
  BY DEF PagesInv, WalkHeld, CurrentRange
<1>5. CurrentRange.start \in Nat /\ CurrentRange.end \in Nat
  BY <1>3, <1>4, RangesRead DEF PagesInv, RangesHeld
<1>6. PageCount(CurrentRange) \in Nat
  BY <1>5, RangePages
<1> QED BY <1>1, <1>2, <1>3, <1>4, <1>5, <1>6

\* A walk begins.
LEMMA ObserveStep == ASSUME PagesInv, ObservePages PROVE PagesInv'
<1>1. UNCHANGED <<ranges, selected, mapped, snapshots>> /\ walk' = NewWalk
  BY DEF ObservePages
<1>2. /\ RangesHeld' /\ ProcessingOrder' = ProcessingOrder /\ ProcessedCount' = ProcessedCount
      /\ \A obs : ObservedHeld(obs)' = ObservedHeld(obs)
      /\ TargetPages' = TargetPages
  BY <1>1, Steady DEF PagesInv
<1>3. SnapshotsHeld'
  BY <1>1, Steady DEF PagesInv, SnapshotsHeld
<1>4. /\ DOMAIN walk' = WalkFields /\ walk'.order = ProcessingOrder /\ walk'.at = 1
      /\ walk'.resources = <<>> /\ walk'.observed = <<>> /\ walk'.resource = <<>>
  BY <1>1 DEF NewWalk, WalkFields
<1>5. DOMAIN walk'.resources = 1..0 /\ Len(walk'.resources) = 0 /\ DOMAIN walk'.observed = {}
  BY <1>4
<1>6. ProcessedCount \in Nat /\ Len(ranges) \in Nat
  <2>1. ProcessedCount \in 0..Len(ranges) /\ Len(ranges) \in Nat
    BY OrderHeld, RangesRead DEF PagesInv, RangesHeld
  <2> QED BY <2>1
<1>7. walk'.at \in 1..(ProcessedCount + 1) /\ walk'.at - 1 = 0
  BY <1>4, <1>6
<1>8. ObservedHeld(walk'.observed)
  <2>1. Cardinality(DOMAIN walk'.observed) = 0
    BY <1>5, FS_EmptySet
  <2> QED BY <1>5, <2>1, PageLimitsAssumption DEF ObservedHeld
<1>9. ReportedHeld'
  BY <1>7 DEF ReportedHeld
<1>10. InsideHeld' /\ TargetsDone'
  BY <1>4, <1>5 DEF InsideHeld, TargetsDone
<1>11. WalkHeld'
  BY <1>2, <1>4, <1>5, <1>7, <1>8, <1>9, <1>10 DEF WalkHeld
<1> QED BY <1>2, <1>3, <1>11 DEF PagesInv

\* The kernel's steps change nothing the walk knows.
LEMMA KernelMovesStep == ASSUME PagesInv, UNCHANGED <<ranges, selected, mapped, walk, snapshots>> PROVE PagesInv'
<1>1. /\ RangesHeld' /\ ProcessingOrder' = ProcessingOrder /\ ProcessedCount' = ProcessedCount
      /\ \A obs : ObservedHeld(obs)' = ObservedHeld(obs)
      /\ TargetPages' = TargetPages /\ ranges' = ranges /\ walk' = walk /\ snapshots' = snapshots
      /\ \A r : AvailableFor(r)' = AvailableFor(r) /\ IsTargeted(r)' = IsTargeted(r)
      /\ \A res, r, obs : Describes(res, r, obs)' = Describes(res, r, obs)
      /\ \A s : SnapshotHeld(s)' = SnapshotHeld(s)
  BY Steady DEF PagesInv
<1>2. SnapshotsHeld'
  BY <1>1 DEF PagesInv, SnapshotsHeld
<1>3. Walking' = Walking
  BY <1>1 DEF Walking
<1>4. ReportedHeld' = ReportedHeld /\ InsideHeld' = InsideHeld /\ TargetsDone' = TargetsDone
  BY <1>1 DEF ReportedHeld, InsideHeld, TargetsDone
<1>5. WalkHeld'
  BY <1>1, <1>3, <1>4 DEF PagesInv, WalkHeld
<1> QED BY <1>1, <1>2, <1>5 DEF PagesInv

\* A range is reported.
LEMMA RangeReported ==
    ASSUME PagesInv, Walking, walk.at <= ProcessedCount, NEW fin,
           Describes(fin, CurrentRange, walk.observed), Answered(fin),
           Complete(fin) \/ Cardinality(DOMAIN walk.observed) = MaxPages,
           UNCHANGED <<ranges, selected, mapped, snapshots>>,
           DOMAIN walk' = WalkFields, walk'.order = walk.order, walk'.observed = walk.observed,
           walk'.at = walk.at + 1, walk'.resource = <<>>,
           walk'.resources = Append(walk.resources, fin)
    PROVE  PagesInv'
<1>1. /\ RangesHeld' /\ ProcessingOrder' = ProcessingOrder /\ ProcessedCount' = ProcessedCount
      /\ \A obs : ObservedHeld(obs)' = ObservedHeld(obs)
      /\ TargetPages' = TargetPages /\ ranges' = ranges /\ snapshots' = snapshots
      /\ \A r : AvailableFor(r)' = AvailableFor(r) /\ IsTargeted(r)' = IsTargeted(r)
      /\ \A res, r, obs : Describes(res, r, obs)' = Describes(res, r, obs)
      /\ \A s : SnapshotHeld(s)' = SnapshotHeld(s)
  BY Steady DEF PagesInv
<1>2. SnapshotsHeld'
  BY <1>1 DEF PagesInv, SnapshotsHeld
<1>3. /\ walk.at \in 1..Len(ranges) /\ walk.at \in 1..ProcessedCount
      /\ CurrentRange = ranges[ProcessingOrder[walk.at]] /\ Len(ranges) \in Nat
  BY PositionHeld
<1>4. DOMAIN walk.resources = 1..(walk.at - 1) /\ Len(walk.resources) = walk.at - 1
  BY DEF PagesInv, WalkHeld
<1>5. /\ Len(walk'.resources) = walk.at /\ DOMAIN walk'.resources = 1..walk.at
      /\ walk'.resources[walk.at] = fin
      /\ \A j \in 1..(walk.at - 1) : walk'.resources[j] = walk.resources[j]
  <2>1. Len(walk.resources) \in Nat /\ DOMAIN walk.resources = 1..Len(walk.resources)
        /\ Len(walk.resources) + 1 = walk.at
    BY <1>3, <1>4
  <2> QED BY <1>4, <2>1, AppendSeen
<1>6. walk'.at \in 1..(ProcessedCount' + 1) /\ walk'.at - 1 = walk.at
  <2>1. ProcessedCount \in Int
    BY <1>3, OrderHeld DEF PagesInv, RangesHeld
  <2> QED BY <1>1, <1>3, <2>1
<1>7. ReportedHeld'
  <2> SUFFICES ASSUME NEW j \in 1..walk.at
               PROVE  /\ Describes(walk'.resources[j], ranges[ProcessingOrder[j]], walk.observed)
                      /\ Answered(walk'.resources[j])
                      /\ Complete(walk'.resources[j]) \/ Cardinality(DOMAIN walk.observed) = MaxPages
    BY <1>1, <1>6 DEF ReportedHeld, Answered, Complete
  <2>1. CASE j = walk.at
    BY <1>3, <1>5, <2>1
  <2>2. CASE j # walk.at
    <3>1. j \in 1..(walk.at - 1)
      BY <1>3, <2>2
    <3> QED BY <1>5, <3>1 DEF PagesInv, WalkHeld, ReportedHeld
  <2> QED BY <2>1, <2>2
<1>8. InsideHeld'
  BY DEF InsideHeld
<1>9. TargetsDone'
  <2>1. CASE DOMAIN walk.observed \subseteq TargetPages
    BY <1>1, <2>1 DEF TargetsDone
  <2>2. CASE \A j \in 1..Len(ranges) :
                IsTargeted(ranges[ProcessingOrder[j]]) => j < walk.at /\ Complete(walk.resources[j])
    <3> SUFFICES ASSUME NEW j \in 1..Len(ranges), IsTargeted(ranges[ProcessingOrder[j]])
                 PROVE  j < walk.at + 1 /\ Complete(walk'.resources[j])
      BY <1>1 DEF TargetsDone, Complete
    <3>1. j < walk.at /\ Complete(walk.resources[j])
      BY <2>2
    <3>2. j \in 1..(walk.at - 1)
      BY <1>3, <3>1
    <3> QED BY <1>3, <1>5, <3>1, <3>2
  <2> QED BY <2>1, <2>2 DEF PagesInv, WalkHeld, TargetsDone
<1>10. WalkHeld'
  BY <1>1, <1>5, <1>6, <1>7, <1>8, <1>9 DEF PagesInv, WalkHeld
<1> QED BY <1>1, <1>2, <1>10 DEF PagesInv

\* A range nothing was asked about yet.
LEMMA FreshDescribes ==
    ASSUME NEW r, PageCount(r) \in Nat, NEW unknown, NEW error, NEW obs
    PROVE  /\ Describes(NewResource(r, unknown, error), r, obs)
           /\ NewResource(r, unknown, error).inspected = 0
           /\ NewResource(r, unknown, error).unknown = unknown
           /\ NewResource(r, unknown, error).total = PageCount(r)
           /\ NewResource(r, unknown, error).error = error
           /\ NewResource(r, unknown, error).targeted = IsTargeted(r)
<1> DEFINE res == NewResource(r, unknown, error)
<1>1. /\ DOMAIN res = ResourceFields /\ res.name = r.name /\ res.total = PageCount(r)
      /\ res.targeted = IsTargeted(r) /\ res.inspected = 0 /\ res.resident = 0
      /\ res.nonresident = 0 /\ res.unknown = unknown /\ res.error = error
  BY DEF NewResource, ResourceFields
<1> HIDE DEF res
<1>2. Seen(r, 0, obs) = 0
  <2>1. {i \in 0..(0 - 1) : obs[Key(r, i)]} = {}
    OBVIOUS
  <2> QED BY <2>1, FS_EmptySet DEF Seen
<1>3. Describes(res, r, obs)
  BY <1>1, <1>2 DEF Describes
<1> QED BY <1>1, <1>3 DEF res

\* The range being walked changes, or pages are asked about.
LEMMA InsideStep ==
    ASSUME PagesInv, Walking, walk.at <= ProcessedCount, NEW res, NEW obs,
           ObservedHeld(obs), DOMAIN walk.observed \subseteq DOMAIN obs,
           \A p \in DOMAIN walk.observed : obs[p] = walk.observed[p],
           Describes(res, CurrentRange, obs), AvailableFor(CurrentRange),
           Cardinality(DOMAIN walk.observed) = MaxPages => Cardinality(DOMAIN obs) = MaxPages,
           \/ DOMAIN obs = DOMAIN walk.observed
           \/ DOMAIN walk.observed \subseteq TargetPages /\ DOMAIN obs \subseteq TargetPages
           \/ \A j \in 1..Len(ranges) :
                 IsTargeted(ranges[ProcessingOrder[j]]) => j < walk.at /\ Complete(walk.resources[j]),
           UNCHANGED <<ranges, selected, mapped, snapshots>>,
           DOMAIN walk' = WalkFields, walk'.order = walk.order, walk'.at = walk.at,
           walk'.resources = walk.resources, walk'.observed = obs, walk'.resource = res,
           walk'.index = res.inspected
    PROVE  PagesInv'
<1>1. /\ RangesHeld' /\ ProcessingOrder' = ProcessingOrder /\ ProcessedCount' = ProcessedCount
      /\ \A o : ObservedHeld(o)' = ObservedHeld(o)
      /\ TargetPages' = TargetPages /\ ranges' = ranges /\ snapshots' = snapshots
      /\ \A r : AvailableFor(r)' = AvailableFor(r) /\ IsTargeted(r)' = IsTargeted(r)
      /\ \A x, r, o : Describes(x, r, o)' = Describes(x, r, o)
      /\ \A s : SnapshotHeld(s)' = SnapshotHeld(s)
  BY Steady DEF PagesInv
<1>2. SnapshotsHeld'
  BY <1>1 DEF PagesInv, SnapshotsHeld
<1>3. CurrentRange = ranges[ProcessingOrder[walk.at]]
  BY PositionHeld
<1>4. ReportedHeld'
  <2> SUFFICES ASSUME NEW j \in 1..(walk.at - 1)
               PROVE  /\ Describes(walk.resources[j], ranges[ProcessingOrder[j]], obs)
                      /\ Answered(walk.resources[j])
                      /\ Complete(walk.resources[j]) \/ Cardinality(DOMAIN obs) = MaxPages
    BY <1>1 DEF ReportedHeld, Answered, Complete
  <2>1. /\ Describes(walk.resources[j], ranges[ProcessingOrder[j]], walk.observed)
        /\ Answered(walk.resources[j])
        /\ Complete(walk.resources[j]) \/ Cardinality(DOMAIN walk.observed) = MaxPages
    BY DEF PagesInv, WalkHeld, ReportedHeld
  <2>2. Describes(walk.resources[j], ranges[ProcessingOrder[j]], obs)
    BY <2>1, DescribesKept
  <2> QED BY <2>1, <2>2
<1>5. InsideHeld'
  BY <1>1, <1>3 DEF InsideHeld
<1>6. TargetsDone'
  <2>1. \/ DOMAIN obs \subseteq TargetPages
        \/ \A j \in 1..Len(ranges) :
              IsTargeted(ranges[ProcessingOrder[j]]) => j < walk.at /\ Complete(walk.resources[j])
    BY DEF PagesInv, WalkHeld, TargetsDone
  <2> QED BY <1>1, <2>1 DEF TargetsDone, Complete
<1>7. WalkHeld'
  BY <1>1, <1>4, <1>5, <1>6 DEF PagesInv, WalkHeld
<1> QED BY <1>1, <1>2, <1>7 DEF PagesInv

\* The next range is taken up, or reported at once.
LEMMA BeginStep == ASSUME PagesInv, BeginResource PROVE PagesInv'
<1> DEFINE r == CurrentRange
           skip == PageCount(r) = 0 \/ ~AvailableFor(r)
           fresh == NewResource(r, IF skip THEN PageCount(r) ELSE 0, PageCount(r) > 0 /\ skip)
<1>1. /\ Walking /\ walk.resource = <<>> /\ walk.at <= ProcessedCount
      /\ UNCHANGED <<ranges, selected, mapped, snapshots>>
      /\ walk' = IF skip THEN [walk EXCEPT !.resources = Append(@, fresh), !.at = @ + 1]
                 ELSE [walk EXCEPT !.resource = fresh, !.index = 0]
  BY DEF BeginResource, AtNextResource
<1>2. DOMAIN walk = WalkFields
  BY <1>1 DEF PagesInv, WalkHeld
<1>3. PageCount(r) \in Nat
  BY <1>1, PositionHeld
<1>4. /\ Describes(fresh, r, walk.observed) /\ fresh.inspected = 0
      /\ fresh.unknown = (IF skip THEN PageCount(r) ELSE 0) /\ fresh.total = PageCount(r)
      /\ fresh.error = (PageCount(r) > 0 /\ skip)
  BY <1>3, FreshDescribes
<1> HIDE DEF fresh
<1>5. CASE skip
  <2>1. /\ DOMAIN walk' = WalkFields /\ walk'.order = walk.order /\ walk'.observed = walk.observed
        /\ walk'.at = walk.at + 1 /\ walk'.resource = <<>>
        /\ walk'.resources = Append(walk.resources, fresh)
    BY <1>1, <1>2, <1>5 DEF WalkFields
  <2>2. Answered(fresh)
    BY <1>3, <1>4, <1>5 DEF Answered
  <2>3. Complete(fresh)
    <3>1. CASE PageCount(r) = 0
      BY <1>4, <1>5, <3>1 DEF Complete
    <3>2. CASE PageCount(r) # 0
      <4>1. PageCount(r) > 0
        BY <1>3, <3>2
      <4> HIDE DEF r
      <4>2. fresh.error
        BY <1>4, <1>5, <4>1
      <4> QED BY <4>2 DEF Complete
    <3> QED BY <3>1, <3>2
  <2> HIDE DEF r
  <2>4. CurrentRange = r
    BY DEF r
  <2> QED BY <1>1, <1>4, <2>1, <2>2, <2>3, <2>4, RangeReported
<1>6. CASE ~skip
  <2>1. /\ DOMAIN walk' = WalkFields /\ walk'.order = walk.order /\ walk'.observed = walk.observed
        /\ walk'.at = walk.at /\ walk'.resource = fresh /\ walk'.index = fresh.inspected
        /\ walk'.resources = walk.resources
    BY <1>1, <1>2, <1>4, <1>6 DEF WalkFields
  <2>2. ObservedHeld(walk.observed)
    BY <1>1 DEF PagesInv, WalkHeld
  <2> QED BY <1>1, <1>4, <1>6, <2>1, <2>2, InsideStep
<1> QED BY <1>5, <1>6

\* One more page of a range was seen.
LEMMA SeenNext ==
    ASSUME NEW r, NEW k \in Nat, NEW obs
    PROVE  Seen(r, k + 1, obs) = Seen(r, k, obs) + IF obs[Key(r, k)] THEN 1 ELSE 0
<1> DEFINE T == {i \in 0..(k - 1) : obs[Key(r, i)]}
           U == {i \in 0..(k + 1 - 1) : obs[Key(r, i)]}
<1>1. IsFiniteSet(T) /\ k \notin T
  <2>1. IsFiniteSet(0..(k - 1))
    BY FS_Interval
  <2> QED BY <2>1, FS_Subset
<1>2. Seen(r, k, obs) = Cardinality(T) /\ Seen(r, k + 1, obs) = Cardinality(U) /\ Cardinality(T) \in Nat
  BY <1>1, FS_CardinalityType DEF Seen
<1>3. CASE obs[Key(r, k)]
  <2>1. U = T \cup {k}
    BY <1>3
  <2> HIDE DEF T, U
  <2> QED BY <1>1, <1>2, <1>3, <2>1, FS_AddElement
<1>4. CASE ~obs[Key(r, k)]
  <2>1. U = T
    BY <1>4
  <2> HIDE DEF T, U
  <2> QED BY <1>2, <1>4, <2>1
<1> QED BY <1>3, <1>4

\* The next pages of a range are answered, some of them resident.
LEMMA DescribesMore ==
    ASSUME NEW r, PageCount(r) \in Nat, AvailableFor(r), NEW res, NEW old, Describes(res, r, old),
           NEW n \in Nat, res.inspected + n <= PageCount(r), NEW m \in 0..n, NEW new,
           DOMAIN old \subseteq DOMAIN new, \A p \in DOMAIN old : new[p] = old[p],
           \A i \in 0..(n - 1) : Key(r, res.inspected + i) \in DOMAIN new,
           Seen(r, res.inspected + n, new) = Seen(r, res.inspected, new) + m
    PROVE  /\ Describes(Answer(res, m, n), r, new)
           /\ Answer(res, m, n).inspected = res.inspected + n
<1> DEFINE more == Answer(res, m, n)
<1>1. Describes(res, r, new)
  BY DescribesKept
<1>2. /\ DOMAIN res = ResourceFields /\ res.name = r.name /\ res.total = PageCount(r)
      /\ res.targeted = IsTargeted(r) /\ res.inspected \in 0..res.total
      /\ \A i \in 0..(res.inspected - 1) : Key(r, i) \in DOMAIN new
      /\ res.resident = Seen(r, res.inspected, new)
      /\ res.nonresident = res.inspected - res.resident
  BY <1>1 DEF Describes
<1>3. /\ DOMAIN more = ResourceFields /\ more.name = res.name /\ more.total = res.total
      /\ more.targeted = res.targeted /\ more.inspected = res.inspected + n
      /\ more.resident = res.resident + m /\ more.nonresident = res.nonresident + (n - m)
  BY <1>2 DEF Answer, ResourceFields
<1> HIDE DEF more
<1>4. PICK k \in Nat : k = res.inspected
  BY <1>2
<1>5. Seen(r, k, new) \in 0..k
  BY SeenSome
<1>6. more.resident = Seen(r, more.inspected, new)
  BY <1>2, <1>3
<1>7. more.nonresident = more.inspected - more.resident
  <2>1. res.resident \in Int /\ res.inspected \in Int
    BY <1>2, <1>4, <1>5
  <2> QED BY <1>2, <1>3, <2>1
<1>8. more.inspected \in 0..more.total
  BY <1>2, <1>3, <1>4
<1>9. ASSUME NEW i \in 0..(more.inspected - 1) PROVE Key(r, i) \in DOMAIN new
  <2>1. CASE i < k
    <3>1. i \in 0..(res.inspected - 1)
      BY <1>4, <2>1
    <3> QED BY <1>2, <3>1
  <2>2. CASE k <= i
    <3>1. i - k \in 0..(n - 1) /\ res.inspected + (i - k) = i
      BY <1>3, <1>4, <2>2
    <3>2. Key(r, res.inspected + (i - k)) \in DOMAIN new
      BY <3>1
    <3> QED BY <3>1, <3>2
  <2> QED BY <1>4, <2>1, <2>2
<1>10. more.name = r.name /\ more.total = PageCount(r) /\ more.targeted = IsTargeted(r)
  BY <1>2, <1>3
<1>11. Describes(more, r, new)
  BY <1>3, <1>6, <1>7, <1>8, <1>9, <1>10 DEF Describes
<1> QED BY <1>3, <1>11 DEF more

\* A page is answered from memory.
LEMMA ReuseStep == ASSUME PagesInv, ReuseObserved PROVE PagesInv'
<1> DEFINE r == CurrentRange
           k == walk.index
           hit == IF walk.observed[Key(r, k)] THEN 1 ELSE 0
           res == Answer(walk.resource, hit, 1)
<1>1. /\ Walking /\ walk.resource # <<>> /\ k < walk.resource.total
      /\ Key(r, k) \in DOMAIN walk.observed
      /\ UNCHANGED <<ranges, selected, mapped, snapshots>>
      /\ walk' = [walk EXCEPT !.index = @ + 1, !.resource = Answer(@, hit, 1)]
  BY DEF ReuseObserved, InsideResource
<1>2. /\ DOMAIN walk = WalkFields /\ walk.at <= ProcessedCount
      /\ k = walk.resource.inspected /\ AvailableFor(ranges[ProcessingOrder[walk.at]])
      /\ Describes(walk.resource, ranges[ProcessingOrder[walk.at]], walk.observed)
      /\ ObservedHeld(walk.observed)
  BY <1>1 DEF PagesInv, WalkHeld, InsideHeld
<1>3. r = ranges[ProcessingOrder[walk.at]] /\ PageCount(r) \in Nat
  BY <1>1, <1>2, PositionHeld
<1>4. /\ DOMAIN walk' = WalkFields /\ walk'.order = walk.order /\ walk'.observed = walk.observed
      /\ walk'.at = walk.at /\ walk'.resource = res /\ walk'.index = k + 1
      /\ walk'.resources = walk.resources
  BY <1>1, <1>2 DEF WalkFields
<1>5. k \in Nat /\ k < PageCount(r) /\ walk.resource.total = PageCount(r) /\ AvailableFor(r)
  BY <1>1, <1>2, <1>3 DEF Describes
<1>6. Describes(res, r, walk.observed) /\ res.inspected = k + 1
  <2>1. Seen(r, k + 1, walk.observed) = Seen(r, k, walk.observed) + hit
    BY <1>5, SeenNext
  <2>2. hit \in 0..1
    OBVIOUS
  <2>3. \A i \in 0..(1 - 1) : Key(r, k + i) \in DOMAIN walk.observed
    <3> TAKE i \in 0..(1 - 1)
    <3>1. k + i = k
      BY <1>5
    <3> QED BY <1>1, <3>1
  <2>4. k + 1 <= PageCount(r)
    BY <1>3, <1>5
  <2>5. Describes(walk.resource, r, walk.observed)
    BY <1>2, <1>3
  <2> HIDE DEF r, hit
  <2> QED BY <1>2, <1>3, <1>5, <2>1, <2>2, <2>3, <2>4, <2>5, DescribesMore
<1>7. /\ Describes(res, CurrentRange, walk.observed) /\ AvailableFor(CurrentRange)
      /\ walk'.index = res.inspected
  BY <1>4, <1>5, <1>6
<1> HIDE DEF r, k, hit, res
<1> QED BY <1>1, <1>2, <1>4, <1>7, InsideStep

\* The run of pages the next mincore call asks about.
LEMMA RunHeld ==
    ASSUME PagesInv, InsideResource, walk.index < walk.resource.total
    PROVE  /\ RunLength \in Nat /\ walk.index + RunLength <= walk.resource.total
           /\ Cardinality(DOMAIN walk.observed) \in Nat
           /\ Cardinality(DOMAIN walk.observed) + RunLength <= MaxPages
           /\ \A k \in 0..(RunLength - 1) : Key(CurrentRange, walk.index + k) \notin DOMAIN walk.observed
           /\ RunLength = 0 /\ Key(CurrentRange, walk.index) \notin DOMAIN walk.observed =>
                 Cardinality(DOMAIN walk.observed) = MaxPages
<1> DEFINE C == Cardinality(DOMAIN walk.observed)
           fits(n) == /\ walk.index + n <= walk.resource.total
                      /\ \A k \in 0..(n - 1) : Key(CurrentRange, walk.index + k) \notin DOMAIN walk.observed
           S == {n \in 0..BudgetLeft : fits(n)}
<1>1. /\ walk.index \in Nat /\ walk.resource.total \in Nat
      /\ DOMAIN walk.observed \subseteq AllPages /\ C <= MaxPages
  <2>1. /\ Describes(walk.resource, ranges[ProcessingOrder[walk.at]], walk.observed)
        /\ walk.index = walk.resource.inspected /\ walk.at <= ProcessedCount /\ Walking
        /\ ObservedHeld(walk.observed)
    BY DEF InsideResource, PagesInv, WalkHeld, InsideHeld
  <2>2. PageCount(ranges[ProcessingOrder[walk.at]]) \in Nat
    BY <2>1, PositionHeld
  <2> QED BY <2>1, <2>2 DEF Describes, ObservedHeld
<1>2. C \in Nat
  <2>1. IsFiniteSet(AllPages)
    BY PagesHeld DEF PagesInv, RangesHeld
  <2>2. IsFiniteSet(DOMAIN walk.observed)
    BY <1>1, <2>1, FS_Subset
  <2> QED BY <2>2, FS_CardinalityType
<1>3. BudgetLeft \in Nat /\ C + BudgetLeft = MaxPages
  <2>1. BudgetLeft = IF C >= MaxPages THEN 0 ELSE MaxPages - C
    BY DEF BudgetLeft
  <2> HIDE DEF C
  <2> QED BY <1>1, <1>2, <2>1, PageLimitsAssumption
<1>4. RunLength = Max(S)
  BY DEF RunLength
<1>5. S \subseteq Nat /\ IsFiniteSet(S) /\ 0 \in S
  <2>1. IsFiniteSet(0..BudgetLeft)
    BY <1>3, FS_Interval
  <2>2. fits(0)
    BY <1>1
  <2> HIDE DEF fits
  <2> QED BY <1>3, <2>1, <2>2, FS_Subset
<1>6. Max(S) \in S /\ \A n \in S : n <= Max(S)
  <2> HIDE DEF S
  <2> QED BY <1>5, GreatestOf
<1>7. RunLength \in 0..BudgetLeft /\ fits(RunLength)
  <2> HIDE DEF fits
  <2> QED BY <1>4, <1>6
<1>8. ASSUME RunLength = 0, Key(CurrentRange, walk.index) \notin DOMAIN walk.observed
      PROVE  C = MaxPages
  <2> SUFFICES ASSUME BudgetLeft # 0 PROVE FALSE
    BY <1>2, <1>3
  <2>1. fits(1)
    <3>1. walk.index + 1 <= walk.resource.total
      BY <1>1
    <3>2. \A k \in 0..(1 - 1) : walk.index + k = walk.index
      BY <1>1
    <3> QED BY <1>8, <3>1, <3>2
  <2>2. 1 \in 0..BudgetLeft
    BY <1>3
  <2> HIDE DEF fits
  <2>3. 1 \in S
    BY <2>1, <2>2
  <2> HIDE DEF S
  <2> QED BY <1>4, <1>6, <1>8, <2>3
<1>9. RunLength \in Nat /\ C + RunLength <= MaxPages
  <2> HIDE DEF C
  <2> QED BY <1>2, <1>3, <1>7
<1> QED BY <1>2, <1>7, <1>8, <1>9

\* A range ends, with all its pages answered, the budget spent, or a failure.
LEMMA EndStep ==
    ASSUME PagesInv, InsideResource, NEW failed \in BOOLEAN,
           failed \/ walk.index = walk.resource.total \/ Cardinality(DOMAIN walk.observed) = MaxPages,
           walk' = [walk EXCEPT !.resources = Append(@, Finished(walk.resource, failed)),
                                !.resource = <<>>, !.at = @ + 1],
           UNCHANGED <<ranges, selected, mapped, snapshots>>
    PROVE  PagesInv'
<1> DEFINE res == walk.resource
           fin == Finished(res, failed)
<1>1. /\ DOMAIN walk = WalkFields /\ walk.at <= ProcessedCount /\ Walking
      /\ walk.index = res.inspected
      /\ Describes(res, ranges[ProcessingOrder[walk.at]], walk.observed)
  BY DEF PagesInv, WalkHeld, InsideHeld, InsideResource
<1>2. CurrentRange = ranges[ProcessingOrder[walk.at]] /\ PageCount(CurrentRange) \in Nat
  BY <1>1, PositionHeld
<1>3. Describes(res, CurrentRange, walk.observed)
  BY <1>1, <1>2
<1>4. /\ DOMAIN fin = ResourceFields /\ fin.name = res.name /\ fin.total = res.total
      /\ fin.targeted = res.targeted /\ fin.inspected = res.inspected
      /\ fin.resident = res.resident /\ fin.nonresident = res.nonresident
      /\ fin.unknown = res.total - res.inspected /\ fin.error = failed
  <2>1. DOMAIN res = ResourceFields
    BY <1>3 DEF Describes
  <2> HIDE DEF res
  <2> QED BY <2>1 DEF Finished, ResourceFields
<1>5. /\ DOMAIN walk' = WalkFields /\ walk'.order = walk.order /\ walk'.observed = walk.observed
      /\ walk'.at = walk.at + 1 /\ walk'.resource = <<>>
      /\ walk'.resources = Append(walk.resources, fin)
  BY <1>1 DEF WalkFields
<1> HIDE DEF fin
<1>6. Describes(fin, CurrentRange, walk.observed) /\ Answered(fin)
  BY <1>3, <1>4 DEF Describes, Answered
<1>7. Complete(fin) \/ Cardinality(DOMAIN walk.observed) = MaxPages
  <2>1. CASE failed
    BY <1>4, <2>1 DEF Complete
  <2>2. CASE walk.index = res.total
    <3>1. res.inspected = res.total /\ res.total \in Nat
      BY <1>1, <1>2, <1>3, <2>2 DEF Describes
    <3>2. fin.unknown = 0
      BY <1>4, <3>1
    <3> QED BY <3>2 DEF Complete
  <2> QED BY <2>1, <2>2
<1> QED BY <1>1, <1>5, <1>6, <1>7, RangeReported

\* A range is done, or the budget is.
LEMMA EndResourceStep == ASSUME PagesInv, EndResource PROVE PagesInv'
<1>1. /\ InsideResource
      /\ walk' = [walk EXCEPT !.resources = Append(@, Finished(walk.resource, FALSE)),
                              !.resource = <<>>, !.at = @ + 1]
      /\ UNCHANGED <<ranges, selected, mapped, snapshots>>
  BY DEF EndResource
<1>2. \/ walk.index = walk.resource.total
      \/ Key(CurrentRange, walk.index) \notin DOMAIN walk.observed /\ RunLength = 0
  BY DEF EndResource
<1>3. walk.index = walk.resource.total \/ Cardinality(DOMAIN walk.observed) = MaxPages
  <2>1. walk.index <= walk.resource.total /\ walk.index \in Int /\ walk.resource.total \in Int
    <3>1. /\ Describes(walk.resource, ranges[ProcessingOrder[walk.at]], walk.observed)
          /\ walk.index = walk.resource.inspected /\ walk.at <= ProcessedCount /\ Walking
      BY <1>1 DEF InsideResource, PagesInv, WalkHeld, InsideHeld
    <3>2. PageCount(ranges[ProcessingOrder[walk.at]]) \in Nat
      BY <3>1, PositionHeld
    <3> QED BY <3>1, <3>2 DEF Describes
  <2> QED BY <1>1, <1>2, <2>1, RunHeld
<1> QED BY <1>1, <1>3, EndStep

\* Mincore fails.
LEMMA FailStep == ASSUME PagesInv, MincoreFails PROVE PagesInv'
BY EndStep DEF MincoreFails

\* The answers of one call: as many more pages seen resident as are resident in
\* the run.
RunAnswered(asked, r, k, n, new, held) ==
    /\ \A p : p \in asked <=> \E i \in 0..(n - 1) : p = Key(r, k + i)
    /\ \A i \in 0..(n - 1) : new[Key(r, k + i)] <=> Key(r, k + i) \in held

LEMMA SeenRun ==
    ASSUME NEW r, r.start \in Nat, r.end \in Nat, NEW k \in Nat, NEW n \in Nat, NEW new, NEW held,
           NEW asked, RunAnswered(asked, r, k, n, new, held)
    PROVE  /\ Seen(r, k + n, new) = Seen(r, k, new) + Cardinality(asked \intersect held)
           /\ Cardinality(asked \intersect held) \in 0..n
           /\ IsFiniteSet(asked) /\ Cardinality(asked) = n
<1> DEFINE D == 0..(n - 1)
           f == [i \in D |-> Key(r, k + i)]
           run == {Key(r, k + i) : i \in D}
           A == {i \in 0..(k - 1) : new[Key(r, i)]}
           B == {i \in k..(k + n - 1) : new[Key(r, i)]}
           g == [i \in B |-> Key(r, i)]
<1> USE DEF RunAnswered
<1>1. IsFiniteSet(D) /\ Cardinality(D) = n
  <2>1. 0 \in Int /\ n - 1 \in Int
    OBVIOUS
  <2>2. IsFiniteSet(D) /\ Cardinality(D) = IF 0 > n - 1 THEN 0 ELSE n - 1 - 0 + 1
    BY <2>1, FS_Interval
  <2> HIDE DEF D
  <2> QED BY <2>2
<1>2. run = {f[i] : i \in D}
  OBVIOUS
<1>3. \A i, j \in D : f[i] = f[j] => i = j
  <2> SUFFICES ASSUME NEW i \in D, NEW j \in D, Key(r, k + i) = Key(r, k + j) PROVE i = j
    OBVIOUS
  <2>1. k + i \in Nat /\ k + j \in Nat
    OBVIOUS
  <2>2. k + i = k + j
    BY <2>1, RangePages
  <2> QED BY <2>2
<1>4. IsFiniteSet(run) /\ Cardinality(run) = n
  <2> HIDE DEF f, D, run
  <2> QED BY <1>1, <1>2, <1>3, ImageOf
<1>5. Cardinality(run \intersect held) \in 0..n
  <2>1. IsFiniteSet(run \intersect held) /\ Cardinality(run \intersect held) <= Cardinality(run)
    BY <1>4, FS_Subset
  <2> QED BY <1>4, <2>1, FS_CardinalityType
<1>6. IsFiniteSet(B) /\ IsFiniteSet(A)
  <2>0. k \in Int /\ k + n - 1 \in Int /\ 0 \in Int /\ k - 1 \in Int
    OBVIOUS
  <2>1. IsFiniteSet(k..(k + n - 1)) /\ IsFiniteSet(0..(k - 1))
    BY <2>0, FS_Interval
  <2> QED BY <2>1, FS_Subset
<1>7. run \intersect held = {g[i] : i \in B}
  <2>1. \A p : p \in run \intersect held => \E i \in B : p = Key(r, i)
    <3> SUFFICES ASSUME NEW i \in D, Key(r, k + i) \in held PROVE \E j \in B : Key(r, k + i) = Key(r, j)
      OBVIOUS
    <3>1. k + i \in k..(k + n - 1)
      OBVIOUS
    <3>2. new[Key(r, k + i)]
      OBVIOUS
    <3> QED BY <3>1, <3>2
  <2>2. ASSUME NEW i \in B PROVE Key(r, i) \in run \intersect held
    <3>1. i - k \in D /\ k + (i - k) = i
      OBVIOUS
    <3>2. Key(r, k + (i - k)) \in run
      BY <3>1
    <3>3. new[Key(r, k + (i - k))] <=> Key(r, k + (i - k)) \in held
      BY <3>1
    <3> QED BY <3>1, <3>2, <3>3
  <2>3. \A i \in B : g[i] = Key(r, i)
    OBVIOUS
  <2> HIDE DEF B, g, run
  <2> QED BY <2>1, <2>2, <2>3
<1>8. \A i, j \in B : g[i] = g[j] => i = j
  <2> SUFFICES ASSUME NEW i \in B, NEW j \in B, Key(r, i) = Key(r, j) PROVE i = j
    OBVIOUS
  <2>1. i \in Nat /\ j \in Nat
    OBVIOUS
  <2> QED BY <2>1, RangePages
<1>9. Cardinality(run \intersect held) = Cardinality(B)
  <2> HIDE DEF g, B, run
  <2> QED BY <1>6, <1>7, <1>8, ImageOf
<1>10. {i \in 0..(k + n - 1) : new[Key(r, i)]} = A \cup B /\ A \intersect B = {}
  OBVIOUS
<1>11. Cardinality(A \cup B) = Cardinality(A) + Cardinality(B)
  <2>1. A \intersect B = {}
    BY <1>10
  <2> HIDE DEF A, B
  <2>2. Cardinality(A \cup B) = Cardinality(A) + Cardinality(B) - Cardinality(A \intersect B)
    BY <1>6, FS_Union
  <2>3. Cardinality(A \intersect B) = 0
    BY <2>1, FS_EmptySet
  <2>4. Cardinality(A) \in Nat /\ Cardinality(B) \in Nat
    BY <1>6, FS_CardinalityType
  <2> QED BY <2>2, <2>3, <2>4
<1>12. Seen(r, k + n, new) = Seen(r, k, new) + Cardinality(run \intersect held)
  <2>1. Seen(r, k, new) = Cardinality(A)
    BY DEF Seen
  <2>2. Seen(r, k + n, new) = Cardinality({i \in 0..(k + n - 1) : new[Key(r, i)]})
    BY DEF Seen
  <2>3. {i \in 0..(k + n - 1) : new[Key(r, i)]} = A \cup B
    BY <1>10
  <2> HIDE DEF A, B, run
  <2> QED BY <1>9, <1>11, <2>1, <2>2, <2>3
<1>13. asked = run
  OBVIOUS
<1> HIDE DEF run
<1> QED BY <1>13, <1>4, <1>5, <1>12

\* The kernel answers for a run of pages.
LEMMA MincoreStep == ASSUME PagesInv, Mincore PROVE PagesInv'
<1> DEFINE r == CurrentRange
           k == walk.index
           n == RunLength
           old == walk.observed
           run == {Key(r, k + i) : i \in 0..(n - 1)}
           m == Cardinality(run \intersect memory)
           new == [p \in DOMAIN old \union run |-> IF p \in run THEN p \in memory ELSE old[p]]
           res == Answer(walk.resource, m, n)
<1>1. /\ InsideResource /\ k < walk.resource.total /\ n > 0
      /\ UNCHANGED <<ranges, selected, mapped, snapshots>>
      /\ walk' = [walk EXCEPT !.index = @ + n, !.observed = new, !.resource = res]
  <2>1. walk' = [walk EXCEPT
           !.index = @ + RunLength,
           !.observed = [p \in DOMAIN @ \union run |-> IF p \in run THEN p \in memory ELSE @[p]],
           !.resource = Answer(@, Cardinality(run \intersect memory), RunLength)]
    BY DEF Mincore
  <2> QED BY <2>1 DEF Mincore
<1>2. /\ DOMAIN walk = WalkFields /\ walk.at <= ProcessedCount /\ Walking
      /\ k = walk.resource.inspected /\ AvailableFor(ranges[ProcessingOrder[walk.at]])
      /\ Describes(walk.resource, ranges[ProcessingOrder[walk.at]], old)
      /\ ObservedHeld(old) /\ ReportedHeld /\ TargetsDone
  BY <1>1 DEF PagesInv, WalkHeld, InsideHeld, InsideResource
<1>3. /\ r = ranges[ProcessingOrder[walk.at]] /\ PageCount(r) \in Nat
      /\ r.start \in Nat /\ r.end \in Nat
      /\ walk.at \in 1..Len(ranges) /\ ProcessingOrder[walk.at] \in 1..Len(ranges) /\ Len(ranges) \in Nat
  BY <1>2, PositionHeld
<1>4. /\ n \in Nat /\ k + n <= walk.resource.total
      /\ Cardinality(DOMAIN old) \in Nat /\ Cardinality(DOMAIN old) + n <= MaxPages
      /\ \A i \in 0..(n - 1) : Key(r, k + i) \notin DOMAIN old
  BY <1>1, RunHeld
<1>5. k \in Nat /\ walk.resource.total = PageCount(r) /\ AvailableFor(r)
  BY <1>2, <1>3 DEF Describes
<1>6. /\ DOMAIN walk' = WalkFields /\ walk'.order = walk.order /\ walk'.observed = new
      /\ walk'.at = walk.at /\ walk'.resource = res /\ walk'.index = k + n
      /\ walk'.resources = walk.resources
  <2> HIDE DEF new, res, k, n
  <2>1. walk' = [walk EXCEPT !.index = @ + n, !.observed = new, !.resource = res]
    BY <1>1
  <2> QED BY <1>2, <2>1 DEF WalkFields, k
<1>7. \A i \in 0..(n - 1) : Key(r, k + i) \in run
  OBVIOUS
<1>8. run \intersect DOMAIN old = {}
  BY <1>4
<1>9. /\ DOMAIN new = DOMAIN old \cup run
      /\ \A p \in run : new[p] = (p \in memory)
      /\ \A p \in DOMAIN old : new[p] = old[p]
  <2>1. DOMAIN new = DOMAIN old \cup run /\ \A p \in DOMAIN old \cup run : new[p] = IF p \in run THEN p \in memory ELSE old[p]
    OBVIOUS
  <2> HIDE DEF new, run, old
  <2> QED BY <1>8, <2>1
<1>10. /\ Seen(r, k + n, new) = Seen(r, k, new) + m /\ m \in 0..n
       /\ IsFiniteSet(run) /\ Cardinality(run) = n
  <2>1. \A i \in 0..(n - 1) : new[Key(r, k + i)] <=> Key(r, k + i) \in memory
    <3> HIDE DEF new, r, k, n, run
    <3> TAKE i \in 0..(n - 1)
    <3>1. Key(r, k + i) \in run
      BY <1>7
    <3>2. new[Key(r, k + i)] = (Key(r, k + i) \in memory)
      BY <1>9, <3>1, Zenon
    <3> QED BY <3>2, Zenon
  <2>2. r.start \in Nat /\ r.end \in Nat /\ k \in Nat /\ n \in Nat
    BY <1>3, <1>4, <1>5
  <2>3. \A p : p \in run <=> \E i \in 0..(n - 1) : p = Key(r, k + i)
    OBVIOUS
  <2> HIDE DEF new, r, k, n, run
  <2>4. RunAnswered(run, r, k, n, new, memory)
    BY <2>1, <2>3 DEF RunAnswered
  <2> QED BY <2>2, <2>4, SeenRun
<1>11. Describes(res, r, new) /\ res.inspected = k + n
  <2>1. /\ Describes(walk.resource, r, old) /\ walk.resource.inspected + n <= PageCount(r)
        /\ walk.resource.inspected = k
        /\ DOMAIN old \subseteq DOMAIN new
        /\ \A i \in 0..(n - 1) : Key(r, k + i) \in DOMAIN new
    <3>1. Describes(walk.resource, r, old) /\ k + n <= PageCount(r) /\ k = walk.resource.inspected
      BY <1>2, <1>3, <1>4, <1>5
    <3> HIDE DEF new, r, n, old, run
    <3> QED BY <1>7, <1>9, <3>1
  <2>2. /\ n \in Nat /\ PageCount(r) \in Nat /\ AvailableFor(r) /\ m \in 0..n
        /\ \A p \in DOMAIN old : new[p] = old[p]
    <3> HIDE DEF new, r, n, k, old, run, m
    <3> QED BY <1>3, <1>4, <1>5, <1>9, <1>10
  <2>3. Seen(r, walk.resource.inspected + n, new) = Seen(r, walk.resource.inspected, new) + m
    <3> HIDE DEF new, r, n, k, old, run, m
    <3> QED BY <1>10, <2>1
  <2>4. \A i \in 0..(n - 1) : Key(r, walk.resource.inspected + i) \in DOMAIN new
    <3> HIDE DEF new, r, n, k, old, run, m
    <3> QED BY <2>1
  <2>5. Describes(res, r, new) /\ res.inspected = walk.resource.inspected + n
    <3> HIDE DEF new, r, n, k, old, run, m
    <3> QED BY <2>1, <2>2, <2>3, <2>4, DescribesMore
  <2> HIDE DEF new, r, n, k, old, run, m, res
  <2> QED BY <2>1, <2>5
<1>12. /\ \A i \in 0..(n - 1) : Key(r, k + i) \in AllPages
       /\ IsTargeted(r) => \A i \in 0..(n - 1) : Key(r, k + i) \in TargetPages
  <2>1. \A i \in 0..(n - 1) : k + i \in 0..(PageCount(r) - 1)
    <3> HIDE DEF k, n, r
    <3> QED BY <1>3, <1>4, <1>5
  <2>2. ranges \in RangeLists
    BY DEF PagesInv, RangesHeld
  <2>3. \A i \in 0..(PageCount(r) - 1) : Key(r, i) \in AllPages /\ (IsTargeted(r) => Key(r, i) \in TargetPages)
    BY <1>3, <1>5, <2>2, PagesHeld
  <2> QED BY <2>1, <2>3
<1>13. run \subseteq AllPages /\ (IsTargeted(r) => run \subseteq TargetPages)
  BY <1>12
<1>14. ObservedHeld(new)
  <2>1. DOMAIN new \subseteq AllPages
    BY <1>2, <1>9, <1>13 DEF ObservedHeld
  <2>2. \A p \in DOMAIN new : new[p] \in BOOLEAN
    <3>1. \A p \in DOMAIN old : old[p] \in BOOLEAN
      BY <1>2 DEF ObservedHeld
    <3> HIDE DEF new, old, run
    <3> SUFFICES ASSUME NEW p \in DOMAIN new PROVE new[p] \in BOOLEAN
      OBVIOUS
    <3>2. CASE p \in run
      <4>1. new[p] = (p \in memory)
        BY <1>9, <3>2, Zenon
      <4> QED BY <4>1
    <3>3. CASE p \in DOMAIN old
      BY <1>9, <3>1, <3>3
    <3> QED BY <1>9, <3>2, <3>3
  <2>3. Cardinality(DOMAIN new) <= MaxPages
    <3>1. IsFiniteSet(DOMAIN old)
      <4>1. IsFiniteSet(AllPages)
        BY PagesHeld DEF PagesInv, RangesHeld
      <4> QED BY <1>2, <4>1, FS_Subset DEF ObservedHeld
    <3>2. Cardinality(DOMAIN old \cup run) = Cardinality(DOMAIN old) + Cardinality(run) - Cardinality(DOMAIN old \cap run)
      BY <1>10, <3>1, FS_Union
    <3>3. Cardinality(DOMAIN old \cap run) = 0
      <4>1. DOMAIN old \cap run = {}
        BY <1>8
      <4> QED BY <4>1, FS_EmptySet
    <3> HIDE DEF new, old, run, n
    <3>4. Cardinality(DOMAIN old \cup run) = Cardinality(DOMAIN old) + n
      BY <1>4, <1>10, <3>2, <3>3
    <3> QED BY <1>4, <1>9, <3>4
  <2> QED BY <2>1, <2>2, <2>3 DEF ObservedHeld
<1>15. Cardinality(DOMAIN old) # MaxPages
  <2> HIDE DEF old, n
  <2> QED BY <1>1, <1>4, PageLimitsAssumption
<1>16. \/ DOMAIN old \subseteq TargetPages /\ DOMAIN new \subseteq TargetPages
       \/ \A j \in 1..Len(ranges) :
             IsTargeted(ranges[ProcessingOrder[j]]) => j < walk.at /\ Complete(walk.resources[j])
  <2>1. CASE DOMAIN old \subseteq TargetPages /\ IsTargeted(r)
    BY <1>9, <1>13, <2>1
  <2>2. CASE ~IsTargeted(r)
    <3> SUFFICES ASSUME NEW j \in 1..Len(ranges), IsTargeted(ranges[ProcessingOrder[j]])
                 PROVE  j < walk.at /\ Complete(walk.resources[j])
      OBVIOUS
    <3>1. j < walk.at
      <4>1. ~IsTargeted(ranges[ProcessingOrder[walk.at]])
        BY <1>3, <2>2
      <4> QED BY <1>3, <4>1, OrderHeld DEF PagesInv, RangesHeld
    <3>2. j \in 1..(walk.at - 1)
      BY <1>3, <3>1
    <3> QED BY <1>2, <1>15, <3>1, <3>2 DEF ReportedHeld
  <2>3. CASE \A j \in 1..Len(ranges) :
                IsTargeted(ranges[ProcessingOrder[j]]) => j < walk.at /\ Complete(walk.resources[j])
    BY <2>3
  <2> QED BY <1>2, <2>1, <2>2, <2>3 DEF TargetsDone
<1>17. /\ Describes(res, CurrentRange, new) /\ AvailableFor(CurrentRange)
       /\ walk'.index = res.inspected /\ DOMAIN walk.observed \subseteq DOMAIN new
       /\ \A p \in DOMAIN walk.observed : new[p] = walk.observed[p]
       /\ Cardinality(DOMAIN walk.observed) # MaxPages
  BY <1>5, <1>6, <1>9, <1>11, <1>15
<1> HIDE DEF r, k, n, run, m, new, res
<1> QED BY <1>1, <1>2, <1>6, <1>14, <1>16, <1>17, InsideStep

\* A part of a finite set and the rest of it.
LEMMA PartAndRest ==
    ASSUME NEW S, IsFiniteSet(S), NEW A \in SUBSET S
    PROVE  /\ Cardinality(S) \in Nat /\ Cardinality(A) \in Nat /\ Cardinality(S \ A) \in Nat
           /\ Cardinality(A) + Cardinality(S \ A) = Cardinality(S)
           /\ IsFiniteSet(A) /\ IsFiniteSet(S \ A)
<1>1. IsFiniteSet(A) /\ IsFiniteSet(S \ A)
  BY FS_Subset
<1>2. Cardinality(S) \in Nat /\ Cardinality(A) \in Nat /\ Cardinality(S \ A) \in Nat
  BY <1>1, FS_CardinalityType
<1>3. A \cup (S \ A) = S /\ A \cap (S \ A) = {}
  OBVIOUS
<1>4. Cardinality(A \cup (S \ A)) = Cardinality(A) + Cardinality(S \ A) - Cardinality(A \cap (S \ A))
  BY <1>1, FS_Union
<1>5. Cardinality(A \cap (S \ A)) = 0
  BY <1>3, FS_EmptySet
<1>6. Cardinality(A) + Cardinality(S \ A) = Cardinality(S)
  <2>1. Cardinality(S) = Cardinality(A) + Cardinality(S \ A) - 0
    BY <1>3, <1>4, <1>5
  <2> QED BY <1>2, <2>1
<1> QED BY <1>1, <1>2, <1>6

\* The pages of the ranges without a mapping.
LEMMA UnavailableTyped == ASSUME RangesHeld PROVE UnavailableUnknown \in Nat
<1> DEFINE S == {i \in DOMAIN ranges : ~AvailableFor(ranges[i])}
           f == [i \in S |-> PageCount(ranges[i])]
<1>1. IsFiniteSet(S)
  <2>1. DOMAIN ranges = 1..Len(ranges) /\ Len(ranges) \in Nat
    BY RangesRead DEF RangesHeld
  <2>2. IsFiniteSet(1..Len(ranges))
    BY <2>1, FS_Interval
  <2> QED BY <2>1, <2>2, FS_Subset
<1>2. \A i \in S : f[i] \in Nat
  <2> TAKE i \in S
  <2>1. ranges[i].start \in Nat /\ ranges[i].end \in Nat
    BY RangesRead DEF RangesHeld
  <2>2. PageCount(ranges[i]) \in Nat
    BY <2>1, RangePages
  <2> QED BY <2>2
<1>3. UnavailableUnknown = SumOver(f, S)
  <2>1. UnavailableUnknown = (CHOOSE h : Sums(h, f, S))[S]
    BY DEF UnavailableUnknown, MapThenSumSet, MapThenFoldSet, Sums
  <2> HIDE DEF f, S
  <2> QED BY <2>1, SumIsFold
<1> HIDE DEF f, S
<1> QED BY <1>1, <1>2, <1>3, SumNat

\* The pages of a selected name: no more are unknown than there are.
LEMMA NameSums ==
    ASSUME NEW rs, NEW n \in Nat, DOMAIN rs = 1..n,
           \A i \in 1..n : rs[i].total \in Nat /\ rs[i].unknown \in 0..rs[i].total, NEW name
    PROVE  /\ NameTotal(rs, name) \in Nat /\ NameUnknown(rs, name) \in Nat
           /\ NameUnknown(rs, name) <= NameTotal(rs, name)
<1> DEFINE S == OfName(rs, name)
           f == [i \in S |-> rs[i].total]
           g == [i \in S |-> rs[i].unknown]
<1>1. IsFiniteSet(S) /\ S \subseteq 1..n
  <2>1. IsFiniteSet(1..n)
    BY FS_Interval
  <2> QED BY <2>1, FS_Subset DEF OfName
<1>2. \A i \in S : f[i] \in Nat /\ g[i] \in Nat /\ g[i] <= f[i]
  <2> TAKE i \in S
  <2>1. rs[i].total \in Nat /\ rs[i].unknown \in 0..rs[i].total
    BY <1>1
  <2> QED BY <2>1
<1>3. NameTotal(rs, name) = SumOver(f, S)
  <2>1. NameTotal(rs, name)
          = (CHOOSE h : h = [s \in SUBSET S |-> IF s = {} THEN 0
                               ELSE LET x == CHOOSE x \in s : TRUE IN rs[x].total + h[s \ {x}]])[S]
    BY DEF NameTotal, MapThenSumSet, MapThenFoldSet
  <2>2. \A s \in SUBSET S : s # {} => f[CHOOSE x \in s : TRUE] = rs[CHOOSE x \in s : TRUE].total
    OBVIOUS
  <2>3. ASSUME NEW h
        PROVE  h = [s \in SUBSET S |-> IF s = {} THEN 0
                      ELSE LET x == CHOOSE x \in s : TRUE IN rs[x].total + h[s \ {x}]]
               <=> Sums(h, f, S)
    <3> HIDE DEF f, S
    <3> QED BY <2>2 DEF Sums
  <2> HIDE DEF f, S
  <2> QED BY <2>1, <2>3, SumIsFold
<1>4. NameUnknown(rs, name) = SumOver(g, S)
  <2>1. NameUnknown(rs, name)
          = (CHOOSE h : h = [s \in SUBSET S |-> IF s = {} THEN 0
                               ELSE LET x == CHOOSE x \in s : TRUE IN rs[x].unknown + h[s \ {x}]])[S]
    BY DEF NameUnknown, MapThenSumSet, MapThenFoldSet
  <2>2. \A s \in SUBSET S : s # {} => g[CHOOSE x \in s : TRUE] = rs[CHOOSE x \in s : TRUE].unknown
    OBVIOUS
  <2>3. ASSUME NEW h
        PROVE  h = [s \in SUBSET S |-> IF s = {} THEN 0
                      ELSE LET x == CHOOSE x \in s : TRUE IN rs[x].unknown + h[s \ {x}]]
               <=> Sums(h, g, S)
    <3> HIDE DEF g, S
    <3> QED BY <2>2 DEF Sums
  <2> HIDE DEF g, S
  <2> QED BY <2>1, <2>3, SumIsFold
<1> HIDE DEF f, g, S
<1>5. SumOver(g, S) <= SumOver(f, S)
  <2>1. \A x \in S : g[x] \in Int /\ f[x] \in Int /\ g[x] <= f[x]
    BY <1>2
  <2> QED BY <1>1, <2>1, SumMonotone
<1> QED BY <1>1, <1>2, <1>3, <1>4, <1>5, SumNat

\* The selection is finite.
LEMMA SelectedFinite == ASSUME RangesHeld PROVE IsFiniteSet(selected)
<1> DEFINE D == 1..Len(ranges)
           f == [i \in D |-> ranges[i].name]
<1>1. DOMAIN ranges = D /\ Len(ranges) \in Nat
  BY RangesRead DEF RangesHeld
<1>2. IsFiniteSet(D)
  BY <1>1, FS_Interval
<1>3. selected \subseteq {f[i] : i \in D}
  <2> SUFFICES ASSUME NEW n \in selected PROVE \E i \in D : n = f[i]
    OBVIOUS
  <2>1. PICK r \in Range(ranges) : n = r.name
    BY DEF RangesHeld
  <2>2. PICK i \in D : r = ranges[i]
    BY <1>1 DEF Range
  <2> QED BY <2>1, <2>2
<1>4. IsFiniteSet({f[i] : i \in D})
  <2> HIDE DEF D, f
  <2> QED BY <1>2, ImageOf
<1> QED BY <1>3, <1>4, FS_Subset

\* A selected resource is inspected in full, in part, or not at all.
LEMMA SelectionCounted ==
    ASSUME RangesHeld, NEW rs, DOMAIN rs = 1..Len(ranges), NEW obs,
           \A i \in 1..Len(ranges) : rs[i].total \in Nat /\ rs[i].unknown \in 0..rs[i].total
    PROVE  TargetedCoverage(rs, obs).fully + TargetedCoverage(rs, obs).partially
              + TargetedCoverage(rs, obs).notObserved = Cardinality(selected)
<1> DEFINE total(n) == NameTotal(rs, n)
           unknown(n) == NameUnknown(rs, n)
           listed == {n \in selected : OfName(rs, n) # {}}
           F == {n \in listed : total(n) = 0 \/ unknown(n) = 0}
           P == {n \in listed : unknown(n) > 0 /\ unknown(n) < total(n)}
           N == {n \in listed : total(n) > 0 /\ unknown(n) = total(n)}
           t == TargetedCoverage(rs, obs)
<1>1. /\ t.fully = Cardinality(F) /\ t.partially = Cardinality(P)
      /\ t.notObserved = Cardinality(N) + (Cardinality(selected) - Cardinality(listed))
  BY DEF TargetedCoverage
<1>2. Len(ranges) \in Nat
  BY RangesRead DEF RangesHeld
<1>3. \A n : total(n) \in Nat /\ unknown(n) \in Nat /\ unknown(n) <= total(n)
  BY <1>2, NameSums
<1>4. IsFiniteSet(selected) /\ listed \in SUBSET selected
  BY SelectedFinite
<1> HIDE DEF t, total, unknown
<1>5. F \in SUBSET listed /\ P \in SUBSET (listed \ F) /\ (listed \ F) \ P = N
  <2>1. F \in SUBSET listed
    OBVIOUS
  <2>2. P \in SUBSET (listed \ F)
    BY <1>3
  <2>3. \A n : n \in (listed \ F) \ P <=> n \in N
    <3> SUFFICES ASSUME NEW n \in listed PROVE n \in (listed \ F) \ P <=> n \in N
      OBVIOUS
    <3> HIDE DEF listed
    <3> QED BY <1>3
  <2> HIDE DEF listed, F, P, N
  <2> QED BY <2>1, <2>2, <2>3
<1> HIDE DEF F, P, N, listed
<1>6. /\ Cardinality(selected) \in Nat /\ Cardinality(listed) \in Nat /\ IsFiniteSet(listed)
  BY <1>4, PartAndRest
<1>7. /\ Cardinality(F) \in Nat /\ Cardinality(listed \ F) \in Nat /\ IsFiniteSet(listed \ F)
      /\ Cardinality(F) + Cardinality(listed \ F) = Cardinality(listed)
  BY <1>5, <1>6, PartAndRest
<1>8. /\ Cardinality(P) \in Nat /\ Cardinality(N) \in Nat
      /\ Cardinality(P) + Cardinality(N) = Cardinality(listed \ F)
  BY <1>5, <1>7, PartAndRest
<1>9. t.fully + t.partially + t.notObserved = Cardinality(selected)
  <2> DEFINE f == Cardinality(F)
             q == Cardinality(P)
             m == Cardinality(N)
             l == Cardinality(listed)
             c == Cardinality(selected)
             g == Cardinality(listed \ F)
  <2>1. t.fully = f /\ t.partially = q /\ t.notObserved = m + (c - l)
    BY <1>1
  <2>2. /\ f \in Nat /\ q \in Nat /\ m \in Nat /\ l \in Nat /\ c \in Nat /\ g \in Nat
        /\ f + g = l /\ q + m = g
    BY <1>6, <1>7, <1>8
  <2> HIDE DEF f, q, m, l, c, g
  <2>3. f + q + (m + (c - l)) = c
    BY <2>2
  <2>4. t.fully + t.partially + t.notObserved = f + q + (m + (c - l))
    BY <2>1, Zenon
  <2>5. t.fully + t.partially + t.notObserved = c
    BY <2>3, <2>4, Zenon
  <2> QED BY <2>5 DEF c
<1> QED BY <1>9 DEF t

\* The counts of a snapshot.
LEMMA SnapshotCounts ==
    ASSUME RangesHeld, NEW rs, DOMAIN rs = 1..Len(ranges), NEW obs, ObservedHeld(obs),
           \A i \in 1..Len(ranges) : rs[i].total \in Nat /\ rs[i].unknown \in 0..rs[i].total
    PROVE  /\ AddsUp(SnapshotOf(rs, obs))
           /\ SnapshotOf(rs, obs).resources = rs /\ SnapshotOf(rs, obs).observed = obs
           /\ SnapshotOf(rs, obs).targeted.generalSampled > 0 => ~(DOMAIN obs \subseteq TargetPages)
<1> DEFINE s == SnapshotOf(rs, obs)
           t == TargetedCoverage(rs, obs)
           O == DOMAIN obs
           A == AllPages
           T == TargetPages
<1>1. /\ s.resources = rs /\ s.observed = obs /\ s.inspected = Cardinality(O)
      /\ s.total = Cardinality(A) + UnavailableUnknown
      /\ s.resident = Cardinality({p \in O : obs[p]})
      /\ s.nonresident = Cardinality({p \in O : ~obs[p]})
      /\ s.unknown = AtLeastZero(Cardinality(A) - Cardinality(O)) + UnavailableUnknown
      /\ s.targeted = t
  BY DEF SnapshotOf
<1>2. /\ t.targetedAvailable = Cardinality(T) /\ t.targetedSampled = Cardinality(O \intersect T)
      /\ t.targetedUnknown = AtLeastZero(Cardinality(T) - Cardinality(O \intersect T))
      /\ t.generalAvailable = AtLeastZero(Cardinality(A) - Cardinality(T))
      /\ t.generalSampled = AtLeastZero(Cardinality(O) - Cardinality(O \intersect T))
      /\ t.generalUnknown = AtLeastZero(AtLeastZero(Cardinality(A) - Cardinality(T))
                               - AtLeastZero(Cardinality(O) - Cardinality(O \intersect T)))
  BY DEF TargetedCoverage
<1>3. t.fully + t.partially + t.notObserved = Cardinality(selected)
  BY SelectionCounted
<1>4. IsFiniteSet(A) /\ T \in SUBSET A /\ O \in SUBSET A /\ Cardinality(O) <= MaxPages
  BY PagesHeld DEF RangesHeld, ObservedHeld
<1>5. UnavailableUnknown \in Nat
  BY UnavailableTyped
<1> HIDE DEF s, t
<1>6. s.resident + s.nonresident = Cardinality(O)
  <2>1. O \ {p \in O : obs[p]} = {p \in O : ~obs[p]}
    OBVIOUS
  <2>2. IsFiniteSet(O)
    BY <1>4, PartAndRest
  <2>3. {p \in O : obs[p]} \in SUBSET O
    OBVIOUS
  <2>4. Cardinality({p \in O : obs[p]}) + Cardinality(O \ {p \in O : obs[p]}) = Cardinality(O)
    BY <2>2, <2>3, PartAndRest
  <2> QED BY <1>1, <2>1, <2>4
<1> HIDE DEF O, A, T
<1>7. /\ Cardinality(A) \in Nat /\ Cardinality(O) \in Nat /\ Cardinality(A \ O) \in Nat
      /\ Cardinality(O) + Cardinality(A \ O) = Cardinality(A) /\ IsFiniteSet(O)
  BY <1>4, PartAndRest
<1>8. /\ Cardinality(T) \in Nat /\ Cardinality(A \ T) \in Nat /\ IsFiniteSet(T) /\ IsFiniteSet(A \ T)
      /\ Cardinality(T) + Cardinality(A \ T) = Cardinality(A)
  BY <1>4, PartAndRest
<1>9. /\ Cardinality(O \intersect T) \in Nat /\ Cardinality(O \ (O \intersect T)) \in Nat
      /\ Cardinality(O \intersect T) + Cardinality(O \ (O \intersect T)) = Cardinality(O)
  <2>1. O \intersect T \in SUBSET O
    OBVIOUS
  <2> QED BY <1>7, <2>1, PartAndRest
<1>10. Cardinality(O \intersect T) <= Cardinality(T)
  <2>1. O \intersect T \in SUBSET T
    OBVIOUS
  <2>2. /\ Cardinality(O \intersect T) \in Nat /\ Cardinality(T \ (O \intersect T)) \in Nat
        /\ Cardinality(O \intersect T) + Cardinality(T \ (O \intersect T)) = Cardinality(T)
    BY <1>8, <2>1, PartAndRest
  <2> QED BY <1>8, <2>2
<1>11. Cardinality(O \ (O \intersect T)) <= Cardinality(A \ T)
  <2>1. O \ (O \intersect T) \in SUBSET (A \ T)
    BY <1>4
  <2>2. /\ Cardinality(O \ (O \intersect T)) \in Nat
        /\ Cardinality((A \ T) \ (O \ (O \intersect T))) \in Nat
        /\ Cardinality(O \ (O \intersect T)) + Cardinality((A \ T) \ (O \ (O \intersect T))) = Cardinality(A \ T)
    BY <1>8, <2>1, PartAndRest
  <2> QED BY <1>8, <2>2
<1> DEFINE a == Cardinality(A)
           o == Cardinality(O)
           c == Cardinality(T)
           ot == Cardinality(O \intersect T)
           g == Cardinality(O \ (O \intersect T))
           h == Cardinality(A \ T)
           l == Cardinality(A \ O)
           u == UnavailableUnknown
<1>12. /\ a \in Nat /\ o \in Nat /\ c \in Nat /\ ot \in Nat /\ g \in Nat /\ h \in Nat /\ l \in Nat /\ u \in Nat
       /\ o + l = a /\ c + h = a /\ ot + g = o /\ ot <= c /\ g <= h
  BY <1>5, <1>7, <1>8, <1>9, <1>10, <1>11
<1>13. /\ s.unknown = AtLeastZero(a - o) + u /\ s.total = a + u
       /\ t.targetedAvailable = c /\ t.targetedSampled = ot /\ t.targetedUnknown = AtLeastZero(c - ot)
       /\ t.generalAvailable = AtLeastZero(a - c) /\ t.generalSampled = AtLeastZero(o - ot)
       /\ t.generalUnknown = AtLeastZero(AtLeastZero(a - c) - AtLeastZero(o - ot))
  BY <1>1, <1>2 DEF A, O, T
<1> HIDE DEF a, o, c, ot, g, h, l, u
<1>14. /\ AtLeastZero(a - o) = l /\ AtLeastZero(c - ot) = c - ot /\ AtLeastZero(a - c) = h
       /\ AtLeastZero(o - ot) = g /\ AtLeastZero(h - g) = h - g
  BY <1>12 DEF AtLeastZero
<1>15. s.resident + s.nonresident + s.unknown = s.total
  <2>1. s.resident + s.nonresident = o
    BY <1>6 DEF o
  <2>2. s.unknown = l + u /\ s.total = o + l + u
    BY <1>12, <1>13, <1>14
  <2> QED BY <1>12, <2>1, <2>2
<1>16. t.targetedSampled + t.targetedUnknown = t.targetedAvailable
  BY <1>12, <1>13, <1>14
<1>17. t.generalSampled + t.generalUnknown = t.generalAvailable
  BY <1>12, <1>13, <1>14
<1>18. s.inspected <= MaxPages
  BY <1>1, <1>4 DEF O
<1>19. AddsUp(s)
  BY <1>1, <1>3, <1>15, <1>16, <1>17, <1>18 DEF AddsUp
<1>20. t.generalSampled > 0 => ~(O \subseteq T)
  <2> SUFFICES ASSUME O \subseteq T PROVE t.generalSampled = 0
    BY <1>12, <1>13, <1>14
  <2>1. O \ (O \intersect T) = {}
    OBVIOUS
  <2>2. g = 0
    BY <2>1, FS_EmptySet DEF g
  <2> QED BY <1>13, <1>14, <2>2
<1> QED BY <1>1, <1>19, <1>20 DEF s, O, T

\* All ranges are walked or left out: the snapshot is made.
LEMMA FinishStep == ASSUME PagesInv, FinishSnapshot PROVE PagesInv'
<1> DEFINE n == Len(ranges)
           c == ProcessedCount
           rs == walk.resources \o OmittedResources
           obs == walk.observed
           s == SnapshotOf(rs, obs)
<1>1. /\ Walking /\ walk.resource = <<>> /\ walk.at > c
      /\ snapshots' = Append(snapshots, s) /\ walk' = NotWalking
      /\ UNCHANGED <<ranges, selected, mapped>>
  BY DEF FinishSnapshot
<1>2. /\ walk.order = ProcessingOrder /\ walk.at \in 1..(c + 1)
      /\ DOMAIN walk.resources = 1..(walk.at - 1) /\ Len(walk.resources) = walk.at - 1
      /\ ObservedHeld(obs) /\ ReportedHeld /\ TargetsDone
  BY <1>1 DEF PagesInv, WalkHeld
<1>3. n \in Nat /\ c \in 0..n /\ ranges \in RangeLists
  BY OrderHeld, RangesRead DEF PagesInv, RangesHeld
<1>4. walk.at = c + 1 /\ DOMAIN walk.resources = 1..c /\ Len(walk.resources) = c
  <2>1. walk.at = c + 1
    <3> HIDE DEF c
    <3> QED BY <1>1, <1>2, <1>3
  <2>2. walk.at - 1 = c
    <3> HIDE DEF c
    <3> QED BY <1>3, <2>1
  <2> QED BY <1>2, <2>1, <2>2
<1>5. \A p \in 1..n : ProcessingOrder[p] \in 1..n
  BY <1>3, OrderHeld
<1>6. \A p \in 1..n : PageCount(ranges[ProcessingOrder[p]]) \in Nat
  <2> TAKE p \in 1..n
  <2>1. /\ ranges[ProcessingOrder[p]].start \in Nat /\ ranges[ProcessingOrder[p]].end \in Nat
    BY <1>3, <1>5, RangesRead
  <2> QED BY <2>1, RangePages
<1> DEFINE left(k) == NewResource(ranges[ProcessingOrder[c + k]], PageCount(ranges[ProcessingOrder[c + k]]), TRUE)
<1>7. OmittedResources = [k \in 1..(n - c) |-> left(k)]
  BY <1>2 DEF OmittedResources
<1>8. DOMAIN OmittedResources = 1..(n - c) /\ Len(OmittedResources) = n - c
      /\ \A k \in 1..(n - c) : OmittedResources[k] = left(k)
  <2>1. n - c \in Nat
    <3> HIDE DEF n, c
    <3> QED BY <1>3
  <2> HIDE DEF left, n, c
  <2>2. DOMAIN OmittedResources = 1..(n - c)
    BY <1>7
  <2>3. \A k \in 1..(n - c) : OmittedResources[k] = left(k)
    BY <1>7
  <2>4. Len(OmittedResources) = n - c
    <3>1. OmittedResources \in Seq({left(k) : k \in 1..(n - c)})
      BY <1>7, <2>1
    <3> QED BY <2>1, <2>2, <3>1, LenProperties
  <2> QED BY <2>2, <2>3, <2>4
<1>9. /\ DOMAIN rs = 1..n
      /\ \A j \in 1..c : rs[j] = walk.resources[j]
      /\ \A k \in 1..(n - c) : rs[c + k] = left(k)
  <2> DEFINE q == walk.resources
             t == OmittedResources
  <2>1. DOMAIN q = 1..Len(q) /\ Len(q) \in Nat /\ DOMAIN t = 1..Len(t) /\ Len(t) \in Nat
    <3>1. c \in Nat /\ n - c \in Nat
      <4> HIDE DEF n, c
      <4> QED BY <1>3
    <3> HIDE DEF n, c
    <3> QED BY <1>4, <1>8, <3>1
  <2>2. /\ DOMAIN (q \o t) = 1..(Len(q) + Len(t))
        /\ \A i \in 1..Len(q) : (q \o t)[i] = q[i]
        /\ \A i \in 1..Len(t) : (q \o t)[Len(q) + i] = t[i]
    <3> HIDE DEF q, t
    <3> QED BY <2>1, ConcatSeen
  <2>3. Len(q) = c /\ Len(t) = n - c /\ c + (n - c) = n
    <3>1. c + (n - c) = n
      <4> HIDE DEF n, c
      <4> QED BY <1>3
    <3> QED BY <1>4, <1>8, <3>1
  <2> HIDE DEF n, c, left
  <2> QED BY <1>8, <2>2, <2>3
<1> HIDE DEF rs
<1>10. ASSUME NEW j \in 1..n
       PROVE  /\ Describes(rs[j], ranges[ProcessingOrder[j]], obs) /\ Answered(rs[j])
              /\ ~(DOMAIN obs \subseteq TargetPages) /\ rs[j].targeted => Complete(rs[j])
  <2>1. CASE j <= c
    <3>1. j \in 1..c /\ j \in 1..(walk.at - 1) /\ rs[j] = walk.resources[j]
      <4>1. j \in 1..c /\ walk.at - 1 = c
        <5> HIDE DEF n, c
        <5> QED BY <1>3, <1>4, <2>1
      <4> HIDE DEF c
      <4> QED BY <1>9, <4>1
    <3>2. Describes(rs[j], ranges[ProcessingOrder[j]], obs) /\ Answered(rs[j])
      BY <1>2, <3>1 DEF ReportedHeld
    <3>3. ASSUME ~(DOMAIN obs \subseteq TargetPages), rs[j].targeted PROVE Complete(rs[j])
      <4>1. IsTargeted(ranges[ProcessingOrder[j]])
        BY <3>2, <3>3 DEF Describes
      <4> QED BY <1>2, <3>1, <3>3, <4>1 DEF TargetsDone
    <3> QED BY <3>2, <3>3
  <2>2. CASE c < j
    <3>1. j - c \in 1..(n - c) /\ c + (j - c) = j
      <4> HIDE DEF n, c
      <4> QED BY <1>3, <2>2
    <3>2. rs[j] = NewResource(ranges[ProcessingOrder[j]], PageCount(ranges[ProcessingOrder[j]]), TRUE)
      BY <1>9, <3>1
    <3>3. /\ Describes(rs[j], ranges[ProcessingOrder[j]], obs) /\ rs[j].inspected = 0
          /\ rs[j].unknown = PageCount(ranges[ProcessingOrder[j]])
          /\ rs[j].total = PageCount(ranges[ProcessingOrder[j]]) /\ rs[j].error = TRUE
      <4>0. PICK yes : yes = TRUE
        OBVIOUS
      <4> DEFINE r == ranges[ProcessingOrder[j]]
                 fresh == NewResource(r, PageCount(r), yes)
      <4>1. PageCount(r) \in Nat /\ rs[j] = fresh
        BY <1>6, <3>2, <4>0
      <4> HIDE DEF r, obs
      <4>3. /\ Describes(fresh, r, obs) /\ fresh.inspected = 0 /\ fresh.unknown = PageCount(r)
            /\ fresh.total = PageCount(r) /\ fresh.error = yes
        BY <4>1, FreshDescribes
      <4> HIDE DEF fresh
      <4>2. /\ Describes(rs[j], r, obs) /\ rs[j].inspected = 0 /\ rs[j].unknown = PageCount(r)
            /\ rs[j].total = PageCount(r) /\ rs[j].error = yes
        BY <4>1, <4>3
      <4> QED BY <4>0, <4>2 DEF r
    <3>4. Answered(rs[j])
      BY <1>6, <3>3 DEF Answered
    <3>5. Complete(rs[j])
      BY <3>3 DEF Complete
    <3> QED BY <3>3, <3>4, <3>5
  <2>3. j <= c \/ c < j
    <3> HIDE DEF n, c
    <3> QED BY <1>3
  <2> QED BY <2>1, <2>2, <2>3
<1>11. \A j \in 1..n : rs[j].total \in Nat /\ rs[j].unknown \in 0..rs[j].total
  <2> TAKE j \in 1..n
  <2>1. /\ rs[j].total = PageCount(ranges[ProcessingOrder[j]]) /\ rs[j].inspected \in 0..rs[j].total
        /\ rs[j].unknown = rs[j].total - rs[j].inspected
    BY <1>10 DEF Describes, Answered
  <2>2. PageCount(ranges[ProcessingOrder[j]]) \in Nat
    BY <1>6
  <2> HIDE DEF n
  <2> QED BY <2>1, <2>2
<1>12. /\ AddsUp(s) /\ s.resources = rs /\ s.observed = obs
       /\ s.targeted.generalSampled > 0 => ~(DOMAIN obs \subseteq TargetPages)
  <2>1. RangesHeld /\ ObservedHeld(obs) /\ DOMAIN rs = 1..Len(ranges)
    BY <1>2, <1>9 DEF PagesInv
  <2> HIDE DEF obs
  <2> QED BY <1>11, <2>1, SnapshotCounts
<1>13. SnapshotHeld(s)
  <2> HIDE DEF s, obs
  <2>1. ObservedHeld(obs)
    BY <1>2
  <2> QED BY <1>9, <1>10, <1>12, <2>1 DEF SnapshotHeld
<1>14. /\ RangesHeld' /\ ranges' = ranges /\ \A x : SnapshotHeld(x)' = SnapshotHeld(x)
  BY <1>1, Steady DEF PagesInv
<1>15. SnapshotsHeld'
  <2>1. /\ Len(snapshots) \in Nat /\ DOMAIN snapshots = 1..Len(snapshots)
        /\ \A i \in 1..Len(snapshots) : SnapshotHeld(snapshots[i])
    BY DEF PagesInv, SnapshotsHeld
  <2> HIDE DEF s
  <2>2. /\ Len(snapshots') = Len(snapshots) + 1 /\ DOMAIN snapshots' = 1..(Len(snapshots) + 1)
        /\ snapshots'[Len(snapshots) + 1] = s
        /\ \A i \in 1..Len(snapshots) : snapshots'[i] = snapshots[i]
    BY <1>1, <2>1, AppendSeen
  <2>3. ASSUME NEW i \in 1..(Len(snapshots) + 1) PROVE SnapshotHeld(snapshots'[i])
    <3>1. i = Len(snapshots) + 1 \/ i \in 1..Len(snapshots)
      BY <2>1
    <3> QED BY <1>13, <2>1, <2>2, <3>1
  <2> QED BY <1>14, <2>1, <2>2, <2>3 DEF SnapshotsHeld
<1>16. WalkHeld'
  BY <1>1 DEF WalkHeld, Walking
<1> QED BY <1>14, <1>15, <1>16 DEF PagesInv

\* Every step of an observation keeps the invariant.
LEMMA PagesInvNext == PagesInv /\ [PageNext]_pageVars => PagesInv'
<1> SUFFICES ASSUME PagesInv, [PageNext]_pageVars PROVE PagesInv'
  OBVIOUS
<1>1. CASE KernelMoves
  BY <1>1, KernelMovesStep DEF KernelMoves
<1>2. CASE UNCHANGED pageVars
  BY <1>2, KernelMovesStep DEF pageVars
<1> QED BY <1>1, <1>2, ObserveStep, BeginStep, ReuseStep, MincoreStep, EndResourceStep, FailStep, FinishStep
        DEF PageNext

\* What the snapshots say adds up.
LEMMA InvAddsUp == PagesInv => SnapshotAddsUp
<1> SUFFICES ASSUME PagesInv, NEW i \in DOMAIN snapshots
             PROVE  LET s == snapshots[i]
                        t == s.targeted
                    IN  /\ s.resident + s.nonresident + s.unknown = s.total
                        /\ s.inspected <= MaxPages
                        /\ \A j \in DOMAIN s.resources :
                             LET r == s.resources[j]
                             IN  r.resident + r.nonresident + r.unknown = r.total
                        /\ t.targetedSampled + t.targetedUnknown = t.targetedAvailable
                        /\ t.generalSampled + t.generalUnknown = t.generalAvailable
                        /\ t.fully + t.partially + t.notObserved = Cardinality(selected)
  BY DEF SnapshotAddsUp
<1> DEFINE s == snapshots[i]
<1>1. SnapshotHeld(s)
  BY DEF PagesInv, SnapshotsHeld
<1> HIDE DEF s
<1>2. AddsUp(s) /\ DOMAIN s.resources = 1..Len(ranges)
  BY <1>1 DEF SnapshotHeld
<1>3. ASSUME NEW j \in DOMAIN s.resources
      PROVE  s.resources[j].resident + s.resources[j].nonresident + s.resources[j].unknown = s.resources[j].total
  <2> DEFINE r == ranges[ProcessingOrder[j]]
             res == s.resources[j]
  <2>1. Describes(res, r, s.observed) /\ Answered(res)
    BY <1>1, <1>2 DEF SnapshotHeld
  <2>2. PageCount(r) \in Nat
    <3>1. ProcessingOrder[j] \in 1..Len(ranges) /\ ranges \in RangeLists
      BY <1>2, OrderHeld DEF PagesInv, RangesHeld
    <3>2. r.start \in Nat /\ r.end \in Nat
      BY <3>1, RangesRead
    <3> QED BY <3>2, RangePages
  <2> HIDE DEF res, r
  <2>3. /\ res.total \in Nat /\ res.inspected \in 0..res.total /\ res.resident = Seen(r, res.inspected, s.observed)
        /\ res.nonresident = res.inspected - res.resident /\ res.unknown = res.total - res.inspected
    BY <2>1, <2>2 DEF Describes, Answered
  <2>4. res.resident \in Int
    <3>1. res.inspected \in Nat
      BY <2>3
    <3>2. Seen(r, res.inspected, s.observed) \in 0..res.inspected
      BY <3>1, SeenSome
    <3> QED BY <2>3, <3>1, <3>2
  <2>5. res.resident + res.nonresident + res.unknown = res.total
    BY <2>3, <2>4
  <2> QED BY <2>5 DEF res
<1> QED BY <1>2, <1>3 DEF s, AddsUp

\* The selection was inspected first.
LEMMA InvTargetsFirst == PagesInv => TargetsInspectedFirst
<1> SUFFICES ASSUME PagesInv, NEW i \in DOMAIN snapshots,
                    snapshots[i].targeted.generalSampled > 0, NEW j \in DOMAIN snapshots[i].resources,
                    snapshots[i].resources[j].targeted
             PROVE  snapshots[i].resources[j].error \/ snapshots[i].resources[j].unknown = 0
  BY DEF TargetsInspectedFirst
<1>1. SnapshotHeld(snapshots[i])
  BY DEF PagesInv, SnapshotsHeld
<1>2. Complete(snapshots[i].resources[j])
  BY <1>1 DEF SnapshotHeld
<1> QED BY <1>2 DEF Complete

\* Pages that were not all seen resident, or seen resident more often.
LEMMA SeenMissing ==
    ASSUME NEW r, NEW k \in Nat, NEW obs, NEW old
    PROVE  /\ Seen(r, k, obs) < k => \E i \in 0..(k - 1) : ~obs[Key(r, i)]
           /\ Seen(r, k, old) < Seen(r, k, obs) => \E i \in 0..(k - 1) : obs[Key(r, i)] /\ ~old[Key(r, i)]
<1> DEFINE D == 0..(k - 1)
           S == {i \in D : obs[Key(r, i)]}
           T == {i \in D : old[Key(r, i)]}
<1>1. IsFiniteSet(D) /\ Cardinality(D) = k
  <2>1. 0 \in Int /\ k - 1 \in Int
    OBVIOUS
  <2>2. IsFiniteSet(D) /\ Cardinality(D) = IF 0 > k - 1 THEN 0 ELSE k - 1 - 0 + 1
    BY <2>1, FS_Interval
  <2> HIDE DEF D
  <2> QED BY <2>2
<1>2. Seen(r, k, obs) = Cardinality(S) /\ Seen(r, k, old) = Cardinality(T)
  BY DEF Seen
<1>3. S \in SUBSET D /\ T \in SUBSET D
  OBVIOUS
<1>4. ASSUME Seen(r, k, obs) < k PROVE \E i \in D : ~obs[Key(r, i)]
  <2>1. S # D
    <3> HIDE DEF S, D
    <3> QED BY <1>1, <1>2, <1>4
  <2> QED BY <2>1
<1>5. ASSUME Seen(r, k, old) < Seen(r, k, obs) PROVE \E i \in D : obs[Key(r, i)] /\ ~old[Key(r, i)]
  <2>1. ~(S \subseteq T)
    <3> HIDE DEF S, T, D
    <3> SUFFICES ASSUME S \in SUBSET T PROVE FALSE
      OBVIOUS
    <3>1. IsFiniteSet(T)
      BY <1>1, <1>3, PartAndRest
    <3>2. /\ Cardinality(S) + Cardinality(T \ S) = Cardinality(T)
          /\ Cardinality(S) \in Nat /\ Cardinality(T \ S) \in Nat
      BY <3>1, PartAndRest
    <3> QED BY <1>2, <1>5, <3>2
  <2> QED BY <2>1
<1> QED BY <1>4, <1>5

\* Both snapshots report the ranges in one order, so that a name stands at the
\* same place first.
LEMMA NamedSame ==
    ASSUME PagesInv, NEW n \in selected, NEW b, NEW a, SnapshotHeld(b), SnapshotHeld(a)
    PROVE  \E k \in 1..Len(ranges) :
              /\ NamedResource(b, n) = b.resources[k] /\ NamedResource(a, n) = a.resources[k]
              /\ ranges[ProcessingOrder[k]].name = n
<1> DEFINE name(k) == ranges[ProcessingOrder[k]].name
           m == Len(ranges)
           first(i) == name(i) = n /\ \A j \in 1..(i - 1) : name(j) # n
<1>1. m \in Nat /\ DOMAIN ranges = 1..m /\ ranges \in RangeLists
  BY RangesRead DEF PagesInv, RangesHeld
<1>2. /\ DOMAIN b.resources = 1..m /\ DOMAIN a.resources = 1..m
      /\ \A j \in 1..m : b.resources[j].name = name(j) /\ a.resources[j].name = name(j)
  BY DEF SnapshotHeld, Describes
<1>3. \E p \in 1..m : name(p) = n
  <2>1. PICK r \in Range(ranges) : n = r.name
    BY DEF PagesInv, RangesHeld
  <2>2. PICK i \in 1..m : r = ranges[i]
    BY <1>1, <2>1 DEF Range
  <2>3. PICK p \in 1..m : ProcessingOrder[p] = i
    BY <1>1, OrderHeld
  <2> QED BY <2>1, <2>2, <2>3
<1> HIDE DEF m, name
<1>4. \E i \in 1..m : first(i)
  <2> SUFFICES ASSUME \A i \in 1..m : ~first(i) PROVE FALSE
    OBVIOUS
  <2> DEFINE T == {k \in 0..m : \A j \in 1..k : name(j) # n}
  <2>1. 0 \in T
    BY <1>1
  <2>2. \A k \in 1..m : k - 1 \in T => k \in T
    <3> SUFFICES ASSUME NEW k \in 1..m, k - 1 \in T PROVE k \in T
      OBVIOUS
    <3>1. \A j \in 1..(k - 1) : name(j) # n
      OBVIOUS
    <3>2. name(k) # n
      BY <3>1
    <3>3. \A j \in 1..k : j = k \/ j \in 1..(k - 1)
      BY <1>1
    <3>4. k \in 0..m
      BY <1>1
    <3> QED BY <3>1, <3>2, <3>3, <3>4
  <2> HIDE DEF T
  <2>3. \A k \in 0..m : k \in T
    BY <1>1, <2>1, <2>2, UpTo
  <2>4. m \in T
    BY <1>1, <2>3
  <2> QED BY <1>3, <2>4 DEF T
<1> DEFINE k == CHOOSE i \in 1..m : first(i)
<1>5. k \in 1..m /\ first(k)
  <2> HIDE DEF first
  <2> QED BY <1>4
<1>6. ASSUME NEW s, DOMAIN s.resources = 1..m, \A j \in 1..m : s.resources[j].name = name(j)
      PROVE  NamedResource(s, n) = s.resources[k]
  <2>1. \A i \in 1..m :
           (s.resources[i].name = n /\ \A j \in 1..(i - 1) : s.resources[j].name # n) <=> first(i)
    <3> SUFFICES ASSUME NEW i \in 1..m
                 PROVE  (s.resources[i].name = n /\ \A j \in 1..(i - 1) : s.resources[j].name # n) <=> first(i)
      OBVIOUS
    <3>1. \A j \in 1..(i - 1) : j \in 1..m
      BY <1>1
    <3> QED BY <1>6, <3>1
  <2>2. (CHOOSE i \in DOMAIN s.resources :
             /\ s.resources[i].name = n
             /\ \A j \in 1..(i - 1) : s.resources[j].name # n) = k
    <3> HIDE DEF first
    <3> QED BY <1>6, <2>1
  <2> HIDE DEF k
  <2> QED BY <2>2 DEF NamedResource
<1>7. NamedResource(b, n) = b.resources[k] /\ NamedResource(a, n) = a.resources[k]
  <2> HIDE DEF k, first
  <2> QED BY <1>2, <1>6
<1>8. ranges[ProcessingOrder[k]].name = n
  <2>1. name(k) = n
    BY <1>5
  <2> HIDE DEF k
  <2> QED BY <2>1 DEF name
<1> HIDE DEF k, first
<1> QED BY <1>5, <1>7, <1>8 DEF m

\* A verdict on a prefetched resource was seen.
LEMMA InvVerdicts == PagesInv => PrefetchVerdictsSeen
<1> SUFFICES ASSUME PagesInv, Len(snapshots) = 2, NEW accessed \in SUBSET selected, NEW n \in selected
             PROVE  LET verdict == Correlate(accessed)[n]
                        b == snapshots[1].observed
                        a == snapshots[2].observed
                    IN  /\ verdict.benefit \in {"PotentiallyUseful", "Wasted"} =>
                             \E p \in PagesOfName(n) \intersect DOMAIN b \intersect DOMAIN a : ~b[p] /\ a[p]
                        /\ verdict.benefit = "Ineffective" => \E p \in PagesOfName(n) \intersect DOMAIN a : ~a[p]
  BY DEF PrefetchVerdictsSeen
<1> DEFINE sb == snapshots[1]
           sa == snapshots[2]
           class == ResidencyClass(NamedResource(sb, n), NamedResource(sa, n))
           verdict == Correlate(accessed)[n]
           b == sb.observed
           a == sa.observed
<1>1. SnapshotHeld(sb) /\ SnapshotHeld(sa)
  BY DEF PagesInv, SnapshotsHeld
<1>2. verdict.benefit = BenefitClass(class, n \in accessed)
  BY DEF Correlate
<1>3. /\ verdict.benefit \in {"PotentiallyUseful", "Wasted"} => class = "BecameResident"
      /\ verdict.benefit = "Ineffective" => class = "RemainedNonResident"
  <2> DEFINE seen == n \in accessed
  <2>1. seen \in BOOLEAN
    OBVIOUS
  <2> HIDE DEF class, verdict, seen
  <2>2. verdict.benefit = BenefitClass(class, seen)
    BY <1>2 DEF seen
  <2>3. CASE class = "AlreadyResident"
    BY <2>2, <2>3 DEF BenefitClass
  <2>4. CASE class = "BecameResident"
    <3>1. CASE seen
      BY <2>2, <2>4, <3>1 DEF BenefitClass
    <3>2. CASE ~seen
      BY <2>2, <2>4, <3>2 DEF BenefitClass
    <3> QED BY <3>1, <3>2
  <2>5. CASE class = "RemainedNonResident"
    BY <2>2, <2>5 DEF BenefitClass
  <2>6. CASE class \notin {"AlreadyResident", "BecameResident", "RemainedNonResident"}
    BY <2>2, <2>6 DEF BenefitClass
  <2> QED BY <2>3, <2>4, <2>5, <2>6
<1>4. PICK k \in 1..Len(ranges) :
         /\ NamedResource(sb, n) = sb.resources[k] /\ NamedResource(sa, n) = sa.resources[k]
         /\ ranges[ProcessingOrder[k]].name = n
  BY <1>1, NamedSame
<1> DEFINE r == ranges[ProcessingOrder[k]]
           rb == sb.resources[k]
           ra == sa.resources[k]
           t == PageCount(r)
<1>5. ProcessingOrder[k] \in 1..Len(ranges) /\ ranges \in RangeLists
  BY OrderHeld DEF PagesInv, RangesHeld
<1>6. t \in Nat
  <2>1. r.start \in Nat /\ r.end \in Nat
    BY <1>5, RangesRead
  <2> QED BY <2>1, RangePages
<1>7. /\ Describes(rb, r, b) /\ Answered(rb) /\ Describes(ra, r, a) /\ Answered(ra)
  BY <1>1 DEF SnapshotHeld
<1>8. class = IF rb.total = 0 \/ rb.unknown > 0 \/ ra.unknown > 0 THEN "Unknown"
              ELSE IF rb.resident = rb.total THEN "AlreadyResident"
              ELSE IF ra.resident > rb.resident THEN "BecameResident"
              ELSE "RemainedNonResident"
  BY <1>4 DEF ResidencyClass
<1>9. \A i \in 0..(t - 1) : AvailableFor(r) => Key(r, i) \in PagesOfName(n)
  BY <1>4, <1>5, PagesHeld
<1> HIDE DEF class, r, rb, ra, t, a, b
<1>10. /\ rb.total = t /\ ra.total = t /\ rb.inspected \in 0..t /\ ra.inspected \in 0..t
       /\ rb.unknown = t - rb.inspected /\ ra.unknown = t - ra.inspected
       /\ rb.resident = Seen(r, rb.inspected, b) /\ ra.resident = Seen(r, ra.inspected, a)
       /\ \A i \in 0..(rb.inspected - 1) : Key(r, i) \in DOMAIN b
       /\ \A i \in 0..(ra.inspected - 1) : Key(r, i) \in DOMAIN a
       /\ rb.inspected > 0 => AvailableFor(r)
  BY <1>7 DEF Describes, Answered, t
<1>11. ASSUME class \in {"BecameResident", "RemainedNonResident"}
       PROVE  /\ rb.inspected = t /\ ra.inspected = t /\ t > 0 /\ rb.resident # t
              /\ (class = "BecameResident") <=> ra.resident > rb.resident
  <2>1. ~(rb.total = 0 \/ rb.unknown > 0 \/ ra.unknown > 0)
    BY <1>8, <1>11
  <2>2. rb.resident # rb.total /\ ((class = "BecameResident") <=> ra.resident > rb.resident)
    BY <1>8, <1>11, <2>1
  <2> QED BY <1>6, <1>10, <2>1, <2>2
<1>12. Seen(r, t, b) \in 0..t /\ Seen(r, t, a) \in 0..t
  BY <1>6, SeenSome
<1>13. ASSUME verdict.benefit \in {"PotentiallyUseful", "Wasted"}
       PROVE  \E p \in PagesOfName(n) \intersect DOMAIN b \intersect DOMAIN a : ~b[p] /\ a[p]
  <2>1. class = "BecameResident"
    BY <1>3, <1>13
  <2>2. rb.inspected = t /\ ra.inspected = t /\ t > 0 /\ ra.resident > rb.resident
    BY <1>11, <2>1
  <2>3. Seen(r, t, b) < Seen(r, t, a)
    <3>1. rb.resident = Seen(r, t, b) /\ ra.resident = Seen(r, t, a)
      BY <1>10, <2>2
    <3> QED BY <1>12, <2>2, <3>1
  <2>4. PICK i \in 0..(t - 1) : a[Key(r, i)] /\ ~b[Key(r, i)]
    BY <1>6, <2>3, SeenMissing
  <2>5. Key(r, i) \in DOMAIN b /\ Key(r, i) \in DOMAIN a /\ Key(r, i) \in PagesOfName(n)
    BY <1>9, <1>10, <2>2
  <2> QED BY <2>4, <2>5
<1>14. ASSUME verdict.benefit = "Ineffective"
       PROVE  \E p \in PagesOfName(n) \intersect DOMAIN a : ~a[p]
  <2>1. class = "RemainedNonResident"
    BY <1>3, <1>14
  <2>2. rb.inspected = t /\ ra.inspected = t /\ t > 0 /\ ~(ra.resident > rb.resident) /\ rb.resident # t
    BY <1>11, <2>1
  <2>3. Seen(r, t, a) < t
    <3>1. rb.resident = Seen(r, t, b) /\ ra.resident = Seen(r, t, a)
      BY <1>10, <2>2
    <3> QED BY <1>6, <1>12, <2>2, <3>1
  <2>4. PICK i \in 0..(t - 1) : ~a[Key(r, i)]
    BY <1>6, <2>3, SeenMissing
  <2>5. Key(r, i) \in DOMAIN a /\ Key(r, i) \in PagesOfName(n)
    BY <1>9, <1>10, <2>2
  <2> QED BY <2>4, <2>5
<1> QED BY <1>13, <1>14 DEF a, b

\* observe_page_residency_targeted, correlate_prefetch: for all inventories,
\* page sizes, budgets and selections, and whatever the kernel does meanwhile, the
\* counts of a snapshot add up, the budget goes to the selection first, and a
\* verdict on a prefetched resource is what the pages it rests on were seen to do.
THEOREM ObservationTheorem == PageSpec => []ObservationSound
<1>1. PagesInv => ObservationSound
  BY InvAddsUp, InvTargetsFirst, InvVerdicts DEF ObservationSound
<1> QED BY <1>1, PagesInvInit, PagesInvNext, PTL DEF PageSpec
-----------------------------------------------------------------------------
(* The registry of resources.  Its property is about the sums of a         *)
(* snapshot; the invariant adds what every registered allocation is: its   *)
(* measurements, and a padding computed from them.                         *)

\* What an allocation says of its sizes.
AllocationMeasured(a) ==
    /\ IsMeasure(a.requested) /\ IsMeasure(a.actual)
    /\ a.padding = AlignmentPadding(a.requested, a.actual)

\* One record per identifier, one owner per allocation.
RegistryInv ==
    /\ IsFiniteSet(registry.resources)
    /\ \A r, s \in registry.resources : r.id = s.id => r = s
    /\ registry.owners = {<<r.allocation.id, r.id>> :
                             r \in {s \in registry.resources : s.allocation # NoBytes}}
    /\ \A p, q \in registry.owners : p[1] = q[1] => p = q
    /\ \A r \in registry.resources : r.allocation # NoBytes => AllocationMeasured(r.allocation)

\* The padding is unknown if the size is, and else what the size has beyond
\* the request.
LEMMA PaddingMeasured ==
    ASSUME NEW a, AllocationMeasured(a)
    PROVE  /\ IsMeasure(a.padding)
           /\ a.actual.certainty = "Unknown" => a.padding.certainty = "Unknown"
           /\ a.padding.certainty # "Unknown" =>
                 /\ a.requested.certainty # "Unknown" /\ a.actual.certainty # "Unknown"
                 /\ a.requested.bytes \in Nat /\ a.padding.bytes \in Nat
                 /\ a.actual.bytes = a.requested.bytes + a.padding.bytes
<1> DEFINE q == a.requested
           t == a.actual
           x == t.bytes - q.bytes
<1>1. IsMeasure(q) /\ IsMeasure(t) /\ a.padding = AlignmentPadding(q, t)
  BY DEF AllocationMeasured
<1>2. ASSUME NEW m, IsMeasure(m)
      PROVE  /\ m.certainty = "Unknown" => m.bytes = NoBytes
             /\ m.certainty # "Unknown" => m.bytes \in Nat /\ m.bytes # NoBytes
  BY <1>2, MeasuresAssumption DEF IsMeasure, Unknown, Exact, Estimated
<1> HIDE DEF q, t
<1>3. CASE q.bytes = NoBytes \/ t.bytes = NoBytes \/ t.bytes < q.bytes
  <2>1. a.padding = Unknown
    BY <1>1, <1>3 DEF AlignmentPadding
  <2>2. IsMeasure(Unknown) /\ Unknown.certainty = "Unknown"
    BY DEF IsMeasure, Unknown
  <2> QED BY <2>1, <2>2
<1>4. CASE ~(q.bytes = NoBytes \/ t.bytes = NoBytes \/ t.bytes < q.bytes)
  <2>1. q.certainty # "Unknown" /\ t.certainty # "Unknown" /\ q.bytes \in Nat /\ t.bytes \in Nat
    BY <1>1, <1>2, <1>4
  <2>2. x \in Nat /\ t.bytes = q.bytes + x
    BY <1>4, <2>1
  <2>3. a.padding = Exact(x) \/ a.padding = Estimated(x)
    BY <1>1, <1>4 DEF AlignmentPadding
  <2> HIDE DEF x
  <2>4. a.padding.bytes = x /\ a.padding.certainty # "Unknown" /\ IsMeasure(a.padding)
    BY <2>2, <2>3 DEF Exact, Estimated, IsMeasure
  <2> QED BY <2>1, <2>2, <2>4 DEF q, t
<1> QED BY <1>3, <1>4

\* A total of measurements that are all known is the sum of their bytes.
LEMMA TotalKnown ==
    ASSUME NEW f, IsFiniteSet(DOMAIN f), \A r \in DOMAIN f : IsMeasure(f[r]) /\ f[r].certainty # "Unknown"
    PROVE  BytesGiven(ByteTotal(f)) = SumOver([r \in DOMAIN f |-> f[r].bytes], DOMAIN f)
<1> DEFINE S == DOMAIN f
           b == [r \in S |-> f[r].bytes]
           Of(c) == {r \in S : f[r].certainty = c}
<1>1. \A r \in S : b[r] \in Nat /\ f[r].certainty \in {"Exact", "Estimated"}
  BY DEF IsMeasure, Unknown, Exact, Estimated
<1>2. ASSUME NEW T \in SUBSET S
      PROVE  (CHOOSE h : h = [s \in SUBSET T |-> IF s = {} THEN 0
                               ELSE LET x == CHOOSE x \in s : TRUE IN f[x].bytes + h[s \ {x}]])[T]
                = SumOver(b, T)
  <2>1. \A s \in SUBSET T : s # {} => b[CHOOSE x \in s : TRUE] = f[CHOOSE x \in s : TRUE].bytes
    BY <1>2
  <2>2. ASSUME NEW h
        PROVE  h = [s \in SUBSET T |-> IF s = {} THEN 0
                      ELSE LET x == CHOOSE x \in s : TRUE IN f[x].bytes + h[s \ {x}]]
               <=> Sums(h, b, T)
    <3> HIDE DEF b, S
    <3> QED BY <2>1 DEF Sums
  <2> HIDE DEF b, S
  <2> QED BY <2>2, SumIsFold
<1>3. ByteTotal(f).exact = SumOver(b, Of("Exact")) /\ ByteTotal(f).estimated = SumOver(b, Of("Estimated"))
  <2>1. ByteTotal(f).exact
          = (CHOOSE h : h = [s \in SUBSET Of("Exact") |-> IF s = {} THEN 0
                               ELSE LET x == CHOOSE x \in s : TRUE IN f[x].bytes + h[s \ {x}]])[Of("Exact")]
    BY DEF ByteTotal, MapThenSumSet, MapThenFoldSet
  <2>2. ByteTotal(f).estimated
          = (CHOOSE h : h = [s \in SUBSET Of("Estimated") |-> IF s = {} THEN 0
                               ELSE LET x == CHOOSE x \in s : TRUE IN f[x].bytes + h[s \ {x}]])[Of("Estimated")]
    BY DEF ByteTotal, MapThenSumSet, MapThenFoldSet
  <2>3. Of("Exact") \in SUBSET S /\ Of("Estimated") \in SUBSET S
    OBVIOUS
  <2> HIDE DEF b, S, Of
  <2> QED BY <1>2, <2>1, <2>2, <2>3
<1>4. /\ Of("Exact") \cup Of("Estimated") = S /\ Of("Exact") \cap Of("Estimated") = {}
      /\ Of("Exact") \in SUBSET S /\ Of("Estimated") \in SUBSET S
  <2> HIDE DEF S, b
  <2> QED BY <1>1
<1>5. IsFiniteSet(Of("Exact")) /\ IsFiniteSet(Of("Estimated"))
  <2> HIDE DEF Of
  <2> QED BY <1>4, FS_Subset
<1> HIDE DEF S, b, Of
<1>6. SumOver(b, S) = SumOver(b, Of("Exact")) + SumOver(b, Of("Estimated"))
  <2>1. \A r \in Of("Exact") \cup Of("Estimated") : b[r] \in Int
    BY <1>1, <1>4
  <2>2. SumOver(b, Of("Exact") \cup Of("Estimated"))
           = SumOver(b, Of("Exact")) + SumOver(b, Of("Estimated"))
    BY <1>4, <1>5, <2>1, SumJoin2
  <2> QED BY <1>4, <2>2
<1> QED BY <1>3, <1>6 DEF BytesGiven, S, b

\* Every record that is inserted has measured sizes.
LEMMA RecordsMeasured ==
    ASSUME NEW r \in Records, r.allocation # NoBytes
    PROVE  AllocationMeasured(r.allocation)
<1>0. ASSUME NEW m \in Measures PROVE IsMeasure(m)
  BY MeasuresAssumption
<1>1. ASSUME NEW i, NEW d, NEW q, IsMeasure(q), NEW t, IsMeasure(t), NEW u,
             r.allocation = Allocation(i, d, q, t, u)
      PROVE  AllocationMeasured(r.allocation)
  BY <1>1 DEF AllocationMeasured, Allocation
<1>2. CASE \E id \in ResourceIds, tensor \in Descriptors : r = TensorRecord(id, tensor)
  BY <1>2 DEF TensorRecord
<1>3. CASE \E id \in ResourceIds, category \in {"KvCache"}, logical \in Measures :
              r = RuntimeRecord(id, category, logical, NoBytes)
  BY <1>3 DEF RuntimeRecord
<1>4. CASE \E id \in ResourceIds, category \in {"KvCache", "Weights"}, i \in AllocationIds,
              d \in Domains, q \in Measures, t \in Measures :
              r = RuntimeRecord(id, category, Unknown, Allocation(i, d, q, t, Unknown))
  <2>1. PICK id \in ResourceIds, category \in {"KvCache", "Weights"}, i \in AllocationIds,
             d \in Domains, q \in Measures, t \in Measures :
             r = RuntimeRecord(id, category, Unknown, Allocation(i, d, q, t, Unknown))
    BY <1>4
  <2>2. r.allocation = Allocation(i, d, q, t, Unknown)
    BY <2>1 DEF RuntimeRecord
  <2> QED BY <1>0, <1>1, <2>2
<1>5. CASE \E id \in ResourceIds, category \in {"KvCache", "Weights"}, i \in AllocationIds,
              d \in Domains, q \in Measures :
              r = RuntimeRecord(id, category, Unknown, UnmeasuredAllocation(i, d, q))
  <2>1. PICK id \in ResourceIds, category \in {"KvCache", "Weights"}, i \in AllocationIds,
             d \in Domains, q \in Measures :
             r = RuntimeRecord(id, category, Unknown, UnmeasuredAllocation(i, d, q))
    BY <1>5
  <2>2. r.allocation = Allocation(i, d, q, Unknown, Unknown)
    BY <2>1 DEF RuntimeRecord, UnmeasuredAllocation
  <2>3. IsMeasure(Unknown)
    BY DEF IsMeasure
  <2> QED BY <1>0, <1>1, <2>2, <2>3
<1> QED BY <1>2, <1>3, <1>4, <1>5 DEF Records

LEMMA RegistryInvInit == RegistryInit => RegistryInv
<1>1. IsFiniteSet({})
  BY FS_EmptySet
<1> QED BY <1>1 DEF RegistryInit, NewRegistry, RegistryInv

\* A record that is inserted brings a new identifier and a new allocation.
LEMMA InsertKept ==
    ASSUME RegistryInv, NEW r \in Records, InsertRecord(r)
    PROVE  RegistryInv'
<1>1. CASE ~Insertable(r)
  BY <1>1 DEF InsertRecord, RegistryInv
<1>2. CASE Insertable(r)
  <2> DEFINE own == IF r.allocation = NoBytes THEN {} ELSE {<<r.allocation.id, r.id>>}
  <2>1. registry'.resources = registry.resources \union {r} /\ registry'.owners = registry.owners \union own
    BY <1>2 DEF InsertRecord
  <2>2. IsFiniteSet(registry'.resources)
    BY <2>1, FS_AddElement DEF RegistryInv
  <2>3. \A p, s \in registry'.resources : p.id = s.id => p = s
    BY <1>2, <2>1 DEF RegistryInv, Insertable, Registered
  <2>4. registry'.owners = {<<p.allocation.id, p.id>> :
                               p \in {s \in registry'.resources : s.allocation # NoBytes}}
    BY <2>1 DEF RegistryInv
  <2>5. \A p, q \in registry'.owners : p[1] = q[1] => p = q
    <3>1. \A p \in registry.owners : r.allocation # NoBytes => p[1] # r.allocation.id
      BY <1>2 DEF Insertable, Owned
    <3>2. \A p \in own : r.allocation # NoBytes /\ p = <<r.allocation.id, r.id>>
      OBVIOUS
    <3> HIDE DEF own
    <3> QED BY <2>1, <3>1, <3>2 DEF RegistryInv
  <2>6. \A p \in registry'.resources : p.allocation # NoBytes => AllocationMeasured(p.allocation)
    BY <2>1, RecordsMeasured DEF RegistryInv
  <2> QED BY <2>2, <2>3, <2>4, <2>5, <2>6 DEF RegistryInv
<1> QED BY <1>1, <1>2

\* What is removed takes its allocation with it, which no other resource has.
LEMMA RemoveKept ==
    ASSUME RegistryInv, NEW id, RemoveRecord(id)
    PROVE  RegistryInv'
<1> DEFINE removed == {r \in registry.resources : r.id = id /\ r.allocation # NoBytes}
<1>1. /\ registry'.resources = {r \in registry.resources : r.id # id}
      /\ registry'.owners = {p \in registry.owners : p[1] \notin {r.allocation.id : r \in removed}}
  BY DEF RemoveRecord
<1>2. IsFiniteSet(registry'.resources)
  <2>1. registry'.resources \in SUBSET registry.resources
    BY <1>1
  <2> QED BY <2>1, FS_Subset DEF RegistryInv
<1>3. registry'.owners = {<<r.allocation.id, r.id>> :
                             r \in {s \in registry'.resources : s.allocation # NoBytes}}
  <2>1. ASSUME NEW p \in registry'.owners
        PROVE  \E r \in registry'.resources : r.allocation # NoBytes /\ p = <<r.allocation.id, r.id>>
    <3>1. PICK r \in registry.resources : r.allocation # NoBytes /\ p = <<r.allocation.id, r.id>>
      BY <1>1 DEF RegistryInv
    <3>2. r.id # id
      BY <1>1, <3>1
    <3> QED BY <1>1, <3>1, <3>2
  <2>2. ASSUME NEW r \in registry'.resources, r.allocation # NoBytes
        PROVE  <<r.allocation.id, r.id>> \in registry'.owners
    <3> DEFINE p == <<r.allocation.id, r.id>>
    <3>1. r \in registry.resources /\ r.id # id /\ p \in registry.owners
      BY <1>1, <2>2 DEF RegistryInv
    <3>2. ASSUME NEW s \in removed, p[1] = s.allocation.id PROVE FALSE
      <4>1. <<s.allocation.id, s.id>> \in registry.owners
        BY DEF RegistryInv
      <4>2. p = <<s.allocation.id, s.id>>
        BY <3>1, <3>2, <4>1 DEF RegistryInv
      <4> QED BY <3>1, <4>2
    <3> QED BY <1>1, <3>1, <3>2
  <2> QED BY <2>1, <2>2
<1>4. /\ \A r, s \in registry'.resources : r.id = s.id => r = s
      /\ \A p, q \in registry'.owners : p[1] = q[1] => p = q
      /\ \A r \in registry'.resources : r.allocation # NoBytes => AllocationMeasured(r.allocation)
  BY <1>1 DEF RegistryInv
<1> QED BY <1>2, <1>3, <1>4 DEF RegistryInv

LEMMA RegistryInvNext == RegistryInv /\ [RegistryNext]_registry => RegistryInv'
<1>1. ASSUME RegistryInv, UNCHANGED registry PROVE RegistryInv'
  BY <1>1 DEF RegistryInv
<1> QED BY <1>1, InsertKept, RemoveKept DEF RegistryNext

\* The unknown parts and the sums of a domain's allocations.
LEMMA DomainTotals ==
    ASSUME NEW S, IsFiniteSet(S), \A r \in S : AllocationMeasured(r.allocation)
    PROVE  LET padding == ByteTotal([r \in S |-> r.allocation.padding])
               actual == ByteTotal([r \in S |-> r.allocation.actual])
               requested == ByteTotal([r \in S |-> r.allocation.requested])
           IN  /\ padding.unknown = 0 =>
                     /\ actual.unknown = 0
                     /\ BytesGiven(requested) + BytesGiven(padding) = BytesGiven(actual)
               /\ padding.unknown >= actual.unknown
<1> DEFINE pad == [r \in S |-> r.allocation.padding]
           act == [r \in S |-> r.allocation.actual]
           req == [r \in S |-> r.allocation.requested]
           bytes(f) == [r \in S |-> f[r].bytes]
           P == {r \in S : pad[r].certainty = "Unknown"}
           A == {r \in S : act[r].certainty = "Unknown"}
<1>1. DOMAIN pad = S /\ DOMAIN act = S /\ DOMAIN req = S
  OBVIOUS
<1>2. \A r \in S : /\ IsMeasure(pad[r]) /\ IsMeasure(act[r]) /\ IsMeasure(req[r])
                   /\ act[r].certainty = "Unknown" => pad[r].certainty = "Unknown"
                   /\ pad[r].certainty # "Unknown" =>
                         /\ req[r].certainty # "Unknown" /\ act[r].certainty # "Unknown"
                         /\ req[r].bytes \in Nat /\ pad[r].bytes \in Nat
                         /\ act[r].bytes = req[r].bytes + pad[r].bytes
  BY PaddingMeasured DEF AllocationMeasured
<1> HIDE DEF pad, act, req
<1>3. ByteTotal(pad).unknown = Cardinality(P) /\ ByteTotal(act).unknown = Cardinality(A)
  BY <1>1 DEF ByteTotal
<1>4. IsFiniteSet(P) /\ A \in SUBSET P
  <2>1. P \in SUBSET S /\ A \in SUBSET P
    BY <1>2
  <2> QED BY <2>1, FS_Subset
<1>5. Cardinality(A) \in Nat /\ Cardinality(P) \in Nat /\ Cardinality(A) <= Cardinality(P)
  <2> HIDE DEF A, P
  <2> QED BY <1>4, FS_Subset, FS_CardinalityType
<1>6. ASSUME Cardinality(P) = 0
      PROVE  /\ Cardinality(A) = 0
             /\ BytesGiven(ByteTotal(req)) + BytesGiven(ByteTotal(pad)) = BytesGiven(ByteTotal(act))
  <2>1. P = {}
    <3> HIDE DEF P
    <3> QED BY <1>4, <1>6, FS_EmptySet
  <2>2. \A r \in S : /\ pad[r].certainty # "Unknown" /\ req[r].certainty # "Unknown"
                     /\ act[r].certainty # "Unknown"
                     /\ req[r].bytes \in Nat /\ pad[r].bytes \in Nat
                     /\ act[r].bytes = req[r].bytes + pad[r].bytes
    BY <1>2, <2>1
  <2>3. /\ BytesGiven(ByteTotal(req)) = SumOver(bytes(req), S)
        /\ BytesGiven(ByteTotal(pad)) = SumOver(bytes(pad), S)
        /\ BytesGiven(ByteTotal(act)) = SumOver(bytes(act), S)
    BY <1>1, <1>2, <2>2, TotalKnown
  <2>4. \A r \in S : /\ bytes(req)[r] \in Int /\ bytes(pad)[r] \in Int
                     /\ bytes(act)[r] = bytes(req)[r] + bytes(pad)[r]
    BY <2>2
  <2> HIDE DEF bytes
  <2>5. SumOver(bytes(act), S) = SumOver(bytes(req), S) + SumOver(bytes(pad), S)
    BY <2>4, SumPlus
  <2>6. BytesGiven(ByteTotal(req)) + BytesGiven(ByteTotal(pad)) = BytesGiven(ByteTotal(act))
    BY <2>3, <2>5, Zenon
  <2>7. Cardinality(A) = 0
    BY <1>5, <1>6
  <2> QED BY <2>6, <2>7
<1> HIDE DEF A, P
<1>7. ByteTotal(pad).unknown >= ByteTotal(act).unknown
  BY <1>3, <1>5
<1>8. ByteTotal(pad).unknown = 0 =>
          /\ ByteTotal(act).unknown = 0
          /\ BytesGiven(ByteTotal(req)) + BytesGiven(ByteTotal(pad)) = BytesGiven(ByteTotal(act))
  BY <1>3, <1>6, Zenon
<1> QED BY <1>7, <1>8, Zenon DEF pad, act, req

\* ResourceRegistry::insert, remove and snapshot: whatever is inserted, with
\* whatever measurements, and removed, the two maps of the registry describe
\* the same allocations, no allocation has two owners, and the totals of a
\* snapshot add up without an unknown size counted as zero.
THEOREM RegistryTheorem == RegistrySpec => []RegistryAddsUp
<1>1. RegistryInv => RegistryAddsUp
  <2> SUFFICES ASSUME RegistryInv PROVE RegistryAddsUp
    OBVIOUS
  <2> DEFINE all == registry.resources
             totals == Totals(all)
  <2>1. ASSUME Snapshot(all) # NoBytes PROVE Snapshot(all) = totals
    BY <2>1, Zenon DEF Snapshot
  <2>2. ASSUME NEW d \in Domains
        PROVE  /\ totals.padding[d].unknown = 0 =>
                     /\ totals.actual[d].unknown = 0
                     /\ BytesGiven(totals.requested[d]) + BytesGiven(totals.padding[d]) = BytesGiven(totals.actual[d])
               /\ totals.padding[d].unknown >= totals.actual[d].unknown
    <3> DEFINE S == InDomain(all, d)
    <3>1. IsFiniteSet(S) /\ \A r \in S : AllocationMeasured(r.allocation)
      <4>1. S \in SUBSET all /\ \A r \in S : r.allocation # NoBytes
        BY DEF InDomain
      <4> QED BY <4>1, FS_Subset DEF RegistryInv
    <3>2. /\ totals.padding[d] = ByteTotal([r \in S |-> r.allocation.padding])
          /\ totals.actual[d] = ByteTotal([r \in S |-> r.allocation.actual])
          /\ totals.requested[d] = ByteTotal([r \in S |-> r.allocation.requested])
      BY DEF Totals
    <3> HIDE DEF S, totals
    <3> QED BY <3>1, <3>2, DomainTotals
  <2>3. /\ registry.owners = {<<r.allocation.id, r.id>> :
                                 r \in {s \in registry.resources : s.allocation # NoBytes}}
        /\ \A p, q \in registry.owners : p[1] = q[1] => p = q
    BY DEF RegistryInv
  <2> HIDE DEF totals
  <2> QED BY <2>1, <2>2, <2>3 DEF RegistryAddsUp
<1> QED BY <1>1, RegistryInvInit, RegistryInvNext, PTL DEF RegistrySpec
=============================================================================
