---------------------------- MODULE MemoryBudget ----------------------------
(***************************************************************************)
(* The ledger as its callers drive it: plain charges, resizes, committed   *)
(* resizes and prefix renames in any order, nested inside the scoped       *)
(* temporary charges of with_temp, whose bodies may return normally,       *)
(* return an error or panic.                                               *)
(***************************************************************************)
EXTENDS Budget, Sequences

CONSTANTS
    TempPrefix,  \* the prefix ("tmp:") only with_temp charges
    MaxDepth     \* bound on the nesting of with_temp scopes

ASSUME TempAssumption == TempPrefix \in NamePrefixes /\ MaxDepth \in Nat

VARIABLES
    budget,     \* the ledger
    scopes,     \* the open with_temp scopes, innermost last
    unwinding,  \* a panic is propagating through the open scopes
    result      \* what the last operation returned

vars == <<budget, scopes, unwinding, result>>

Results == {"Ok", "InvalidSize", "AlreadyExists", "Insufficient", "NotFound",
            "AccountingOverflow", "AccountingUnderflow"}

\* A scope of 0 bytes runs its body without a charge.
Scopes == [name : Names, bytes : 0..MaxU64]

TypeOK ==
    /\ budget \in Ledgers
    /\ scopes \in Seq(Scopes)
    /\ unwinding \in BOOLEAN
    /\ result \in Results

Init ==
    /\ \E total \in 1..MaxU64 : budget = NewLedger(total)
    /\ scopes = <<>>
    /\ unwinding = FALSE
    /\ result = "Ok"

\* An operation that returns r and leaves the ledger as b when r is "Ok".
Returns(r, b) ==
    /\ result' = r
    /\ budget' = IF r = "Ok" THEN b ELSE budget

\* The names callers charge and release themselves.
OwnNames == {n \in Names : n[1] # TempPrefix}
TempNames == Names \ OwnNames

Allocate(n, bytes) ==
    /\ ~unwinding
    /\ n \in OwnNames
    /\ Returns(AllocateResult(budget, n, bytes), Allocated(budget, n, bytes))
    /\ UNCHANGED <<scopes, unwinding>>

Release(n) ==
    /\ ~unwinding
    /\ n \in OwnNames
    /\ Returns(ReleaseResult(budget, n), Released(budget, n))
    /\ UNCHANGED <<scopes, unwinding>>

\* The forward pass also resizes the charge of the scope it runs in.
Resize(n, bytes) ==
    /\ ~unwinding
    /\ Returns(ResizeResult(budget, n, bytes), Resized(budget, n, bytes))
    /\ UNCHANGED <<scopes, unwinding>>

CommitResize(target, reservation, bytes) ==
    /\ ~unwinding
    /\ {target, reservation} \subseteq OwnNames
    /\ Returns(CommitResizeResult(budget, target, reservation, bytes),
               ResizeCommitted(budget, target, reservation, bytes))
    /\ UNCHANGED <<scopes, unwinding>>

RenamePrefix(p, q) ==
    /\ ~unwinding
    /\ TempPrefix \notin {p, q}
    /\ Returns(RenamePrefixResult(budget, p, q), PrefixRenamed(budget, p, q))
    /\ UNCHANGED <<scopes, unwinding>>

\* with_temp up to the call of its body.
EnterTemp(n, bytes) ==
    /\ ~unwinding
    /\ n \in TempNames
    /\ Len(scopes) < MaxDepth
    /\ IF bytes = 0
       THEN result' = "Ok" /\ UNCHANGED budget
       ELSE Returns(AllocateResult(budget, n, bytes), Allocated(budget, n, bytes))
    /\ scopes' = IF result' = "Ok"
                 THEN Append(scopes, [name |-> n, bytes |-> bytes])
                 ELSE scopes
    /\ UNCHANGED unwinding

Innermost == scopes[Len(scopes)]

\* The end of with_temp, whichever way the body ended.
CloseScope ==
    /\ scopes # <<>>
    /\ scopes' = SubSeq(scopes, 1, Len(scopes) - 1)
    /\ IF Innermost.bytes = 0
       THEN result' = "Ok" /\ UNCHANGED budget
       ELSE Returns(ReleaseResult(budget, Innermost.name), Released(budget, Innermost.name))

\* The body returned, with a value or an error.
LeaveTemp ==
    /\ ~unwinding
    /\ CloseScope
    /\ UNCHANGED unwinding

\* The body panics.
Panic ==
    /\ ~unwinding
    /\ scopes # <<>>
    /\ unwinding' = TRUE
    /\ UNCHANGED <<budget, scopes, result>>

\* Mutant: the panic passes through the scope without releasing its charge.
UnwindWithoutRelease ==
    /\ unwinding
    /\ scopes' = SubSeq(scopes, 1, Len(scopes) - 1)
    /\ unwinding' = (Len(scopes) > 1)
    /\ UNCHANGED <<budget, result>>

\* with_temp catches the panic, releases its charge and resumes the panic,
\* which the caller of the outermost scope ends.
Unwind ==
    /\ unwinding
    /\ CloseScope
    /\ unwinding' = (Len(scopes) > 1)

Next ==
    \/ \E n \in Names, bytes \in 0..MaxU64 :
          \/ Allocate(n, bytes)
          \/ Resize(n, bytes)
          \/ EnterTemp(n, bytes)
          \/ \E m \in Names : CommitResize(n, m, bytes)
    \/ \E n \in Names : Release(n)
    \/ \E p, q \in NamePrefixes : RenamePrefix(p, q)
    \/ LeaveTemp
    \/ Panic
    \/ Unwind

Spec == Init /\ [][Next]_vars
-----------------------------------------------------------------------------
(***************************************************************************)
(* `used` is exactly the sum of the charges, whatever the order of         *)
(* charges, resizes, committed resizes, renames and unwound scopes: the    *)
(* two are updated separately in memory.rs.                                *)
(***************************************************************************)
LedgerBalanced == budget.used = Cardinality(ChargedBytes(budget.allocations))

(***************************************************************************)
(* The ledger never holds more than the budget, and the recorded peak      *)
(* stays between the two: what available_bytes() aborts the process for.   *)
(***************************************************************************)
WithinBudget == budget.used <= budget.peak_used /\ budget.peak_used <= budget.total

\* What the other names are charged for.
ChargedBeside(b, n, m) == Cardinality(ChargedBytes([b.allocations EXCEPT ![n] = 0, ![m] = 0]))

(***************************************************************************)
(* The ledger always adds up well enough for the checked arithmetic not to *)
(* trip over it: no release, charge or resize fails with an accounting     *)
(* overflow or underflow, so a component that panics on a failed release   *)
(* (caches, the engine's destructor) only does so for a missing name.      *)
(* commit_resize alone computes the sum before it compares it with the     *)
(* budget, and may report an overflow; it does so, as it reports a budget  *)
(* that is insufficient, only for a size that does not fit beside the      *)
(* charges of the other names.                                             *)
(***************************************************************************)
AccountingErrorsTruthful ==
    \A n \in Names :
       /\ ReleaseResult(budget, n) # "AccountingUnderflow"
       /\ \A bytes \in 0..MaxU64 :
             /\ AllocateResult(budget, n, bytes) # "AccountingOverflow"
             /\ ResizeResult(budget, n, bytes)
                   \notin {"AccountingOverflow", "AccountingUnderflow"}
             /\ \A m \in Names :
                   LET answer == CommitResizeResult(budget, n, m, bytes)
                   IN  /\ answer # "AccountingUnderflow"
                       /\ answer \in {"AccountingOverflow", "Insufficient"}
                            => ChargedBeside(budget, n, m) + bytes > budget.total

\* A scope that charged a name and has to release it.
Holds(scope, n) == scope.name = n /\ scope.bytes # 0

(***************************************************************************)
(* A scoped temporary name is charged exactly while a charged with_temp    *)
(* scope for it is open, however its body and the bodies around it ended,  *)
(* and no two open scopes share a charge.                                  *)
(***************************************************************************)
TempChargesScoped ==
    \A n \in TempNames :
       /\ Charged(budget, n) <=> \E i \in 1..Len(scopes) : Holds(scopes[i], n)
       /\ \A i, j \in 1..Len(scopes) : Holds(scopes[i], n) /\ Holds(scopes[j], n) => i = j

=============================================================================
