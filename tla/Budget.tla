------------------------------- MODULE Budget -------------------------------
(***************************************************************************)
(* The operations of RAMforge's logical allocation ledger                  *)
(* (crates/ramforge-core/src/memory.rs, struct MemoryBudget) as operators  *)
(* on a ledger record.  The components that charge the ledger (the layer   *)
(* cache, the KV cache, the streaming engine) and the state machine of     *)
(* module MemoryBudget all use these operators.                            *)
(*                                                                         *)
(* A name is a pair <<prefix, rest>>: the code's names are strings such as *)
(* "layer:3:attn_q" and it only ever matches them whole or by a prefix     *)
(* that ends in a colon.  A name that is not charged has 0 bytes: the code *)
(* refuses a charge of 0 bytes, so 0 and "absent" never collide.           *)
(***************************************************************************)
EXTENDS Integers, FiniteSets

CONSTANTS
    NamePrefixes,   \* the name prefixes in use
    Rests,      \* what may follow a prefix
    MaxU64      \* the largest value of the counters' type

ASSUME MaxU64Assumption == MaxU64 \in Nat \ {0}

Names == NamePrefixes \X Rests

Ledgers == [total : 1..MaxU64,
            allocations : [Names -> 0..MaxU64],
            used : 0..MaxU64,
            peak_used : 0..MaxU64]

(***************************************************************************)
(* The bytes a charge map stands for, one element for each byte charged to *)
(* each name.  Its cardinality is the sum of the charges.                  *)
(***************************************************************************)
ChargedBytes(alloc) == UNION {{n} \X (1..alloc[n]) : n \in Names}

NewLedger(total) == [total |-> total, allocations |-> [n \in Names |-> 0],
                     used |-> 0, peak_used |-> 0]

Charged(b, n) == b.allocations[n] # 0

Available(b) == b.total - b.used

\* Mutant: compares with the whole budget instead of what is left of it.
CanAllocateFromTotal(b, bytes) == bytes <= b.total

CanAllocate(b, bytes) == bytes <= Available(b)

Larger(x, y) == IF x < y THEN y ELSE x

\* The ledger with other charges, their sum, and the peak brought up to it.
Recharged(b, allocations, used) ==
    [total |-> b.total, allocations |-> allocations,
     used |-> used, peak_used |-> Larger(b.peak_used, used)]

(***************************************************************************)
(* Every operation is given by its result, "Ok" or the MemoryError it      *)
(* returns, and by the ledger after an "Ok" result.  An operation that     *)
(* fails returns before it has changed anything.                           *)
(***************************************************************************)
AllocateResult(b, n, bytes) ==
    IF bytes = 0 THEN "InvalidSize"
    ELSE IF Charged(b, n) THEN "AlreadyExists"
    ELSE IF ~CanAllocate(b, bytes) THEN "Insufficient"
    ELSE IF b.used + bytes > MaxU64 THEN "AccountingOverflow"
    ELSE "Ok"

Allocated(b, n, bytes) ==
    Recharged(b, [b.allocations EXCEPT ![n] = bytes], b.used + bytes)

ReleaseResult(b, n) ==
    IF ~Charged(b, n) THEN "NotFound"
    ELSE IF b.allocations[n] > b.used THEN "AccountingUnderflow"
    ELSE "Ok"

Released(b, n) ==
    [total |-> b.total, allocations |-> [b.allocations EXCEPT ![n] = 0],
     used |-> b.used - b.allocations[n], peak_used |-> b.peak_used]

ResizeResult(b, n, bytes) ==
    LET old == b.allocations[n]
    IN IF bytes = 0 THEN "InvalidSize"
       ELSE IF ~Charged(b, n) THEN "NotFound"
       ELSE IF bytes > old /\ ~CanAllocate(b, bytes - old) THEN "Insufficient"
       ELSE IF bytes > old /\ b.used + (bytes - old) > MaxU64 THEN "AccountingOverflow"
       ELSE IF old > bytes /\ old - bytes > b.used THEN "AccountingUnderflow"
       ELSE "Ok"

Resized(b, n, bytes) ==
    Recharged(b, [b.allocations EXCEPT ![n] = bytes], b.used + bytes - b.allocations[n])

(***************************************************************************)
(* Replaces the charges of an old buffer (target) and of the buffer that   *)
(* took its place (reservation) by one charge of the final size.           *)
(***************************************************************************)
CommitResizeResult(b, target, reservation, bytes) ==
    LET base == b.used - b.allocations[target] - b.allocations[reservation]
    IN IF bytes = 0 THEN "InvalidSize"
       ELSE IF target = reservation THEN "AlreadyExists"
       ELSE IF ~Charged(b, target) \/ ~Charged(b, reservation) THEN "NotFound"
       ELSE IF base < 0 THEN "AccountingUnderflow"
       ELSE IF base + bytes > MaxU64 THEN "AccountingOverflow"
       ELSE IF base + bytes > b.total THEN "Insufficient"
       ELSE "Ok"

\* Mutant: the old buffer's bytes stay in `used`.
ResizeCommittedKeepingOld(b, target, reservation, bytes) ==
    Recharged(b, [b.allocations EXCEPT ![target] = bytes, ![reservation] = 0],
              b.used - b.allocations[reservation] + bytes)

ResizeCommitted(b, target, reservation, bytes) ==
    Recharged(b, [b.allocations EXCEPT ![target] = bytes, ![reservation] = 0],
              b.used - b.allocations[target] - b.allocations[reservation] + bytes)

\* The charged names that start with a prefix.
ChargedUnder(b, p) == {n \in Names : n[1] = p /\ Charged(b, n)}

RenamePrefixResult(b, p, q) ==
    IF ChargedUnder(b, p) = {} THEN "NotFound"
    ELSE IF \E n \in ChargedUnder(b, p) : Charged(b, <<q, n[2]>>) THEN "AlreadyExists"
    ELSE "Ok"

PrefixRenamed(b, p, q) ==
    [b EXCEPT !.allocations =
        [n \in Names |-> IF n[1] = q /\ Charged(b, <<p, n[2]>>)
                         THEN b.allocations[<<p, n[2]>>]
                         ELSE IF n[1] = p THEN 0 ELSE b.allocations[n]]]
=============================================================================
