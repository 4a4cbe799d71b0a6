-------------------------- MODULE ResidencyPlanner --------------------------
(***************************************************************************)
(* The decisions of the residency engine                                   *)
(* (crates/ramforge-runtime/src/residency_engine.rs) about the tensors of  *)
(* a memory-mapped model, as operators: which of a tensor's pages others   *)
(* share, which tensors a release plan selects to bring the process down   *)
(* to its target, and which ones a staging plan prefetches within a limit. *)
(*                                                                         *)
(* An inventory is a sequence of tensors; a tensor is what the native      *)
(* mapping metadata says of it: whether it is file backed, in which        *)
(* mapping (NoValue when unknown), its page range [start, end) clipped to the *)
(* mapping, and the sort key of its layer.                                 *)
(***************************************************************************)
EXTENDS Integers, FiniteSets, SequencesExt, FiniteSetsExt

NoValue == -1

ApplyingModes == {"Conservative", "MemoryBound", "ReuseAware", "Active"}
Modes == ApplyingModes \cup {"Off", "Observe"}

LargerOf(a, b) == IF a < b THEN b ELSE a
Smaller(a, b) == IF a < b THEN a ELSE b
SaturatingSub(a, b) == IF a < b THEN 0 ELSE a - b

PageBytes(t) == IF t.file_backed THEN SaturatingSub(t.end, t.start) ELSE 0
TotalPageBytes(inventory) ==
    MapThenSumSet(LAMBDA i : PageBytes(inventory[i]), DOMAIN inventory)

-----------------------------------------------------------------------------
(* The page-sharing analysis of the inventory. *)

\* The intervals are sorted by their start, ties by their end.  A range met
\* twice is one element of the set: the second adds nothing to the total.
Earlier(a, b) == a[1] < b[1] \/ (a[1] = b[1] /\ a[2] < b[2])

MergedIntervalBytes(intervals) ==
    IF intervals = {} THEN 0
    ELSE LET sorted == SetToSortSeq(intervals, Earlier)
             Extend(run, next) ==
                 IF next[1] > run.last
                 THEN [total |-> run.total + (run.last - run.first),
                       first |-> next[1], last |-> next[2]]
                 ELSE [run EXCEPT !.last = LargerOf(@, next[2])]
             run == FoldLeft(Extend, [total |-> 0, first |-> Head(sorted)[1],
                                      last |-> Head(sorted)[2]], Tail(sorted))
         IN  run.total + (run.last - run.first)

\* Mutant: only the tensors after this one are looked at.
SharedIntervalsWithLater(inventory, i) ==
    LET t == inventory[i]
        others == {j \in DOMAIN inventory : j > i /\ PageBytes(inventory[j]) > 0
                                                /\ inventory[j].mapping = t.mapping}
    IN  {r \in {<<LargerOf(t.start, inventory[j].start), Smaller(t.end, inventory[j].end)>> :
                 j \in others} : r[1] < r[2]}

SharedIntervals(inventory, i) ==
    LET t == inventory[i]
        others == {j \in DOMAIN inventory \ {i} :
                     /\ PageBytes(inventory[j]) > 0
                     /\ inventory[j].mapping = t.mapping}
    IN  {r \in {<<LargerOf(t.start, inventory[j].start), Smaller(t.end, inventory[j].end)>> :
                 j \in others} : r[1] < r[2]}

SharedPageBytes(inventory, i) ==
    IF PageBytes(inventory[i]) = 0 THEN 0
    ELSE MergedIntervalBytes(SharedIntervals(inventory, i))

UniqueReclaimableBytes(inventory, i) ==
    SaturatingSub(PageBytes(inventory[i]), SharedPageBytes(inventory, i))

\* What a plan says it reclaims with the tensors in S.
Reclaim(inventory, S) == MapThenSumSet(LAMBDA i : UniqueReclaimableBytes(inventory, i), S)

-----------------------------------------------------------------------------
(* The release plan.  A policy has a mode, a soft target (NoValue when there  *)
(* is none) and a reserve; reuse[i] is the order in which the profile last *)
(* saw tensor i used, 0 when it did not, and the empty function stands for *)
(* no profile.                                                             *)

ValidPolicy(policy) ==
    /\ policy.target # NoValue => policy.reserve <= policy.target
    /\ policy.mode \in {"Active", "MemoryBound"} => policy.target # NoValue

Need(inventory, policy, observed) ==
    IF policy.target = NoValue THEN 0
    ELSE LET current == IF observed = NoValue THEN TotalPageBytes(inventory) ELSE observed
         IN  SaturatingSub(current, SaturatingSub(policy.target, policy.reserve))

\* Only a file-backed tensor has the lifetime that allows a release, so the
\* two lifetime conditions of the code add nothing to the first one.
\* `open' is the native guard: TRUE when the manager is not bound to a native
\* model or has observed it quiescent.
Candidates(inventory, policy, open, required, attempted) ==
    {i \in DOMAIN inventory \ (required \cup attempted) :
        /\ policy.mode # "Off"
        /\ inventory[i].file_backed
        /\ open
        /\ PageBytes(inventory[i]) > 0
        /\ UniqueReclaimableBytes(inventory, i) > 0
        /\ policy.mode = "Conservative" => SharedPageBytes(inventory, i) = 0}

\* The order candidates are taken in: the ones that share no page, with a
\* reuse-aware policy the ones used longest ago, the largest, by layer, by
\* tensor index.
SelectionKey(inventory, policy, reuse, i) ==
    <<IF SharedPageBytes(inventory, i) > 0 THEN 1 ELSE 0,
      IF policy.mode = "ReuseAware" /\ i \in DOMAIN reuse THEN reuse[i] ELSE 0,
      -UniqueReclaimableBytes(inventory, i),
      inventory[i].layer,
      i>>

KeyBefore(a, b) ==
    \E n \in 1..5 : a[n] < b[n] /\ \A m \in 1..(n - 1) : a[m] = b[m]

\* The loop takes candidates in order while what it has reclaimed so far is
\* below the need: a candidate is selected when those before it do not reach
\* the need.
Selected(inventory, policy, observed, reuse, candidates) ==
    LET key == [i \in candidates |-> SelectionKey(inventory, policy, reuse, i)]
        before(i) == {j \in candidates : KeyBefore(key[j], key[i])}
    IN  {i \in candidates :
            Reclaim(inventory, before(i)) < Need(inventory, policy, observed)}

-----------------------------------------------------------------------------
(* The staging plan: page ranges requested per mapping, each page once.    *)

CoveredBytes(ranges, start, end) ==
    IF start >= end THEN 0
    ELSE FoldLeft(LAMBDA covered, r :
                      covered + SaturatingSub(Smaller(end, r[2]), LargerOf(start, r[1])),
                  0, ranges)

InsertInterval(ranges, start, end) ==
    IF start >= end THEN ranges
    ELSE LET Place(acc, r) ==
                 IF r[2] < acc.pending[1] THEN [acc EXCEPT !.merged = Append(@, r)]
                 ELSE IF acc.pending[2] < r[1]
                 THEN [merged |-> Append(acc.merged, acc.pending), pending |-> r]
                 ELSE [acc EXCEPT !.pending = <<Smaller(@[1], r[1]), LargerOf(@[2], r[2])>>]
             done == FoldLeft(Place, [merged |-> <<>>, pending |-> <<start, end>>], ranges)
         IN  Append(done.merged, done.pending)

StagingOrder(inventory, reuse) ==
    LET key == [i \in DOMAIN inventory |->
                  <<IF i \in DOMAIN reuse THEN -reuse[i] ELSE 0, inventory[i].layer, i, 0, 0>>]
    IN  SetToSortSeq({i \in DOMAIN inventory : PageBytes(inventory[i]) > 0},
                     LAMBDA i, j : KeyBefore(key[i], key[j]))

StageTensor(inventory, max_bytes, plan, i) ==
    LET t == inventory[i]
        ranges == plan.ranges[t.mapping]
        overlap == CoveredBytes(ranges, t.start, t.end)
        new_bytes == SaturatingSub(PageBytes(t), overlap)
        avoided == [plan EXCEPT !.overlap_avoided = @ + overlap]
    IN  IF t.mapping = NoValue THEN [plan EXCEPT !.skipped = @ + PageBytes(t)]
        ELSE IF \/ max_bytes = 0 \/ new_bytes = 0
                \/ plan.selected_bytes + new_bytes > max_bytes
        THEN [avoided EXCEPT !.skipped = @ + new_bytes]
        ELSE [avoided EXCEPT !.ranges[t.mapping] = InsertInterval(ranges, t.start, t.end),
                             !.selected = @ \cup {i},
                             !.selected_bytes = @ + new_bytes]

StagingPlan(inventory, max_bytes, reuse) ==
    LET mappings == {inventory[i].mapping : i \in DOMAIN inventory} \cup {NoValue}
    IN  FoldLeft(LAMBDA plan, i : StageTensor(inventory, max_bytes, plan, i),
                 [selected |-> {}, selected_bytes |-> 0, skipped |-> 0,
                  overlap_avoided |-> 0, ranges |-> [m \in mappings |-> <<>>]],
                 StagingOrder(inventory, reuse))
=============================================================================
