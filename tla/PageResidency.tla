--------------------------- MODULE PageResidency ---------------------------
(***************************************************************************)
(* Page residency observation (page_residency.rs) around a prefetch.       *)
(* observe_page_residency_targeted walks the model's tensor ranges in a    *)
(* fixed order, asks the kernel about them one mincore call at a time, and *)
(* adds the answers up into a snapshot; two snapshots taken around a       *)
(* prefetch are then correlated.  The kernel faults pages in and reclaims  *)
(* them between any two mincore calls, ranges share pages, the budget may  *)
(* run out in the middle of a range, and mincore may fail.                 *)
(***************************************************************************)
EXTENDS Integers, Sequences, FiniteSets, FiniteSetsExt, SequencesExt

CONSTANTS
  RangeLists,       \* the inventories the walk is given: sequences of ranges
  ObservedPage,     \* bytes of a page
  MaxPages,         \* PageObservationConfig::max_pages
  MaxResources      \* PageObservationConfig::max_resources

ASSUME PageLimitsAssumption ==
  /\ ObservedPage \in Nat \ {0} /\ MaxPages \in Nat /\ MaxResources \in Nat

\* Inventories are sequences of ranges of bytes.
ASSUME RangeListsAssumption ==
  \A list \in RangeLists :
    /\ list \in Seq(Range(list))
    /\ \A i \in DOMAIN list : list[i].start \in Nat /\ list[i].end \in Nat

VARIABLES
  ranges,           \* the resource ranges, in inventory order
  selected,         \* names of the resources the prediction plan selected
  mapped,           \* mapping indices present in /proc/self/maps
  memory,           \* the resident pages <<mapping, page>>: the kernel's
  walk,             \* the observation under way
  snapshots         \* the finished snapshots: before, then after

pageVars == <<ranges, selected, mapped, memory, walk, snapshots>>

NoMapping == 0

PageRangeOf(name, mapping, start, end) ==
  [name |-> name, mapping |-> mapping, start |-> start, end |-> end]

\* Rounding up to whole pages.
DivCeil(a, b) == (a + b - 1) \div b

PageCount(r) == IF r.end <= r.start THEN 0 ELSE DivCeil(r.end - r.start, ObservedPage)

FirstPage(r) == r.start \div ObservedPage

PageInterval(r) == FirstPage(r) .. DivCeil(r.end, ObservedPage) - 1

Key(r, i) == <<r.mapping, FirstPage(r) + i>>

\* A range is available when its mapping is known and is in /proc/self/maps.
AvailableFor(r) == r.mapping # NoMapping /\ r.mapping \in mapped

\* The unique pages of the available ranges a test accepts, whatever shares them.
IntervalUnion(Chosen(_)) ==
  UNION { {r.mapping} \X PageInterval(r) :
          r \in {ranges[i] : i \in {j \in DOMAIN ranges :
                     Chosen(ranges[j]) /\ AvailableFor(ranges[j])
                     /\ PageCount(ranges[j]) > 0}} }

IsTargeted(r) == r.name \in selected
AllPages == IntervalUnion(LAMBDA r : TRUE)
TargetPages == IntervalUnion(IsTargeted)

\* Selected resources first; inventory order within each group.
ProcessedBefore(i, j) ==
  IF IsTargeted(ranges[i]) = IsTargeted(ranges[j]) THEN i < j ELSE IsTargeted(ranges[i])

ProcessingOrder ==
  [p \in DOMAIN ranges |->
     CHOOSE j \in DOMAIN ranges :
       Cardinality({i \in DOMAIN ranges : ProcessedBefore(i, j)}) = p - 1]

Lower(a, b) == IF a < b THEN a ELSE b
ProcessedCount == Lower(Len(ranges), MaxResources)

NewResource(r, unknown, error) ==
  [name |-> r.name, total |-> PageCount(r), inspected |-> 0, resident |-> 0,
   nonresident |-> 0, unknown |-> unknown, error |-> error,
   targeted |-> IsTargeted(r)]

NewWalk ==
  [order |-> ProcessingOrder, at |-> 1, index |-> 0,
   observed |-> <<>>, resource |-> <<>>, resources |-> <<>>]

NotWalking == [idle |-> TRUE]

PageInit ==
  /\ ranges \in RangeLists
  /\ selected \in SUBSET {r.name : r \in Range(ranges)}
  /\ mapped \in SUBSET ({r.mapping : r \in Range(ranges)} \ {NoMapping})
  /\ memory \in SUBSET AllPages
  /\ walk = NotWalking
  /\ snapshots = <<>>

----------------------------------------------------------------------------
\* observe_page_residency_targeted is entered.
ObservePages ==
  /\ walk = NotWalking /\ Len(snapshots) < 2
  /\ walk' = NewWalk
  /\ UNCHANGED <<ranges, selected, mapped, memory, snapshots>>

CurrentRange == ranges[walk.order[walk.at]]
Walking == walk # NotWalking
InsideResource == Walking /\ walk.resource # <<>>
AtNextResource == Walking /\ walk.resource = <<>> /\ walk.at <= ProcessedCount

\* Take up the next range: one without pages, or without a mapping, is
\* reported at once; any other is walked page by page.
BeginResource ==
  /\ AtNextResource
  /\ LET r == CurrentRange
         skip == PageCount(r) = 0 \/ ~AvailableFor(r)
         fresh == NewResource(r, IF skip THEN PageCount(r) ELSE 0,
                              PageCount(r) > 0 /\ skip)
     IN  walk' = IF skip
                 THEN [walk EXCEPT !.resources = Append(@, fresh), !.at = @ + 1]
                 ELSE [walk EXCEPT !.resource = fresh, !.index = 0]
  /\ UNCHANGED <<ranges, selected, mapped, memory, snapshots>>

Answer(res, isResident, n) ==
  [res EXCEPT !.inspected = @ + n,
              !.resident = @ + isResident,
              !.nonresident = @ + (n - isResident)]

\* A page another range already asked about is answered from memory.
ReuseObserved ==
  /\ InsideResource
  /\ walk.index < walk.resource.total
  /\ Key(CurrentRange, walk.index) \in DOMAIN walk.observed
  /\ walk' = [walk EXCEPT !.index = @ + 1,
                !.resource = Answer(@, IF walk.observed[Key(CurrentRange, walk.index)]
                                       THEN 1 ELSE 0, 1)]
  /\ UNCHANGED <<ranges, selected, mapped, memory, snapshots>>

\* Mutant: the pages already asked about are not taken off the budget.
BudgetLeftWhole == MaxPages

BudgetLeft == IF Cardinality(DOMAIN walk.observed) >= MaxPages THEN 0
              ELSE MaxPages - Cardinality(DOMAIN walk.observed)

\* Length of the run of pages nobody asked about, within the budget.
RunLength ==
  Max({n \in 0..BudgetLeft :
        /\ walk.index + n <= walk.resource.total
        /\ \A k \in 0..(n - 1) :
             Key(CurrentRange, walk.index + k) \notin DOMAIN walk.observed})

\* One mincore call: the kernel answers for the whole run at this moment.
Mincore ==
  /\ InsideResource
  /\ walk.index < walk.resource.total
  /\ Key(CurrentRange, walk.index) \notin DOMAIN walk.observed
  /\ RunLength > 0
  /\ LET run == {Key(CurrentRange, walk.index + k) : k \in 0..(RunLength - 1)}
     IN  walk' = [walk EXCEPT
           !.index = @ + RunLength,
           !.observed = [p \in DOMAIN @ \union run |->
                          IF p \in run THEN p \in memory ELSE @[p]],
           !.resource = Answer(@, Cardinality(run \intersect memory), RunLength)]
  /\ UNCHANGED <<ranges, selected, mapped, memory, snapshots>>

\* The range ends: all its pages answered, the budget spent, or mincore failed.
Finished(res, failed) ==
  [res EXCEPT !.unknown = res.total - res.inspected, !.error = failed]

EndResource ==
  /\ InsideResource
  /\ \/ walk.index = walk.resource.total
     \/ /\ Key(CurrentRange, walk.index) \notin DOMAIN walk.observed
        /\ RunLength = 0
  /\ walk' = [walk EXCEPT !.resources = Append(@, Finished(walk.resource, FALSE)),
                          !.resource = <<>>, !.at = @ + 1]
  /\ UNCHANGED <<ranges, selected, mapped, memory, snapshots>>

MincoreFails ==
  /\ InsideResource
  /\ walk.index < walk.resource.total
  /\ Key(CurrentRange, walk.index) \notin DOMAIN walk.observed
  /\ RunLength > 0
  /\ walk' = [walk EXCEPT !.resources = Append(@, Finished(walk.resource, TRUE)),
                          !.resource = <<>>, !.at = @ + 1]
  /\ UNCHANGED <<ranges, selected, mapped, memory, snapshots>>

----------------------------------------------------------------------------
AtLeastZero(n) == IF n < 0 THEN 0 ELSE n

OmittedResources ==
  [k \in 1..(Len(ranges) - ProcessedCount) |->
     LET r == ranges[walk.order[ProcessedCount + k]]
     IN  NewResource(r, PageCount(r), TRUE)]

UnavailableUnknown ==
  MapThenSumSet(LAMBDA i : PageCount(ranges[i]), {i \in DOMAIN ranges : ~AvailableFor(ranges[i])})

\* selected_totals: the pages and the unknown pages of each selected name.
OfName(resources, n) == {i \in DOMAIN resources : resources[i].targeted /\ resources[i].name = n}
NameTotal(resources, n) == MapThenSumSet(LAMBDA i : resources[i].total, OfName(resources, n))
NameUnknown(resources, n) == MapThenSumSet(LAMBDA i : resources[i].unknown, OfName(resources, n))

TargetedCoverage(resources, observed) ==
  LET listed == {n \in selected : OfName(resources, n) # {}}
      sampled == Cardinality(DOMAIN observed \intersect TargetPages)
      general == AtLeastZero(Cardinality(AllPages) - Cardinality(TargetPages))
      generalSampled == AtLeastZero(Cardinality(DOMAIN observed) - sampled)
  IN  [fully |-> Cardinality({n \in listed : \/ NameTotal(resources, n) = 0
                                             \/ NameUnknown(resources, n) = 0}),
       partially |-> Cardinality({n \in listed :
                        /\ NameUnknown(resources, n) > 0
                        /\ NameUnknown(resources, n) < NameTotal(resources, n)}),
       notObserved |-> Cardinality({n \in listed :
                        /\ NameTotal(resources, n) > 0
                        /\ NameUnknown(resources, n) = NameTotal(resources, n)})
                       + (Cardinality(selected) - Cardinality(listed)),
       targetedAvailable |-> Cardinality(TargetPages),
       targetedSampled |-> sampled,
       targetedUnknown |-> AtLeastZero(Cardinality(TargetPages) - sampled),
       generalAvailable |-> general,
       generalSampled |-> generalSampled,
       generalUnknown |-> AtLeastZero(general - generalSampled)]

SnapshotOf(resources, observed) ==
  LET unknownUnique == AtLeastZero(Cardinality(AllPages) - Cardinality(DOMAIN observed))
      total == Cardinality(AllPages) + UnavailableUnknown
  IN  [resources |-> resources,
       observed |-> observed,
       inspected |-> Cardinality(DOMAIN observed),
       total |-> total,
       resident |-> Cardinality({p \in DOMAIN observed : observed[p]}),
       nonresident |-> Cardinality({p \in DOMAIN observed : ~observed[p]}),
       unknown |-> unknownUnique + UnavailableUnknown,
       sampled |-> \/ \E i \in DOMAIN resources : resources[i].inspected < resources[i].total
                   \/ Cardinality(DOMAIN observed) < total,
       targeted |-> TargetedCoverage(resources, observed)]

\* Every processed range walked: add the omitted ones and the totals.
FinishSnapshot ==
  /\ Walking /\ walk.resource = <<>> /\ walk.at > ProcessedCount
  /\ snapshots' = Append(snapshots,
                    SnapshotOf(walk.resources \o OmittedResources, walk.observed))
  /\ walk' = NotWalking
  /\ UNCHANGED <<ranges, selected, mapped, memory>>

\* The kernel: a prefetch, an access or reclaim changes which pages are resident.
KernelMoves ==
  /\ Len(snapshots) < 2
  /\ \E p \in AllPages : memory' = IF p \in memory THEN memory \ {p}
                                   ELSE memory \union {p}
  /\ UNCHANGED <<ranges, selected, mapped, walk, snapshots>>

PageNext ==
  \/ ObservePages \/ BeginResource \/ ReuseObserved \/ Mincore \/ MincoreFails
  \/ EndResource \/ FinishSnapshot \/ KernelMoves

PageSpec == PageInit /\ [][PageNext]_pageVars

----------------------------------------------------------------------------
\* correlate_prefetch_residency over the first resource of each name.
NamedResource(snapshot, n) ==
  LET k == CHOOSE i \in DOMAIN snapshot.resources :
             /\ snapshot.resources[i].name = n
             /\ \A j \in 1..(i - 1) : snapshot.resources[j].name # n
  IN  snapshot.resources[k]

ResidencyClass(b, a) ==
  IF b.total = 0 \/ b.unknown > 0 \/ a.unknown > 0 THEN "Unknown"
  ELSE IF b.resident = b.total THEN "AlreadyResident"
  ELSE IF a.resident > b.resident THEN "BecameResident"
  ELSE "RemainedNonResident"

BenefitClass(class, accessed) ==
  CASE class = "AlreadyResident" -> "Redundant"
    [] class = "BecameResident" /\ accessed -> "PotentiallyUseful"
    [] class = "BecameResident" /\ ~accessed -> "Wasted"
    [] class = "RemainedNonResident" -> "Ineffective"
    [] OTHER -> "Unknown"

Correlate(accessed) ==
  [n \in selected |->
     LET class == ResidencyClass(NamedResource(snapshots[1], n),
                                 NamedResource(snapshots[2], n))
     IN  [class |-> class, benefit |-> BenefitClass(class, n \in accessed)]]

----------------------------------------------------------------------------
\* A snapshot counts every page of the population exactly once, however many
\* ranges share it: resident, nonresident and unknown pages add up to the
\* total, the targeted and the general population are disjoint and each is
\* sampled and unknown in full, and the budget holds.
SnapshotAddsUp ==
  \A i \in DOMAIN snapshots :
    LET s == snapshots[i]
        t == s.targeted
    IN  /\ s.resident + s.nonresident + s.unknown = s.total
        /\ s.inspected <= MaxPages
        /\ \A j \in DOMAIN s.resources :
             LET r == s.resources[j]
             IN  r.resident + r.nonresident + r.unknown = r.total
        /\ t.targetedSampled + t.targetedUnknown = t.targetedAvailable
        /\ t.generalSampled + t.generalUnknown = t.generalAvailable
        /\ t.fully + t.partially + t.notObserved = Cardinality(selected)

\* No page outside the selection is inspected while a selected range is still
\* short of an answer, unless mincore failed on it or it has no mapping: the
\* budget goes to the prefetched resources first.
TargetsInspectedFirst ==
  \A i \in DOMAIN snapshots :
    snapshots[i].targeted.generalSampled > 0 =>
      \A j \in DOMAIN snapshots[i].resources :
        LET r == snapshots[i].resources[j]
        IN  r.targeted => r.error \/ r.unknown = 0

PagesOfName(n) == IntervalUnion(LAMBDA r : r.name = n)

\* A resource is called newly resident only when some page of it was seen
\* nonresident before the prefetch and resident after it; one called
\* ineffective was seen with a nonresident page.
PrefetchVerdictsSeen ==
  Len(snapshots) = 2 =>
    \A accessed \in SUBSET selected : \A n \in selected :
      LET verdict == Correlate(accessed)[n]
          b == snapshots[1].observed
          a == snapshots[2].observed
      IN  /\ verdict.benefit \in {"PotentiallyUseful", "Wasted"} =>
               \E p \in PagesOfName(n) \intersect DOMAIN b \intersect DOMAIN a : ~b[p] /\ a[p]
          /\ verdict.benefit = "Ineffective" => \E p \in PagesOfName(n) \intersect DOMAIN a : ~a[p]

\* What the report says of the staging rests on what the walk saw: the counts
\* add up, the budget goes to the selection first, and no verdict is a guess
\* (observe_page_residency_targeted, correlate_prefetch).
ObservationSound == SnapshotAddsUp /\ TargetsInspectedFirst /\ PrefetchVerdictsSeen
=============================================================================
