---------------------------- MODULE MemoryLedger ----------------------------
(***************************************************************************)
(* What a ForgeCore run measures of memory and what it concludes from it:  *)
(* process and mapping readings (memory_report.rs, page_residency.rs,      *)
(* cgroup.rs), the residency snapshots and the admission decision          *)
(* (residency_engine.rs), the ledger (memory_ledger.rs) and the memory     *)
(* report, taken one after the other by run_forgecore (main.rs) while the  *)
(* kernel keeps moving pages.  An Option is a set of at most one number.   *)
(***************************************************************************)
EXTENDS Integers, FiniteSetsExt, SequencesExt

CONSTANTS
  Mappings,     \* the model's mappings: [path, pages, sharers]
  ShardPaths,   \* the paths of the shards, in order
  AnonPages,    \* the amounts of anonymous memory the process may have
  LedgerCases,  \* [soft, hard, reserve, fileBacked, anonymous, pageBytes, resources,
                \*  bound, quiescent]: limits, inventory and native guard
  MaxBytes,     \* u64::MAX
  MaxMoves      \* bound on the kernel's moves

ASSUME MappingsAssumption ==
  /\ ShardPaths \in Seq(Range(ShardPaths)) /\ AnonPages \subseteq Nat /\ MaxBytes \in Nat
  /\ IsFiniteSet(Mappings)
  /\ \A m \in Mappings : m.pages \in Nat /\ m.sharers \in Nat \ {0}

\* Amounts are u64.  A hard limit of u64::MAX, which limits nothing, is asked
\* for only with tensors whose bytes u64 can count.
ASSUME LedgerCasesAssumption ==
  \A case \in LedgerCases :
    /\ {case.fileBacked, case.anonymous, case.reserve, case.pageBytes} \subseteq 0..MaxBytes
    /\ case.soft \subseteq 0..MaxBytes /\ case.hard \subseteq 0..MaxBytes
    /\ \/ case.fileBacked + case.anonymous <= MaxBytes
       \/ MaxBytes \notin case.hard

VARIABLES
  resident,    \* kernel: the resident pages of each mapping
  anonymous,   \* kernel: the anonymous pages of the process
  highWater,   \* kernel: the most the process, and its cgroup, ever had
  readable,    \* which of status, smaps and cgroup answer, and which paths resolve
  facts,       \* the case: limits, policy and inventory of this run
  stage,       \* where run_forgecore stands
  rssAt,       \* rss_before_load, rss_after_load, rss_after_decode, peak of the report
  admission,   \* the admission decision, or NoAdmission
  capture,     \* the snapshot being captured
  captured,    \* residency_before and residency_after
  moves        \* bound: the kernel's moves so far

ledgerVars == <<resident, anonymous, highWater, readable, facts, stage, rssAt, admission, capture, captured, moves>>
kernelState == <<resident, anonymous, highWater, moves>>

SaturatingAdd(a, b) == IF a + b > MaxBytes THEN MaxBytes ELSE a + b
Checked(n) == IF n > MaxBytes THEN {} ELSE {n}
OrElse(a, b) == IF a # {} THEN a ELSE b
ZipDifference(a, b) == {x - y : x \in a, y \in b}

NoAdmission == [outcome |-> "none", current |-> {}, known |-> 0, reclaimable |-> 0]
NoSnapshot == [rss |-> {}, peak |-> {}, mappingRss |-> {}, mappingPss |-> {},
               cgroupPeak |-> {}, cgroupCurrent |-> {}]

---------------------------------------------------------------------------
(* Readings.                                                               *)

ResidentIn(pages) == MapThenSumSet(LAMBDA m : pages[m], Mappings)
Rss == ResidentIn(resident) + anonymous

\* parse_smaps over /proc/self/smaps: the mappings whose path is the target
ParseSmaps(path) ==
  LET matching == {m \in Mappings : m.path = path} IN
  [rss |-> MapThenSumSet(LAMBDA m : resident[m], matching),
   pss |-> MapThenSumSet(LAMBDA m : resident[m] \div m.sharers, matching)]

ModelMappingResidency(path) ==
  IF readable.smaps /\ path \in readable.paths THEN {ParseSmaps(path)} ELSE {}

ProcessRss == IF readable.status THEN {Rss} ELSE {}
ProcessRssPeak == IF readable.status THEN {highWater.rss} ELSE {}

---------------------------------------------------------------------------
(* Conclusions.                                                            *)

WithReserve(bytes, reserve) == Checked(bytes + reserve)

\* admit
Outcome(soft, hard, reserve, current, known) ==
  LET over(limits, sums) == \E limit \in limits, sum \in UNION sums : sum > limit
      currentSum == UNION {WithReserve(c, reserve) : c \in current}
      knownSum == WithReserve(known, reserve) IN
  CASE current = {} -> IF hard # {} \/ soft # {} THEN "Unknown" ELSE "Admitted"
    [] current # {} /\ (currentSum = {} \/ knownSum = {}) -> "Rejected"
    [] OTHER -> CASE over(hard, {currentSum, knownSum}) -> "Rejected"
                  [] ~over(hard, {currentSum, knownSum}) /\ over(soft, {currentSum}) -> "AdmittedWithWarning"
                  [] OTHER -> "Admitted"

\* ResidencyManager::admission; nothing has been attempted at this point
Admission(current) ==
  LET known == SaturatingAdd(facts.fileBacked, facts.anonymous)
      releasable == {r \in facts.resources : r.safe} IN
  [outcome |-> Outcome(facts.soft, facts.hard, facts.reserve, current, known),
   current |-> current, known |-> known,
   reclaimable |-> IF facts.bound /\ facts.quiescent
                   THEN MapThenSumSet(LAMBDA r : r.bytes - r.shared, releasable) ELSE 0]

\* Mutant: a missing measurement is taken for nothing used.
MeasuredOrZero(bytes) == [bytes |-> OrElse(bytes, {0}), kind |-> "ExactMeasured"]

Measured(bytes) == [bytes |-> bytes, kind |-> IF bytes = {} THEN "Unknown" ELSE "ExactMeasured"]

\* MemoryLedger::from_inventory
Ledger(snapshot) ==
  [FileBackedLogical |-> [bytes |-> {facts.fileBacked}, kind |-> "NativeLogical"],
   AnonymousWeights |-> [bytes |-> {facts.anonymous}, kind |-> "NativeLogical"],
   FileBackedResident |-> Measured(snapshot.mappingRss),
   MappingPss |-> Measured(snapshot.mappingPss),
   ProcessRss |-> Measured(snapshot.rss),
   ProcessRssPeak |-> Measured(snapshot.peak),
   CgroupCurrent |-> Measured(snapshot.cgroupCurrent),
   CgroupPeak |-> Measured(snapshot.cgroupPeak),
   KvCache |-> Measured({}), GraphScratch |-> Measured({}), Runtime |-> Measured({})]

\* MemoryLedger::reconciliation
Reconciliation(ledger) ==
  [rssMinusMapping |-> ZipDifference(ledger.ProcessRss.bytes, ledger.FileBackedResident.bytes),
   cgroupMinusRss |-> ZipDifference(ledger.CgroupCurrent.bytes, ledger.ProcessRss.bytes)]

\* MemoryLedger::checked_total
CheckedTotal(ledger, categories) ==
  Checked(MapThenSumSet(LAMBDA c : SumSet(ledger[c].bytes), categories))

---------------------------------------------------------------------------
(* The run.                                                                *)

LedgerStart(amounts, sources, cases) ==
  /\ resident = [m \in Mappings |-> 0] /\ anonymous \in amounts
  /\ highWater = [rss |-> anonymous, cgroup |-> anonymous]
  /\ readable \in sources
  /\ facts \in cases
  /\ stage = "beforeLoad" /\ rssAt = <<>> /\ admission = NoAdmission
  /\ capture = NoSnapshot /\ captured = <<>> /\ moves = 0

Sources == [status : BOOLEAN, smaps : BOOLEAN, cgroup : BOOLEAN,
            paths : SUBSET Range(ShardPaths)]

LedgerInit == LedgerStart(AnonPages, Sources, LedgerCases)

\* The kernel (external): a page is faulted in or reclaimed, memory is
\* allocated or freed; the high-water marks follow.
KernelMovesPages ==
  /\ stage # "reported" /\ moves < MaxMoves /\ moves' = moves + 1
  /\ \/ \E m \in Mappings, n \in {-1, 1} :
          /\ stage # "beforeLoad" /\ resident[m] + n \in 0..m.pages
          /\ resident' = [resident EXCEPT ![m] = @ + n] /\ UNCHANGED anonymous
     \/ anonymous' \in AnonPages \ {anonymous} /\ UNCHANGED resident
  /\ LET now == ResidentIn(resident') + anonymous' IN
     highWater' = [rss |-> IF now > highWater.rss THEN now ELSE highWater.rss,
                   cgroup |-> IF now > highWater.cgroup THEN now ELSE highWater.cgroup]
  /\ UNCHANGED <<readable, facts, stage, rssAt, admission, capture, captured>>

\* rss_before_load, rss_after_load, rss_after_decode
ReadRss(from, to) ==
  /\ stage = from /\ stage' = to
  /\ rssAt' = Append(rssAt, ProcessRss)
  /\ UNCHANGED <<kernelState, readable, facts, admission, capture, captured>>

RssBeforeLoad == ReadRss("beforeLoad", "afterLoad")
RssAfterLoad == ReadRss("afterLoad", "admit")
RssAfterDecode == ReadRss("decoded", "shard")

\* What the mappings of the paths that answer add up to, if one does
ShardResidency(field) ==
  LET answers == [i \in DOMAIN ShardPaths |-> ModelMappingResidency(ShardPaths[i])] IN
  IF \A i \in DOMAIN answers : answers[i] = {} THEN {}
  ELSE {FoldLeft(LAMBDA total, a : SaturatingAdd(total, SumSet({r[field] : r \in a})), 0, answers)}

\* The process's own figure, else that of the mappings, else the inventory's
Admit ==
  /\ stage = "admit" /\ stage' = "decoded"
  /\ admission' = Admission(OrElse(ProcessRss, OrElse(ShardResidency("rss"), {facts.pageBytes})))
  /\ UNCHANGED <<kernelState, readable, facts, rssAt, capture, captured>>

\* ResidencySnapshot::capture_paths: the mappings of each shard,
CaptureMappings ==
  /\ stage = "shard" /\ stage' = "cgroupPeak"
  /\ capture' = [NoSnapshot EXCEPT !.mappingRss = ShardResidency("rss"), !.mappingPss = ShardResidency("pss")]
  /\ UNCHANGED <<kernelState, readable, facts, rssAt, admission, captured>>

\* then the cgroup's counters (stats_at reads memory.peak, then memory.current),
CaptureCgroupPeak ==
  /\ stage = "cgroupPeak" /\ stage' = "cgroupCurrent"
  /\ capture' = [capture EXCEPT !.cgroupPeak = IF readable.cgroup THEN {highWater.cgroup} ELSE {}]
  /\ UNCHANGED <<kernelState, readable, facts, rssAt, admission, captured>>

CaptureCgroupCurrent ==
  /\ stage = "cgroupCurrent" /\ stage' = "rss"
  /\ capture' = [capture EXCEPT !.cgroupCurrent = IF readable.cgroup THEN {Rss} ELSE {}]
  /\ UNCHANGED <<kernelState, readable, facts, rssAt, admission, captured>>

ProcessReading(nth) ==
  IF nth = 1 THEN [field |-> "rss", bytes |-> ProcessRss] ELSE [field |-> "peak", bytes |-> ProcessRssPeak]

\* and last process_rss() and process_rss_peak(), in this order.
CaptureFirst ==
  /\ stage = "rss" /\ stage' = "peak"
  /\ LET reading == ProcessReading(1) IN capture' = [capture EXCEPT ![reading.field] = reading.bytes]
  /\ UNCHANGED <<kernelState, readable, facts, rssAt, admission, captured>>

\* With residency_before the plan is made and applied: what it releases are
\* kernel moves; with residency_after only the report is left.
CaptureSecond ==
  /\ stage = "peak" /\ stage' = IF captured = <<>> THEN "shard" ELSE "report"
  /\ LET reading == ProcessReading(2) IN
     captured' = Append(captured, [capture EXCEPT ![reading.field] = reading.bytes])
  /\ capture' = NoSnapshot
  /\ UNCHANGED <<kernelState, readable, facts, rssAt, admission>>

\* ForgeCoreMemoryReport::new reads the peak once more.
Report ==
  /\ stage = "report" /\ stage' = "reported"
  /\ rssAt' = Append(rssAt, ProcessRssPeak)
  /\ UNCHANGED <<kernelState, readable, facts, admission, capture, captured>>

LedgerNext ==
  \/ KernelMovesPages \/ RssBeforeLoad \/ RssAfterLoad \/ Admit \/ RssAfterDecode
  \/ CaptureMappings \/ CaptureCgroupPeak \/ CaptureCgroupCurrent
  \/ CaptureFirst \/ CaptureSecond \/ Report

LedgerSpec == LedgerInit /\ [][LedgerNext]_ledgerVars

---------------------------------------------------------------------------
(* Properties.                                                             *)

\* The RSS peak of a snapshot, and of the report, is at least every RSS reading
\* it is shown beside, whatever the kernel did between the readings: the
\* peak is always the one read later.  The cgroup's peak is read before its
\* current figure (stats_at) and may lie below it, but not below that of an
\* earlier snapshot.
PeakCoversReadings ==
  /\ \A i \in DOMAIN captured :
       \A rss \in captured[i].rss, peak \in captured[i].peak : rss <= peak
  /\ \A j \in DOMAIN captured : \A i \in 1..(j - 1) :
       \A current \in captured[i].cgroupCurrent, peak \in captured[j].cgroupPeak : current <= peak
  /\ Len(rssAt) = 4 => \A rss \in rssAt[1] \cup rssAt[2] \cup rssAt[3], peak \in rssAt[4] : rss <= peak

\* The ledger made of a snapshot shows a number exactly where the source
\* answered, the mappings' where the path of at least one shard did, says
\* Unknown and no number everywhere else, and gives a difference only of two
\* such numbers: a reading that failed altogether is never a zero.
UnknownStaysUnknown ==
  \A i \in DOMAIN captured :
    LET ledger == Ledger(captured[i])
        differences == Reconciliation(ledger) IN
    /\ readable.status <=> ledger.ProcessRss.bytes # {}
    /\ readable.cgroup <=> ledger.CgroupCurrent.bytes # {}
    /\ (readable.smaps /\ readable.paths # {}) <=> ledger.FileBackedResident.bytes # {}
    /\ \A c \in DOMAIN ledger : ledger[c].bytes = {} <=> ledger[c].kind = "Unknown"
    /\ differences.rssMinusMapping # {} <=>
         readable.status /\ readable.smaps /\ readable.paths # {}
    /\ differences.cgroupMinusRss # {} <=> readable.status /\ readable.cgroup
    /\ CheckedTotal(ledger, {"KvCache", "GraphScratch", "Runtime"}) = {0}

\* A run admitted under a hard limit fits it: what the process uses and what
\* the tensors are known to need, each with the reserve and without any
\* wrap-around, are within the limit.  A decision is always reached, since
\* the caller falls back on the inventory, and no byte counts as reclaimable
\* before the native guard is bound and quiescent.
AdmittedFits ==
  admission # NoAdmission =>
    /\ admission.outcome # "Unknown"
    /\ admission.outcome \in {"Admitted", "AdmittedWithWarning"} =>
         \A hard \in facts.hard :
           /\ \A c \in admission.current : c + facts.reserve <= hard
           /\ facts.fileBacked + facts.anonymous + facts.reserve <= hard
    /\ admission.reclaimable > 0 => facts.bound /\ facts.quiescent

\* Readings taken one after the other stay comparable, what did not answer at
\* all is not made a number, and an admission is a fit (ResidencySnapshot,
\* MemoryLedger, admit).
MeasurementsHonest == PeakCoversReadings /\ UnknownStaysUnknown /\ AdmittedFits

\* "Capture mapping residency across all model shard paths" (the comment of
\* capture_paths): an exact figure for the mappings is that of every shard.
\* The code leaves out a shard whose path no longer resolves, and labels what
\* the others add up to ExactMeasured.
ExactAcrossAllShards ==
  \A i \in DOMAIN captured :
    Ledger(captured[i]).FileBackedResident.kind = "ExactMeasured" =>
      Range(ShardPaths) \subseteq readable.paths
=============================================================================
