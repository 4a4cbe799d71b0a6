------------------------------ MODULE LayerLoad ------------------------------
(***************************************************************************)
(* How one streamed layer is brought into memory: the coalesced read plan  *)
(* (layer_read.rs), the memory estimates made from it (accounting.rs) and  *)
(* load_layer (streaming_model.rs), which charges the ledger tensor by     *)
(* tensor in one of three modes, may run short, may fail to read or to     *)
(* decode, and must then give back everything it charged.                  *)
(*                                                                         *)
(* A tensor is [start, file, half]: its offset and size in the file, and   *)
(* whether it is F16/BF16, which are decoded to F32 (twice the file size)  *)
(* while the raw bytes are still held (three times).                       *)
(***************************************************************************)
EXTENDS LayerStore, SequencesExt, FiniteSetsExt

CONSTANTS
    Layer,        \* the index of the layer
    Layouts,      \* the tensor sequences a layer may have
    MaxGap,       \* MAX_COALESCED_GAP_BYTES
    MaxSpan       \* MAX_COALESCED_SPAN_BYTES

\* What a layout holds of a tensor descriptor.
LoadedTensors == [start : Nat, file : Nat, half : BOOLEAN]

ASSUME LayoutsAssumption ==
    \A ts \in Layouts : ts \in Seq(LoadedTensors) /\ DOMAIN ts \subseteq Rests

\* The buffer of a grouped read is charged under a name of its own.
ASSUME LayerAssumption == Layer \in Layers /\ <<"tmp", Layer>> \in NamePrefixes /\ 1 \in Rests

\* tensor_load_charge_bytes and TensorData::resident_bytes_for, at least 1.
LoadCharge(t) == Larger(1, IF t.half THEN 3 * t.file ELSE t.file)
ResidentCharge(t) == Larger(1, IF t.half THEN 2 * t.file ELSE t.file)

\* The resident charges of the tensors with the indices S.
Settled(ts, S) == MapThenSumSet(LAMBDA k : ResidentCharge(ts[k]), S)

EstimateLayerMemory(ts) ==
    [resident |-> Settled(ts, DOMAIN ts),
     load_peak |-> Max({0} \cup {Settled(ts, 1..(k - 1)) + LoadCharge(ts[k]) : k \in DOMAIN ts})]
-----------------------------------------------------------------------------
(***************************************************************************)
(* build_layer_read_plan: ranges [offset, length, tensors] in file order,  *)
(* where tensors are descriptor indices.                                   *)
(***************************************************************************)
Precedes(ts, j, k) == ts[j].start < ts[k].start \/ (ts[j].start = ts[k].start /\ j < k)

FileOrder(ts) ==
    [p \in DOMAIN ts |->
        CHOOSE k \in DOMAIN ts : Cardinality({j \in DOMAIN ts : Precedes(ts, j, k)}) = p - 1]

End(t) == t.start + t.file

\* Tensors that overlap make the plan, and with it the model, fail to load.
Overlapping(ts) ==
    \E j \in 1..(Len(ts) - 1) :
       ts[FileOrder(ts)[j + 1]].start < End(ts[FileOrder(ts)[j]])

Alone(ts, k) == [offset |-> ts[k].start, length |-> ts[k].file, tensors |-> <<k>>]

\* Mutant: the span of the range is bounded but not the gap before the tensor.
JoinsAcrossAnyGap(ts, range, k) == End(ts[k]) - range.offset <= MaxSpan

Joins(ts, range, k) ==
    /\ ts[k].start - (range.offset + range.length) <= MaxGap
    /\ End(ts[k]) - range.offset <= MaxSpan

Joined(ts, range, k) ==
    [offset |-> range.offset, length |-> End(ts[k]) - range.offset,
     tensors |-> Append(range.tensors, k)]

PlanTensor(ts, ranges, k) ==
    IF ranges # <<>> /\ Joins(ts, Last(ranges), k)
    THEN Append(Front(ranges), Joined(ts, Last(ranges), k))
    ELSE Append(ranges, Alone(ts, k))

BuildLayerReadPlan(ts) ==
    FoldLeft(LAMBDA ranges, k : PlanTensor(ts, ranges, k), <<>>, FileOrder(ts))

Multi(range) == Len(range.tensors) > 1

\* What lies between two neighbours of the tensors ks.
GapsWithin(ts, ks, gap) ==
    \A i \in 2..Len(ks) : ts[ks[i]].start - End(ts[ks[i - 1]]) <= gap

\* The tensors of the ranges before the r-th.
Before(plan, r) == UNION {ToSet(plan[j].tensors) : j \in 1..(r - 1)}

\* Mutant: the range buffer is assumed to be gone before decoding starts.
EstimateGroupedWithoutBuffer(ts, plan) ==
    [resident |-> Settled(ts, DOMAIN ts), load_peak |-> Settled(ts, DOMAIN ts)]

EstimateGroupedLayerMemory(ts, plan) ==
    LET peak(r) == Settled(ts, Before(plan, r))
                     + IF Multi(plan[r])
                       THEN plan[r].length + Settled(ts, ToSet(plan[r].tensors))
                       ELSE LoadCharge(ts[plan[r].tensors[1]])
    IN [resident |-> Settled(ts, DOMAIN ts),
        load_peak |-> Max({0} \cup {peak(r) : r \in DOMAIN plan})]

\* reusable_group_buffer_bytes, with 0 for None.
ReusableGroupBufferBytes(plan) ==
    IF Len(plan) > 1 /\ \A r \in DOMAIN plan : Multi(plan[r])
    THEN Max({plan[r].length : r \in DOMAIN plan})
    ELSE 0
-----------------------------------------------------------------------------
VARIABLES
    tensors,    \* the layer's tensors
    kept,       \* what the model keeps of them: the read plan and the estimates
    config,     \* the runtime configuration's two read switches
    budget,     \* the ledger
    start,      \* the ledger when load_layer was called
    mode,       \* "none", "individual", "grouped" or "reusable"
    at,         \* the range being read and the next tensor of it to charge
    result      \* "none", "Ok", or why the load failed

loadVars == <<tensors, kept, config, budget, start, mode, at, result>>

ReadPlan == kept.plan
Individual == kept.individual
Grouped == kept.grouped

\* Individual loads follow the descriptors, grouped ones the read plan.
Ranges == IF mode = "individual" THEN [k \in DOMAIN tensors |-> Alone(tensors, k)] ELSE ReadPlan

TensorName(k) == <<Active(Layer), k>>
TempName == <<<<"tmp", Layer>>, 1>>

LoadStart(layouts, configs, totals) ==
    /\ tensors \in {ts \in layouts : ~Overlapping(ts)}
    /\ LET plan == BuildLayerReadPlan(tensors)
       IN kept = [plan |-> plan,
                  individual |-> EstimateLayerMemory(tensors),
                  grouped |-> EstimateGroupedLayerMemory(tensors, plan),
                  buffer |-> ReusableGroupBufferBytes(plan)]
    /\ config \in configs
    /\ \E total \in totals : budget = NewLedger(total)
    /\ start = budget
    /\ mode = "none"
    /\ at = [range |-> 1, item |-> 1]
    /\ result = "none"

ReadSwitches == [coalescing : BOOLEAN, reuse : BOOLEAN]

LoadInit == LoadStart(Layouts, ReadSwitches, 1..MaxU64)

ReusablePeak == kept.buffer + Grouped.resident

\* load_layer up to its first charge.
LoadLayer ==
    /\ mode = "none"
    /\ LET grouped == /\ config.coalescing
                      /\ \E r \in DOMAIN ReadPlan : Multi(ReadPlan[r])
                      /\ CanAllocate(budget, Grouped.load_peak)
           reusable == /\ config.reuse
                       /\ kept.buffer # 0
                       /\ CanAllocate(budget, ReusablePeak)
       IN mode' = IF ~grouped THEN "individual" ELSE IF reusable THEN "reusable" ELSE "grouped"
    /\ UNCHANGED <<tensors, kept, config, budget, start, at, result>>

Loading == mode # "none" /\ result = "none"

\* Mutant: only the tensors read so far are given back.
FailsKeepingLast(r, b) ==
    /\ result' = r
    /\ budget' = ReleasedAll(b, {n \in ChargedUnder(b, Active(Layer)) : n[2] # 1})
    /\ UNCHANGED <<tensors, kept, config, start, mode, at>>

\* The error exit: the loaded tensors are dropped, then release_layer.
Fails(r, b) ==
    /\ result' = r
    /\ budget' = LayerReleased(b, Layer)
    /\ UNCHANGED <<tensors, kept, config, start, mode, at>>

Advances(range, item, b) ==
    /\ at' = [range |-> range, item |-> item]
    /\ budget' = b
    /\ UNCHANGED <<tensors, kept, config, start, mode, result>>

InRange == at.range \in DOMAIN Ranges
Current == Ranges[at.range]

\* A tensor on its own: charge the load, read and decode, settle the charge.
LoadIndividually ==
    /\ Loading /\ mode # "reusable" /\ InRange /\ ~Multi(Current)
    /\ LET k == Current.tensors[1]
           n == TensorName(k)
           charged == Allocated(budget, n, LoadCharge(tensors[k]))
           resident == ResidentCharge(tensors[k])
       IN IF AllocateResult(budget, n, LoadCharge(tensors[k])) # "Ok"
          THEN Fails("Short", budget)
          ELSE \/ Fails("Unread", charged)
               \/ IF resident = LoadCharge(tensors[k])
                  THEN Advances(at.range + 1, 1, charged)
                  ELSE IF ResizeResult(charged, n, resident) = "Ok"
                  THEN Advances(at.range + 1, 1, Resized(charged, n, resident))
                  ELSE Fails("Short", charged)

\* The resident charge of one tensor of a range that is read as a whole.
ChargeResident ==
    /\ Loading /\ InRange
    /\ mode = "reusable" \/ (mode = "grouped" /\ Multi(Current))
    /\ at.item <= Len(Current.tensors)
    /\ LET k == Current.tensors[at.item]
           resident == ResidentCharge(tensors[k])
       IN IF AllocateResult(budget, TensorName(k), resident) # "Ok"
          THEN Fails("Short", budget)
          ELSE IF mode = "reusable" /\ at.item = Len(Current.tensors)
          THEN Advances(at.range + 1, 1, Allocated(budget, TensorName(k), resident))
          ELSE Advances(at.range, at.item + 1, Allocated(budget, TensorName(k), resident))

\* The charges read_and_decode_grouped_range compares with what it decoded.
ChargesDecoded(b, S) == \A k \in S : b.allocations[TensorName(k)] = ResidentCharge(tensors[k])

\* with_temp around the read of the tensors S through a buffer of some bytes,
\* which reads without a charge when there are none.
ReadWithBuffer(bytes, S, range, item) ==
    LET inside == IF bytes = 0 THEN budget ELSE Allocated(budget, TempName, bytes)
        after == IF bytes = 0 THEN budget ELSE Released(inside, TempName)
    IN IF bytes # 0 /\ AllocateResult(budget, TempName, bytes) # "Ok"
       THEN Fails("Short", budget)
       ELSE \/ Fails("Unread", after)
            \/ IF ChargesDecoded(inside, S)
               THEN Advances(range, item, after)
               ELSE Fails("Mismatch", after)

ReadRange ==
    /\ Loading /\ mode = "grouped" /\ InRange /\ Multi(Current)
    /\ at.item > Len(Current.tensors)
    /\ ReadWithBuffer(Current.length, ToSet(Current.tensors), at.range + 1, 1)

\* All ranges through one buffer, once every tensor is charged.  The item
\* moves on to mark the buffer as done.
ReadReusing ==
    /\ Loading /\ mode = "reusable" /\ at = [range |-> Len(Ranges) + 1, item |-> 1]
    /\ ReadWithBuffer(kept.buffer, DOMAIN tensors, at.range, 2)

\* The extraction of the named weights, which validates the Q/K/V biases.
Extract ==
    /\ Loading /\ ~InRange
    /\ mode = "reusable" => at.item = 2
    /\ \/ Fails("Invalid", budget)
       \/ result' = "Ok" /\ UNCHANGED <<tensors, kept, config, budget, start, mode, at>>

LoadNext == LoadLayer \/ LoadIndividually \/ ChargeResident \/ ReadRange \/ ReadReusing \/ Extract

LoadSpec == LoadInit /\ [][LoadNext]_loadVars
-----------------------------------------------------------------------------
(***************************************************************************)
(* The read plan holds every tensor once, inside its range and in file     *)
(* order; ranges do not overlap; and a coalesced range respects the span   *)
(* limit and, between neighbours, the gap limit.                           *)
(***************************************************************************)
PlanCoversTensors ==
    /\ FlattenSeq([r \in DOMAIN ReadPlan |-> ReadPlan[r].tensors]) = FileOrder(tensors)
    /\ \A r \in DOMAIN ReadPlan, k \in DOMAIN tensors :
          k \in ToSet(ReadPlan[r].tensors) =>
             /\ ReadPlan[r].offset <= tensors[k].start
             /\ End(tensors[k]) <= ReadPlan[r].offset + ReadPlan[r].length
    /\ \A r \in 2..Len(ReadPlan) : ReadPlan[r - 1].offset + ReadPlan[r - 1].length <= ReadPlan[r].offset
    /\ \A r \in DOMAIN ReadPlan : Multi(ReadPlan[r]) => ReadPlan[r].length <= MaxSpan
    /\ \A r \in DOMAIN ReadPlan : GapsWithin(tensors, ReadPlan[r].tensors, MaxGap)

(***************************************************************************)
(* The estimates are exact: a load that succeeds has raised the ledger's   *)
(* peak by precisely the peak estimated for the mode it ran in.  (The      *)
(* planner reserves, and the forward pass evicts, by these numbers.)       *)
(***************************************************************************)
EstimatesExact ==
    result = "Ok" =>
       budget.peak_used = CASE mode = "individual" -> Individual.load_peak
                            [] mode = "grouped" -> Grouped.load_peak
                            [] mode = "reusable" -> ReusablePeak

(***************************************************************************)
(* A load runs short of memory only if the estimate of an individual load  *)
(* did not fit when it started: coalescing and buffer reuse never turn a   *)
(* load that fits into a failure.                                          *)
(***************************************************************************)
ShortOnlyIfEstimateDoesNotFit ==
    result = "Short" => ~CanAllocate(start, Individual.load_peak)

(***************************************************************************)
(* load_layer leaves the ledger in one of two states, in every mode: a     *)
(* load that fails, at whatever step, has given back every charge it made; *)
(* a load that succeeds has charged each tensor its resident size and no   *)
(* transient buffer.  The check of the grouped reads that the charges      *)
(* match what was decoded never fails.                                     *)
(***************************************************************************)
ChargesSettled ==
    /\ result # "Mismatch"
    /\ result \notin {"none", "Ok"} =>
          budget.allocations = start.allocations /\ budget.used = start.used
    /\ result = "Ok" =>
          /\ ChargesDecoded(budget, DOMAIN tensors)
          /\ budget.used = start.used + Individual.resident

\* The planner and the forward pass rely on the estimates made when the model
\* was opened: they are what a load then costs (estimate_layer_memory,
\* load_layer).
EstimatesHold == EstimatesExact /\ ShortOnlyIfEstimateDoesNotFit
=============================================================================
