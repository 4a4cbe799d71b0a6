----------------------------- MODULE Prediction -----------------------------
(***************************************************************************)
(* Predictive staging: which tensors a profile predicts and how sure the   *)
(* history makes it of each (crates/ramforge-runtime/src/prediction.rs),   *)
(* what of that is staged within the configured windows, and how a run is  *)
(* scored against what it was then seen to read (prediction_planner.rs).   *)
(* Confidences are in basis points.                                        *)
(*                                                                         *)
(* A tensor of the inventory also has a name and a logical size; names are *)
(* numbers, for their order.                                               *)
(***************************************************************************)
EXTENDS ResidencyPlanner, Relation
-----------------------------------------------------------------------------
(***************************************************************************)
(* Graph manifests (graph_manifest.rs) and the execution profiles built    *)
(* from them (execution_profile.rs).                                       *)
(*                                                                         *)
(* A trace is a sequence of events: [phase, execution, node, reads], where *)
(* reads is a sequence of pairs <<tensor name, identifier of the node that *)
(* made it>>, an identifier without a node for a weight.                   *)
(***************************************************************************)
Nothing == [x \in {} |-> 0]

\* A profile or a history that there is not.
NoFile == [absent |-> TRUE]

Requested(events) == SelectSeq(events, LAMBDA e : e.phase = "Requested")

Completed(events) ==
    {e.node : e \in {f \in ToSet(events) : f.phase = "CompletedSynchronized"}}

\* Node identifiers name one request each.
EdgesKnown(requests) ==
    \A i, j \in DOMAIN requests : requests[i].node = requests[j].node => i = j

\* The requests that a request depends on.
Dependencies(requests, i) ==
    {j \in DOMAIN requests :
        /\ \E k \in DOMAIN requests[i].reads : requests[i].reads[k][2] = requests[j].node
        /\ \A m \in DOMAIN requests : requests[m].node = requests[j].node => m <= j}

TensorsRead(requests) ==
    UNION {{requests[i].reads[k][1] : k \in DOMAIN requests[i].reads} : i \in DOMAIN requests}

Consumers(requests, tensor) ==
    {i \in DOMAIN requests : \E k \in DOMAIN requests[i].reads : requests[i].reads[k][1] = tensor}

\* dependency_cycles is 0.
Acyclic(requests) ==
    LET Nodes == DOMAIN requests
        Edge == [p \in Nodes \X Nodes |-> p[2] \in Dependencies(requests, p[1])]
    IN IsIrreflexive(TransitiveClosure(Edge, Nodes), Nodes)

(***************************************************************************)
(* The manifest of one execution.  The last use of a tensor is proven when *)
(* its last consumer completed.                                            *)
(***************************************************************************)
FromTrace(events) ==
    LET requests == Requested(events)
        proven == \A t \in TensorsRead(requests) :
                     requests[Max(Consumers(requests, t))].node \in Completed(events)
    IN [known |-> requests # <<>>, edges_known |-> EdgesKnown(requests),
        completion_proven |-> proven, acyclic |-> Acyclic(requests),
        access |-> [t \in TensorsRead(requests) |->
                       [first |-> Min(Consumers(requests, t)), last |-> Max(Consumers(requests, t))]]]

-----------------------------------------------------------------------------
NewProfile(identity) ==
    [identity |-> identity, observations |-> 0, incomplete |-> 0, access |-> Nothing]

\* update: an unusable manifest is counted and changes nothing else.
Updated(profile, manifest, complete) ==
    IF /\ manifest.known
       /\ complete /\ manifest.edges_known /\ manifest.completion_proven /\ manifest.acyclic
    THEN [profile EXCEPT !.observations = @ + 1, !.access = manifest.access]
    ELSE [profile EXCEPT !.incomplete = @ + 1]

\* update_from_trace: each execution of the trace by itself, in order.
UpdatedFromTrace(profile, events, complete) ==
    LET executions == SetToSortSeq({e.execution : e \in ToSet(events)}, <)
        Of(x) == SelectSeq(events, LAMBDA e : e.execution = x)
    IN IF events = <<>> THEN [profile EXCEPT !.incomplete = @ + 1]
       ELSE FoldLeft(LAMBDA p, x : Updated(p, FromTrace(Of(x)), complete), profile, executions)

ValidFor(profile, identity) == profile.identity = identity /\ profile.observations > 0

\* validate_for_persistence: what save_json_file and load_profile accept.
Persistable(profile) ==
    /\ profile.observations > 0
    /\ DOMAIN profile.access # {}
    /\ \A t \in DOMAIN profile.access : profile.access[t].first <= profile.access[t].last
-----------------------------------------------------------------------------
(* Predictions.                                                            *)

Classes == {"High", "Medium", "Low"}

ValidConfig(config) ==
    config.enabled =>
        /\ config.min_confidence <= 10000
        /\ config.window > 0
        /\ config.speculative <= config.window
        /\ config.lookahead > 0
-----------------------------------------------------------------------------
(* The history. *)

NewRecord == [predictions |-> 0, hits |-> 0, misses |-> 0,
              staged |-> 0, staged_bytes |-> 0, wasted_bytes |-> 0]

NewCounters == [predictions |-> 0, hits |-> 0, within |-> 0]

NewHistory(identity) ==
    [identity |-> identity, records |-> Nothing, all |-> NewRecord,
     buckets |-> [c \in Classes |-> NewCounters],
     accepted |-> 0, followed |-> 0, not_followed |-> 0]

RecordOf(history, name) ==
    IF name \in DOMAIN history.records THEN history.records[name] ELSE NewRecord

Recorded(history, name, record) ==
    [history EXCEPT !.records = [n \in DOMAIN @ \cup {name} |->
                                    IF n = name THEN record ELSE @[n]]]

\* An accuracy, once there are enough samples.
AccuracyOf(record, samples) ==
    IF record.hits + record.misses < samples THEN NoValue
    ELSE (record.hits * 10000) \div (record.hits + record.misses)

\* tensor_accuracy_bps with 3 samples, or else global_accuracy_bps with 10.
HistoryConfidence(history, name) ==
    IF AccuracyOf(RecordOf(history, name), 3) # NoValue THEN AccuracyOf(RecordOf(history, name), 3)
    ELSE AccuracyOf(history.all, 10)

-----------------------------------------------------------------------------
(* The predictions. *)

ClassOf(confidence) ==
    IF confidence >= 7500 THEN "High" ELSE IF confidence >= 5000 THEN "Medium" ELSE "Low"

ObservationConfidence(profile) == Smaller(5500 + Smaller(profile.observations, 4) * 1000, 10000)

Confidence(profile, history, name) ==
    LET own == ObservationConfidence(profile)
        past == IF history = NoFile THEN NoValue ELSE HistoryConfidence(history, name)
    IN IF past = NoValue THEN own ELSE (own * 2 + past) \div 3

Named(inventory, name) == {i \in DOMAIN inventory : inventory[i].name = name}

\* The access that the profile predicts for tensor i.
PredictedAccess(profile, history, inventory, i) ==
    LET name == inventory[i].name
        confidence == Confidence(profile, history, name)
    IN [key |-> i, name |-> name, order |-> profile.access[name].last,
        confidence |-> confidence, class |-> ClassOf(confidence), size |-> inventory[i].size]

PredictionBefore(a, b) ==
    KeyBefore(<<-a.confidence, a.order, -a.size, a.key, 0>>,
              <<-b.confidence, b.order, -b.size, b.key, 0>>)

\* predict_from_profile: names that one tensor has, best first.
Predict(config, profile, inventory, history) ==
    IF ~config.enabled \/ profile = NoFile THEN <<>>
    ELSE LET keys == {i \in DOMAIN inventory :
                        /\ inventory[i].name \in DOMAIN profile.access
                        /\ Cardinality(Named(inventory, inventory[i].name)) = 1}
             sorted == SetToSortSeq({PredictedAccess(profile, history, inventory, i) : i \in keys},
                                    PredictionBefore)
         IN SubSeq(sorted, 1, Smaller(Len(sorted), config.lookahead))

-----------------------------------------------------------------------------
(* The staging plan. *)

NoPrediction == [stage |-> {}, prefetch |-> {}, stage_bytes |-> 0, prefetch_bytes |-> 0,
           bytes |-> Nothing, ranges |-> Nothing, seen |-> {}, rejected |-> 0, deferred |-> 0]

RangesOf(plan, mapping) ==
    IF mapping \in DOMAIN plan.ranges THEN plan.ranges[mapping] ELSE <<>>

UniquePageBytes(plan, t) ==
    IF t.mapping = NoValue THEN 0
    ELSE SaturatingSub(PageBytes(t), CoveredBytes(RangesOf(plan, t.mapping), t.start, t.end))

Covering(plan, t, name, unique) ==
    [plan EXCEPT !.bytes = [n \in DOMAIN @ \cup {name} |-> IF n = name THEN unique ELSE @[n]],
                 !.ranges = [m \in DOMAIN @ \cup {t.mapping} |->
                                IF m = t.mapping
                                THEN InsertInterval(RangesOf(plan, m), t.start, t.end)
                                ELSE @[m]]]

Reject(plan) == [plan EXCEPT !.rejected = @ + 1]
Defer(plan) == [plan EXCEPT !.deferred = @ + 1]

\* What the loop of plan_predictions does with one prediction.
PlanOne(config, inventory, stage_budget, plan, p) ==
    LET t == inventory[p.key]
        unique == UniquePageBytes(plan, t)
        speculative == Smaller(config.speculative, stage_budget)
        seen == [plan EXCEPT !.seen = @ \cup {p.key}]
    IN IF ~t.file_backed \/ p.size = 0 \/ PageBytes(t) = 0 THEN Reject(plan)
       ELSE IF p.key \in plan.seen THEN Defer(plan)
       ELSE IF p.confidence < config.min_confidence THEN Reject(seen)
       ELSE IF unique = 0 THEN Defer(seen)
       ELSE IF p.class = "High" /\ plan.stage_bytes + unique <= stage_budget
       THEN [Covering(seen, t, p.name, unique) EXCEPT !.stage = @ \cup {p.key},
                                                      !.stage_bytes = @ + unique]
       ELSE IF p.class = "Medium" /\ plan.prefetch_bytes + unique <= speculative
       THEN [Covering(seen, t, p.name, unique) EXCEPT !.prefetch = @ \cup {p.key},
                                                      !.prefetch_bytes = @ + unique]
       ELSE IF p.class = "Low" THEN Reject(seen)
       ELSE Defer(seen)

StageBudget(config, current, hard, reserve) ==
    Smaller(config.window,
            IF hard = NoValue \/ current = NoValue THEN config.window
            ELSE SaturatingSub(SaturatingSub(hard, current), reserve))

PlanPredictions(config, predictions, inventory, current, hard, reserve, admitted) ==
    IF ~config.enabled THEN NoPrediction
    ELSE IF ~admitted THEN [NoPrediction EXCEPT !.rejected = Len(predictions)]
    ELSE FoldLeft(LAMBDA plan, p :
                      PlanOne(config, inventory, StageBudget(config, current, hard, reserve), plan, p),
                  NoPrediction, predictions)

RequestedBytes(plan) == plan.stage_bytes + plan.prefetch_bytes
StagedKeys(plan) == plan.stage \cup plan.prefetch

-----------------------------------------------------------------------------
(* The scoring. *)

Hit(p, observed) == p.name \in DOMAIN observed.access

\* The rank of an observed tensor of the inventory, by first use and name.
Rank(observed, inventory, name) ==
    LET Key(n) == <<observed.access[n].first, n, 0, 0, 0>>
    IN Cardinality({n \in DOMAIN observed.access :
          Named(inventory, n) # {} /\ KeyBefore(Key(n), Key(name))})

Within(p, observed, inventory, horizon) ==
    Hit(p, observed) /\ Rank(observed, inventory, p.name) < horizon

\* Whether staging is known to have taken every resource.
FullyAccepted(plan, staging) ==
    /\ ~staging.error
    /\ StagedKeys(plan) # {}
    /\ staging.accepted_bytes >= RequestedBytes(plan)

Counted(counters, p, observed, inventory, horizon) ==
    [predictions |-> counters.predictions + 1,
     hits |-> counters.hits + (IF Hit(p, observed) THEN 1 ELSE 0),
     within |-> counters.within + (IF Within(p, observed, inventory, horizon) THEN 1 ELSE 0)]

\* record_predictions
WithPredictions(history, predictions) ==
    FoldLeft(LAMBDA h, p :
                [Recorded(h, p.name, [RecordOf(h, p.name) EXCEPT !.predictions = @ + 1])
                 EXCEPT !.all.predictions = @ + 1],
             history, predictions)

\* A prediction's hit or miss, and the bytes staged for it.
Fed(record, hit, staged, bytes) ==
    [record EXCEPT !.hits = IF hit THEN @ + 1 ELSE @,
                   !.misses = IF hit THEN @ ELSE @ + 1,
                   !.staged = IF staged THEN @ + 1 ELSE @,
                   !.staged_bytes = IF staged THEN @ + bytes ELSE @,
                   !.wasted_bytes = IF staged /\ ~hit THEN @ + bytes ELSE @]

\* record_feedback
WithFeedback(history, predictions, observed, plan) ==
    FoldLeft(LAMBDA h, p :
                LET staged == p.name \in DOMAIN plan.bytes
                    bytes == IF staged THEN plan.bytes[p.name] ELSE 0
                    hit == Hit(p, observed)
                IN [Recorded(h, p.name, Fed(RecordOf(h, p.name), hit, staged, bytes))
                    EXCEPT !.all = Fed(@, hit, staged, bytes)],
             history, predictions)

\* evaluate_predictions and record_evaluation: acceptance per resource is
\* known only when everything was accepted.
WithEvaluation(history, predictions, observed, inventory, plan, staging, horizon) ==
    LET scored == FoldLeft(LAMBDA h, p :
                              [h EXCEPT !.buckets[p.class] =
                                  Counted(@, p, observed, inventory, horizon)],
                           history, predictions)
        staged == {inventory[i].name : i \in StagedKeys(plan)}
        followed == staged \cap DOMAIN observed.access
    IN IF ~FullyAccepted(plan, staging) THEN scored
       ELSE [scored EXCEPT !.accepted = @ + Cardinality(StagedKeys(plan)),
                           !.followed = @ + Cardinality(followed),
                           !.not_followed = @ + Cardinality(StagedKeys(plan)) - Cardinality(followed)]
=============================================================================
