--------------------------- MODULE PredictionSim ---------------------------
(***************************************************************************)
(* The prefetch simulation                                                 *)
(* (crates/ramforge-runtime/src/prediction_sim.rs): a scenario is run once *)
(* for each strategy, from the same initial residency, and the costs are   *)
(* compared.  A run makes a training profile's predictions and their       *)
(* staging plan with the code that production runs use, prefetches what    *)
(* the plan selects, and then makes the test accesses one by one, loading  *)
(* what is not resident and evicting the least recently used resources     *)
(* when the budget is short.                                               *)
(*                                                                         *)
(* Sizes are in pages: the scenarios' resources are whole pages.           *)
(***************************************************************************)
EXTENDS Prediction

CONSTANTS
    Scenarios,  \* the scenarios simulated
    SimCosts    \* costs: setup, prediction, planning, observation, staging,
                \* reread, execution, synchronization

\* The scenarios that the program simulates (standard_scenarios) name each
\* resource once, and access no others.
ASSUME ScenariosAssumption ==
    \A s \in Scenarios :
        /\ s.resources \in Seq(Range(s.resources))
        /\ \A i \in DOMAIN s.resources : {s.resources[i].name, s.resources[i].bytes} \subseteq Nat
        /\ \A i, j \in DOMAIN s.resources : s.resources[i].name = s.resources[j].name => i = j
        /\ s.test \in Seq({s.resources[i].name : i \in DOMAIN s.resources})
        /\ s.budget \in Nat
        /\ s.effect \in {"MakesResident", "NoEffect", "Fail", "Unknown"}
        /\ s.timing \in {"OnTime", "Late"}

VARIABLES
    scenario,
    simulation, \* the strategy's run in progress
    results     \* results, in the order of the strategies

simVars == <<scenario, simulation, results>>

Strategies == <<"Baseline", "Reactive", "Predictive", "Conservative", "Aggressive">>

SimIdle == [phase |-> "idle"]

SimStart(scenarios) ==
    /\ scenario \in scenarios
    /\ simulation = SimIdle
    /\ results = <<>>

SimInit == SimStart(Scenarios)

-----------------------------------------------------------------------------
(* The inputs of a strategy. *)

StrategyConfig(s, strategy) ==
    LET enabled(confidence, window, speculative) ==
            [enabled |-> TRUE, min_confidence |-> confidence, window |-> window,
             speculative |-> speculative, lookahead |-> s.horizon]
    IN CASE strategy \in {"Baseline", "Reactive"} -> [enabled |-> FALSE]
         [] strategy = "Predictive" -> enabled(s.min_confidence, s.window, s.speculative)
         [] strategy = "Conservative" -> enabled(7500, s.window \div 2, 0)
         [] strategy = "Aggressive" -> enabled(2500, s.window, s.speculative)

\* A resource is in the mapping of its overlap group, or in one of its own.
MappingOf(s, i) == IF s.resources[i].group = NoValue THEN i - 1 ELSE s.resources[i].group

SimInventory(s) ==
    [i \in DOMAIN s.resources |->
        LET r == s.resources[i]
            size == IF r.known_size THEN r.bytes ELSE 0
        IN [name |-> r.name, file_backed |-> r.file_backed,
            mapping |-> IF r.file_backed THEN MappingOf(s, i) ELSE NoValue,
            start |-> 0, end |-> size, size |-> size, layer |-> NoValue]]

TrainingProfile(s) ==
    [NewProfile(s.name) EXCEPT !.observations = 1,
        !.access = [n \in ToSet(s.training) |->
                       LET orders == {k \in DOMAIN s.training : s.training[k] = n}
                       IN [first |-> Min(orders), last |-> Max(orders)]]]

ResourceNamed(s, n) == CHOOSE i \in DOMAIN s.resources : s.resources[i].name = n
AllNames(s) == {s.resources[i].name : i \in DOMAIN s.resources}
ResourceBytes(s, n) == s.resources[ResourceNamed(s, n)].bytes
BytesOfAll(s, names) == SumFunctionOnSet([n \in AllNames(s) |-> ResourceBytes(s, n)], names)
InitiallyAt(s, state) ==
    {r.name : r \in {s.resources[i] : i \in {j \in DOMAIN s.resources :
                                              s.resources[j].initial = state}}}

\* Names in their order: the k-th has k - 1 before it.
ByName(names) ==
    [k \in 1..Cardinality(names) |-> CHOOSE n \in names : Cardinality({m \in names : m < n}) = k - 1]

-----------------------------------------------------------------------------
(* The residency that the simulation keeps. *)

\* resident maps a name to the order of its last access, 0 before any.
NewSimulation(strategy, predicted, selected, requested) ==
    [phase |-> "accessing", strategy |-> strategy, predicted |-> predicted,
     selected |-> selected, requested |-> requested,
     resident |-> Nothing, bytes |-> 0, peak |-> 0, violations |-> 0, order |-> 0,
     pending |-> {}, staged |-> 0, redundant |-> 0, newly |-> 0, ineffective |-> 0,
     deferred |-> 0, rejected |-> 0, evicted |-> 0, reread |-> 0, known |-> TRUE]

Holding(sim, n, order, bytes) ==
    [sim EXCEPT !.resident = [m \in DOMAIN @ \cup {n} |-> IF m = n THEN order ELSE @[m]],
                !.bytes = @ + bytes]

\* The resources that start out resident, as far as the budget goes.
Started(s, sim, r) ==
    IF r.initial # "Resident" THEN sim
    ELSE IF sim.bytes + r.bytes <= s.budget THEN Holding(sim, r.name, 0, r.bytes)
    ELSE [sim EXCEPT !.violations = @ + 1]

WithInitial(s, sim) == FoldLeft(LAMBDA acc, r : Started(s, acc, r), sim, s.resources)

StagedNow(s, sim, n) ==
    LET bytes == ResourceBytes(s, n)
        held == Holding(sim, n, 0, bytes)
    IN IF sim.bytes + bytes > s.budget THEN [sim EXCEPT !.deferred = @ + bytes]
       ELSE [held EXCEPT !.peak = LargerOf(@, held.bytes), !.staged = @ + bytes,
                         !.newly = @ + bytes, !.pending = @ \cup {n}]

\* What the prefetch of a selected resource does.
Prefetched(s, sim, n) ==
    LET bytes == ResourceBytes(s, n)
    IN IF n \in DOMAIN sim.resident
       THEN [sim EXCEPT !.redundant = @ + bytes, !.staged = @ + bytes]
       ELSE CASE s.effect = "MakesResident" -> StagedNow(s, sim, n)
              [] s.effect = "NoEffect" ->
                   [sim EXCEPT !.staged = @ + bytes, !.ineffective = @ + bytes]
              [] s.effect = "Fail" ->
                   [sim EXCEPT !.rejected = @ + bytes, !.known = FALSE]
              [] s.effect = "Unknown" ->
                   [sim EXCEPT !.staged = @ + bytes, !.ineffective = @ + bytes,
                               !.known = FALSE]

WithPrefetch(s, sim, names) == FoldLeft(LAMBDA acc, n : Prefetched(s, acc, n), sim, names)

BeginStrategy ==
    /\ simulation = SimIdle
    /\ Len(results) < Len(Strategies)
    /\ LET s == scenario
           strategy == Strategies[Len(results) + 1]
           config == StrategyConfig(s, strategy)
           inventory == SimInventory(s)
           predictions == Predict(config, TrainingProfile(s), inventory, NoFile)
           plan == PlanPredictions(config, predictions, inventory,
                                   BytesOfAll(s, InitiallyAt(s, "Resident")), s.budget, 0, TRUE)
           selected == {n \in AllNames(s) : \E i \in StagedKeys(plan) : inventory[i].name = n}
           start == WithInitial(s, [NewSimulation(strategy,
                                        {predictions[k].name : k \in DOMAIN predictions},
                                        selected, RequestedBytes(plan))
                                    EXCEPT !.known = /\ InitiallyAt(s, "Unknown") = {}
                                                     /\ s.effect # "Unknown"])
       IN simulation' = IF s.timing = "Late" THEN start
                        ELSE WithPrefetch(s, start, ByName(selected))
    /\ UNCHANGED <<scenario, results>>

-----------------------------------------------------------------------------
(* The accesses. *)

\* The least recently accessed resident resource; of several, the first by name.
SimVictim(sim) ==
    CHOOSE n \in DOMAIN sim.resident : \A m \in DOMAIN sim.resident \ {n} :
        \/ sim.resident[n] < sim.resident[m]
        \/ sim.resident[n] = sim.resident[m] /\ n < m

\* Mutant: a victim that was staged and not used yet stays pending.
EvictKeepingPending(s, sim, n) ==
    [sim EXCEPT !.resident = [m \in DOMAIN @ \ {n} |-> @[m]],
                !.bytes = @ - ResourceBytes(s, n),
                !.evicted = IF n \in sim.pending THEN @ + ResourceBytes(s, n) ELSE @]

EvictResource(s, sim, n) ==
    [sim EXCEPT !.resident = [m \in DOMAIN @ \ {n} |-> @[m]],
                !.bytes = @ - ResourceBytes(s, n),
                !.evicted = IF n \in sim.pending THEN @ + ResourceBytes(s, n) ELSE @,
                !.pending = @ \ {n}]

NextName == scenario.test[simulation.order + 1]

AccessPending ==
    /\ simulation.phase = "accessing"
    /\ simulation.order < Len(scenario.test)

AccessResident ==
    /\ AccessPending
    /\ NextName \in DOMAIN simulation.resident
    /\ simulation' = [simulation EXCEPT !.order = @ + 1, !.pending = @ \ {NextName},
                                        !.resident[NextName] = simulation.order + 1]
    /\ UNCHANGED <<scenario, results>>

\* A resource that is not resident is read; room is made for it, and it stays
\* resident if the budget can hold it at all.
TooFull(sim, n) ==
    sim.bytes + ResourceBytes(scenario, n) > scenario.budget /\ DOMAIN sim.resident # {}

MakeRoom(sim, n) == IF TooFull(sim, n) THEN EvictResource(scenario, sim, SimVictim(sim)) ELSE sim

RoomFor(n) ==
    FoldLeft(LAMBDA sim, k : MakeRoom(sim, n),
             simulation, [k \in 1..Cardinality(DOMAIN simulation.resident) |-> k])

AccessNonresident ==
    /\ AccessPending
    /\ NextName \notin DOMAIN simulation.resident
    /\ LET room == RoomFor(NextName)
           bytes == ResourceBytes(scenario, NextName)
           read == [room EXCEPT !.order = @ + 1, !.reread = @ + bytes]
           held == Holding(read, NextName, read.order, bytes)
       IN simulation' = IF read.bytes + bytes > scenario.budget
                        THEN [read EXCEPT !.violations = @ + 1]
                        ELSE [held EXCEPT !.peak = LargerOf(@, held.bytes)]
    /\ UNCHANGED <<scenario, results>>

-----------------------------------------------------------------------------
(* The account of a run. *)

GroupOf(s, i) == IF s.resources[i].group = NoValue THEN 1000000 + i ELSE s.resources[i].group
PagesNamed(s, names) ==
    UNION {{GroupOf(s, i)} \X (0..(s.resources[i].bytes - 1)) :
           i \in {j \in DOMAIN s.resources : s.resources[j].name \in names}}

TargetedPages(s, selected) == Cardinality(PagesNamed(s, selected))
GeneralPages(s, selected) ==
    Cardinality(PagesNamed(s, AllNames(s) \ selected) \ PagesNamed(s, selected))

\* <<targeted, general>> pages sampled; a budget of 0 is no limit.
SampledPages(s, selected) ==
    LET targeted == TargetedPages(s, selected)
        general == GeneralPages(s, selected)
        budget == IF s.page_budget = 0 THEN targeted + general ELSE s.page_budget
        first == Smaller(budget, targeted)
    IN CASE s.mode = "Disabled" -> <<0, 0>>
         [] s.mode = "General" -> <<0, Smaller(budget, targeted + general)>>
         [] s.mode = "Targeted" -> <<first, Smaller(budget - first, general)>>

\* selected_coverage: how many selected resources the sample covers.
SelectedCoverage(s, selected, sampled) ==
    LET One(acc, n) ==
            LET pages == ResourceBytes(s, n)
            IN IF s.mode # "Targeted" \/ pages = 0 THEN [acc EXCEPT !.not_observed = @ + 1]
               ELSE IF acc.budget >= pages
               THEN [acc EXCEPT !.budget = @ - pages, !.fully = @ + 1]
               ELSE IF acc.budget > 0
               THEN [acc EXCEPT !.budget = 0, !.partial = @ + 1]
               ELSE [acc EXCEPT !.not_observed = @ + 1]
    IN FoldLeft(One, [budget |-> sampled, fully |-> 0, partial |-> 0, not_observed |-> 0],
                ByName(selected))

SimulatedTime(s, sim, enabled, staged, sampled) ==
    SimCosts.setup + SimCosts.synchronization
    + (IF enabled THEN SimCosts.prediction + SimCosts.planning ELSE 0)
    + SimCosts.observation * (sampled[1] + sampled[2])
    + (IF staged + sim.deferred + sim.rejected > 0 THEN SimCosts.staging ELSE 0)
    + SimCosts.reread * sim.reread
    + SimCosts.execution * Len(s.test)

ResultOf(s, sim) ==
    LET enabled == StrategyConfig(s, sim.strategy).enabled
        observing == enabled /\ s.mode # "Disabled"
        sampled == IF observing THEN SampledPages(s, sim.selected) ELSE <<0, 0>>
        staged == IF s.timing = "Late" /\ sim.selected # {}
                  THEN BytesOfAll(s, sim.selected) ELSE sim.staged
        total == SimulatedTime(s, sim, enabled, staged, sampled)
        base == IF results = <<>> THEN total ELSE results[1].total
    IN [strategy |-> sim.strategy, selected |-> sim.selected,
        correct |-> Cardinality(sim.predicted \cap ToSet(s.test)),
        false_positives |-> Cardinality(sim.predicted \ ToSet(s.test)),
        false_negatives |-> Cardinality(ToSet(s.test) \ sim.predicted),
        staged |-> staged, newly |-> sim.newly, redundant |-> sim.redundant,
        ineffective |-> sim.ineffective, deferred |-> sim.deferred,
        rejected |-> sim.rejected, evicted |-> sim.evicted, reread |-> sim.reread,
        wasted |-> BytesOfAll(s, sim.selected \ ToSet(s.test)),
        peak |-> sim.peak, violations |-> sim.violations,
        sampled |-> sampled,
        coverage |-> IF observing THEN SelectedCoverage(s, sim.selected, sampled[1])
                     ELSE [fully |-> 0, partial |-> 0, not_observed |-> Cardinality(sim.selected)],
        total |-> total,
        \* filled in by simulate() once the baseline is known
        net_benefit |-> base - total,
        improved |-> results # <<>> /\ sim.known /\ base > total]

FinishStrategy ==
    /\ simulation.phase = "accessing"
    /\ simulation.order = Len(scenario.test)
    /\ results' = Append(results, ResultOf(scenario, simulation))
    /\ simulation' = SimIdle
    /\ UNCHANGED scenario

SimNext == BeginStrategy \/ AccessResident \/ AccessNonresident \/ FinishStrategy

SimSpec == SimInit /\ [][SimNext]_simVars

-----------------------------------------------------------------------------
\* The resources that a simulation holds are those it charges for, and they
\* never exceed the budget, staged ahead of use or not.  Every byte selected
\* for staging has one fate: it was resident already, became resident, had no
\* effect, was deferred or failed; and a byte that became resident is never
\* both evicted unused and still waiting for its first use.
StagedBytesAccountedFor ==
    simulation # SimIdle =>
        /\ simulation.bytes = BytesOfAll(scenario, DOMAIN simulation.resident)
        /\ simulation.bytes <= scenario.budget
        /\ simulation.peak <= scenario.budget
        /\ simulation.staged = simulation.redundant + simulation.newly + simulation.ineffective
        /\ simulation.evicted + BytesOfAll(scenario, simulation.pending) <= simulation.newly
        /\ scenario.timing = "OnTime" =>
             simulation.staged + simulation.deferred + simulation.rejected
               = BytesOfAll(scenario, simulation.selected)
=============================================================================
