-------------------------- MODULE ExecutionPlanner --------------------------
(***************************************************************************)
(* The planner (crates/ramforge-runtime/src/planner.rs and plan.rs): what  *)
(* a model needs at least under a RAM budget, what the machine, the model  *)
(* and the storage make possible, and the plan chosen from these for a     *)
(* user's preferences; then the compiler of plans (plan_compiler.rs).       *)
(* Everything here is a function of its arguments.                         *)
(*                                                                         *)
(* Sizes are numbers, fingerprints and paths model values.  A profile is a *)
(* record of the facts a decision reads; a check that discovery cannot     *)
(* fail (versions of profiles, empty names) is left out.  An optional      *)
(* value is the value or None.                                             *)
(***************************************************************************)
EXTENDS Integers, Sequences, FiniteSets, SequencesExt, FiniteSetsExt

CONSTANTS None,
          NanosPerSecond   \* 10^9 in the code

Ok(value) == [ok |-> TRUE, value |-> value]
Err(reason) == [ok |-> FALSE, reason |-> reason]

\* Checks made in order: pairs of a condition and the error it leads to.
FirstError(checks) ==
    LET failing == {i \in DOMAIN checks : checks[i][1]}
    IN  IF failing = {} THEN None ELSE checks[Min(failing)][2]

Default(option, value) == IF option = None THEN value ELSE option

-----------------------------------------------------------------------------
(* plan_model and plan_execution_memory: the managed lower bound *)

ShouldKeepResident(bytes, ram) == bytes <= ram \div 4

AtLeastOne(bytes) == IF bytes = 0 THEN 1 ELSE bytes

\* Persistent tensors are loaded in order; each one's load charge comes on
\* top of those that stay.
Persistents(tensors, ram) ==
    FoldLeft(LAMBDA sums, t :
                IF ~ShouldKeepResident(t.resident, ram) THEN sums
                ELSE [resident |-> sums.resident + AtLeastOne(t.resident),
                      peak |-> Max({sums.peak, sums.resident + AtLeastOne(t.charge)})],
             [resident |-> 0, peak |-> 0], tensors)

\* Complete layers, smallest first, that a cache of this capacity holds.
MaxCompleteLayers(sizes, capacity) ==
    LET sorted == SetToSortSeq(DOMAIN sizes,
                     LAMBDA i, j : sizes[i] < sizes[j] \/ (sizes[i] = sizes[j] /\ i < j))
        used(n) == FoldLeft(LAMBDA sum, i : sum + sizes[i], 0, SubSeq(sorted, 1, n))
    IN  Max({n \in 0..Len(sorted) : used(n) <= capacity})

ManagedLowerBound(persistent, largest) ==
    Max({persistent.peak, persistent.resident + largest})

ExecutionMemory(model, ram) ==
    LET persistent == Persistents(model.persistents, ram)
        largest == Max({0} \cup {model.layers[i].peak : i \in DOMAIN model.layers})
        bound == ManagedLowerBound(persistent, largest)
        residents == [i \in DOMAIN model.layers |-> model.layers[i].resident]
        remaining == IF bound <= ram THEN ram - bound ELSE 0
    IN  [resident |-> persistent.resident, startup |-> persistent.peak,
         layer_peak |-> largest, bound |-> bound, cache |-> remaining,
         min_layer |-> IF model.layers = <<>> THEN 0 ELSE Min(Range(residents)),
         cached_layers |-> MaxCompleteLayers(residents, remaining),
         reads |-> model.reads, fits |-> bound <= ram]

\* The preflight fails for a model that the runtime cannot execute.
PlanModel(model, ram) ==
    [ram |-> ram, file_size |-> model.size,
     memory |-> IF model.executable THEN ExecutionMemory(model, ram) ELSE None]

-----------------------------------------------------------------------------
(* Capabilities *)

MachineValid(m) ==
    /\ m.cores > 0 /\ m.total # 0 /\ m.available # 0
    /\ m.available # None => m.total # None /\ m.available <= m.total

\* There is no GPU execution backend: GPU_EXECUTION_IMPLEMENTED is false.
GpuExecutionImplemented == FALSE

Derive(ctx) ==
    LET memory == ctx.static.memory
        usable == ctx.storage.ready
    IN  [storage |-> usable,
         cpu |-> ctx.machine.cpu,
         gpu |-> ctx.machine.gpus # {} /\ GpuExecutionImplemented,
         model |-> ctx.model.executable /\ memory # None,
         cache |-> memory # None /\ memory.min_layer > 0 /\ memory.cache >= memory.min_layer,
         coalescing |-> memory # None /\ usable /\ ctx.model.coalescible,
         reuse |-> memory # None /\ usable /\ ctx.model.reusable]

-----------------------------------------------------------------------------
(* Observations of a calibration *)

Rate(sample) == (sample.units * NanosPerSecond) \div sample.elapsed

Usable(samples) ==
    samples # <<>> /\ \A i \in DOMAIN samples : samples[i].elapsed > 0 /\ samples[i].units > 0

\* 10000 when all samples have one rate, less by their relative spread.
Quality(samples) ==
    LET rates == {Rate(samples[i]) : i \in DOMAIN samples}
    IN  IF ~Usable(samples) THEN 0
        ELSE IF Max(rates) = 0 THEN 0
        ELSE 10000 - Min({10000, ((Max(rates) - Min(rates)) * 10000) \div Max(rates)})

Total(samples, field) ==
    FoldLeft(LAMBDA sum, s : sum + s[field], 0, samples)

\* None when there is nothing to measure or the value is 0.
AggregateValue(samples, latency) ==
    IF ~Usable(samples) THEN None
    ELSE LET elapsed == Total(samples, "elapsed")
             units == Total(samples, "units")
             value == IF latency THEN elapsed \div units ELSE (units * NanosPerSecond) \div elapsed
         IN  IF value = 0 THEN None ELSE value

ObservationValid(o) ==
    IF o.status = "Measured"
    THEN /\ o.value # None /\ o.samples # <<>> /\ o.reason = None
         /\ o.duration = Total(o.samples, "elapsed")
         /\ o.quality = Quality(o.samples)
         /\ o.value = AggregateValue(o.samples, o.latency)
    ELSE o.value = None /\ o.samples = <<>> /\ o.duration = 0 /\ o.quality = 0 /\ o.reason # None

CalibrationValid(c) ==
    /\ c.level > 0
    /\ \A i \in DOMAIN c.observations : ObservationValid(c.observations[i])
    /\ \A i, j \in DOMAIN c.observations :
          c.observations[i].id = c.observations[j].id => i = j

\* The best by quality, then samples, then duration; identifiers decide last.
BestObservation(c, metric, strategy) ==
    LET fitting == {i \in DOMAIN c.observations :
                       /\ c.observations[i].status = "Measured"
                       /\ c.observations[i].metric = metric
                       /\ c.observations[i].strategy = strategy}
        Key(i) == <<c.observations[i].quality, Len(c.observations[i].samples),
                    c.observations[i].duration, 0 - c.observations[i].id>>
        Before(a, b) == \E n \in 1..4 : a[n] < b[n] /\ \A k \in 1..(n - 1) : a[k] = b[k]
    IN  IF fitting = {} THEN None
        ELSE c.observations[CHOOSE i \in fitting : \A j \in fitting \ {i} : Before(Key(j), Key(i))]

CeilDuration(units, rate) == (units * NanosPerSecond + rate - 1) \div rate

CalibrationApplies(c, user, ctx) ==
    /\ c.level >= user.level
    /\ c.machine = ctx.machine.id /\ c.model = ctx.model.id /\ c.storage = ctx.storage.id

NoProvenance == [id |-> None, observations |-> {}]

EstimateCost(user, ctx, strategy, calibration) ==
    LET reads == ctx.static.memory.reads
        uncalibrated(reason) == [read_time |-> None, latency |-> None,
                                 provenance |-> NoProvenance, reason |-> reason]
        read == BestObservation(calibration, "SequentialRead", None)
        latency == BestObservation(calibration, "StrategyLatency", strategy)
        applied == {o.id : o \in {read, latency} \ {None}}
    IN  IF user.level = 0 THEN uncalibrated("NotRequested")
        ELSE IF calibration = None THEN uncalibrated("NotApplicable")
        ELSE IF ~CalibrationApplies(calibration, user, ctx) THEN uncalibrated("NotApplicable")
        ELSE [read_time |-> IF read = None THEN None ELSE CeilDuration(reads, read.value),
              latency |-> IF latency = None THEN None ELSE latency.value,
              provenance |-> [id |-> calibration.id, observations |-> applied],
              reason |-> IF applied = {} THEN "NotApplicable" ELSE "ObservationsApplied"]

-----------------------------------------------------------------------------
(* The plan *)

Policy ==
    [Background  |-> [num |-> 1, den |-> 2, cache |-> 0,     reuse |-> FALSE, gpu |-> FALSE],
     Balanced    |-> [num |-> 3, den |-> 4, cache |-> 5000,  reuse |-> TRUE,  gpu |-> TRUE],
     Performance |-> [num |-> 1, den |-> 1, cache |-> 10000, reuse |-> TRUE,  gpu |-> TRUE],
     Advanced    |-> [num |-> 3, den |-> 4, cache |-> 5000,  reuse |-> TRUE,  gpu |-> TRUE]]

Overrides == {"threads", "cache_enabled", "cache_capacity", "coalescing", "reuse", "device"}

UserErrors(u) ==
    << <<u.ram = 0, "ram_budget_bytes">>,
       <<u.thread_limit = 0, "cpu_thread_limit">>,
       <<u.mode # "Advanced" /\ \E f \in Overrides : u[f] # None, "AdvancedOverrideRequiresAdvancedMode">>,
       <<u.threads = 0, "advanced.thread_count">>,
       <<u.cache_capacity = 0, "advanced.layer_cache_capacity_bytes">>,
       <<u.cache_capacity # None /\ u.cache_capacity > u.ram, "advanced.layer_cache_capacity_bytes">>,
       <<u.cache_enabled = FALSE /\ u.cache_capacity # None, "disabled layer cache has a capacity override">>,
       <<u.device # None /\ u.gpu = "Disabled", "GPU device selected while GPU use is disabled">> >>

\* What the context rules out before any decision.
ContextErrors(u, ctx, caps) ==
    LET m == ctx.machine
        memory == ctx.static.memory
    IN  << <<~MachineValid(m), "MachineProfile">>,
           <<ctx.static.ram # u.ram, "StaticPlanDoesNotMatchProfiles">>,
           <<ctx.storage.size # None /\ ctx.storage.size # ctx.model.size, "StorageModelSizeMismatch">>,
           <<m.total = None \/ m.available = None, "MachineMemoryUnavailable">>,
           <<m.total # None /\ u.ram > m.total, "RamBudgetExceedsTotalRam">>,
           <<m.available # None /\ u.ram > m.available, "RamBudgetExceedsAvailableRam">>,
           <<~caps.storage, "StorageNotUsable">>,
           <<~caps.cpu, "CpuBackendUnavailable">>,
           <<~caps.model, "ModelNotExecutable">>,
           <<memory = None, "ExecutionPreflightUnavailable">>,
           <<memory # None /\ ~memory.fits, "ManagedMemoryLowerBoundExceedsBudget">> >>

ThreadLimit(u, m) == Min({m.cores, Default(u.thread_limit, m.cores)})

Threads(u, m) ==
    LET policy == Policy[u.mode]
    IN  Default(u.threads, Max({1, (ThreadLimit(u, m) * policy.num) \div policy.den}))

WantsCache(u) == Default(u.cache_enabled, Policy[u.mode].cache > 0)
CacheIsRequired(u) == u.cache_enabled = TRUE \/ u.cache_capacity # None

RequestedCache(u, caps, memory) ==
    IF ~WantsCache(u) \/ ~caps.cache THEN 0
    ELSE Default(u.cache_capacity, (memory.cache * Policy[u.mode].cache) \div 10000)

CacheDecision(requested, memory) ==
    IF memory.min_layer > 0 /\ requested >= memory.min_layer THEN requested ELSE 0

\* resolve_capability_choice
Choice(explicit, preset, available) == Default(explicit, preset) /\ available

DecisionErrors(u, ctx, caps) ==
    LET memory == ctx.static.memory
        requested == RequestedCache(u, caps, memory)
    IN  << <<u.threads # None /\ u.threads > ThreadLimit(u, ctx.machine), "RequestedThreadCountUnavailable">>,
           <<u.gpu = "Require" /\ ~(Policy[u.mode].gpu /\ caps.gpu), "GpuRequiredButUnavailable">>,
           <<u.device # None /\ ~caps.gpu, "GpuRequiredButUnavailable">>,
           <<CacheIsRequired(u) /\ ~caps.cache, "LayerCacheRequiredButUnavailable">>,
           <<WantsCache(u) /\ caps.cache /\ requested > memory.cache, "LayerCacheCapacityExceedsStaticCapacity">>,
           <<CacheIsRequired(u) /\ requested < memory.min_layer, "LayerCacheCapacityCannotFitCompleteLayer">>,
           <<u.coalescing = TRUE /\ ~caps.coalescing, "ReadCoalescingRequiredButUnavailable">>,
           <<u.reuse = TRUE /\ ~caps.reuse, "GroupedReadBufferReuseRequiredButUnavailable">> >>

\* EXECUTION_PLAN_SCHEMA_VERSION and PLANNER_RULESET_VERSION: a plan that was
\* saved by another version of the program has others.
PlanSchemaVersion == 1
RulesetVersion == 2

\* A usable GPU is never selected (see Derive): the strategy is always the
\* CPU one.
Decide(u, ctx, caps, calibration) ==
    LET memory == ctx.static.memory
        capacity == CacheDecision(RequestedCache(u, caps, memory), memory)
        cost == EstimateCost(u, ctx, "CpuLayerStreaming", calibration)
    IN  [schema |-> PlanSchemaVersion, ruleset |-> RulesetVersion,
         model |-> ctx.model.id, machine |-> ctx.machine.id, storage |-> ctx.storage.id,
         path |-> ctx.storage.path,
         mode |-> u.mode, strategy |-> "CpuLayerStreaming", ram |-> u.ram,
         threads |-> Threads(u, ctx.machine),
         cache_enabled |-> capacity > 0, cache_capacity |-> capacity,
         coalescing |-> Choice(u.coalescing, TRUE, caps.coalescing),
         reuse |-> Choice(u.reuse, Policy[u.mode].reuse, caps.reuse),
         gpu |-> u.gpu, device |-> None,
         available |-> ctx.machine.available,
         resident |-> memory.resident, startup |-> memory.startup,
         layer_peak |-> memory.layer_peak, bound |-> memory.bound,
         remaining |-> u.ram - memory.bound,
         reads |-> memory.reads, read_time |-> cost.read_time, latency |-> cost.latency,
         calibration |-> cost.provenance.id, observations |-> cost.provenance.observations,
         reason |-> cost.reason]

Plan(u, ctx, calibration) ==
    LET caps == Derive(ctx)
        before == FirstError(UserErrors(u) \o
                     << <<calibration # None /\ ~CalibrationValid(calibration), "CalibrationResult">> >>
                     \o ContextErrors(u, ctx, caps))
        during == FirstError(DecisionErrors(u, ctx, caps))
    IN  IF before # None THEN Err(before)
        ELSE IF during # None THEN Err(during)
        ELSE Ok(Decide(u, ctx, caps, calibration))
-----------------------------------------------------------------------------
(***************************************************************************)
(* The boundary between a plan and the runtime (plan_compiler.rs and       *)
(* runtime_config.rs): a plan is checked against a context and turned,     *)
(* decisions unchanged, into a runtime configuration, or rejected with the *)
(* first check it fails.                                                   *)
(***************************************************************************)
\* validate_plan_header
HeaderErrors(p) ==
    << <<p.schema # PlanSchemaVersion, "UnsupportedSchemaVersion">>,
       <<p.ruleset # RulesetVersion, "UnsupportedRulesetVersion">> >>

\* validate_concrete_decisions: what can be said of a plan by itself.
DecisionInconsistencies(p) ==
    << <<p.threads = 0, "ZeroThreadCount">>,
       <<p.ram = 0, "ZeroRamBudget">>,
       <<p.cache_enabled # (p.cache_capacity > 0), "LayerCacheStateInconsistent">>,
       <<p.strategy = "CpuLayerStreaming" /\ (p.device # None \/ p.gpu = "Require"),
         "InconsistentGpuDecision">>,
       <<p.strategy = "GpuLayerOffload" /\ (p.device = None \/ p.gpu = "Disabled"),
         "InconsistentGpuDecision">>,
       <<p.strategy = "GpuLayerOffload", "UnsupportedGpuExecution">> >>

BindingMismatches(p, ctx) ==
    << <<p.machine # ctx.machine.id, "machine fingerprint">>,
       <<p.model # ctx.model.id, "model descriptor fingerprint">>,
       <<p.storage # ctx.storage.id, "storage fingerprint">>,
       <<p.path # ctx.storage.path, "model path">> >>

StaticPlanMismatches(p, ctx) ==
    << <<ctx.static.ram # p.ram, "RAM budget">>,
       <<ctx.static.file_size # ctx.model.size, "model file size">>,
       <<ctx.storage.size # ctx.model.size, "storage/model file size">>,
       <<ctx.static.memory = None, "ExecutionPreflightUnavailable">> >>

\* Mutant: the threads of a plan are not compared with this machine's cores.
ResourceErrorsAnyThreads(p, ctx, caps) ==
    LET m == ctx.machine
    IN  << <<m.total = None \/ m.available = None, "machine RAM is unavailable">>,
           <<m.total # None /\ p.ram > m.total, "RamBudgetExceedsTotalRam">>,
           <<m.available # None /\ p.ram > m.available, "RamBudgetExceedsAvailableRam">>,
           <<~caps.storage, "StorageUnavailable">>,
           <<~caps.cpu, "CpuExecutionUnavailable">>,
           <<~caps.model, "ModelExecutionUnavailable">> >>

ResourceErrors(p, ctx, caps) ==
    LET m == ctx.machine
    IN  << <<p.threads > m.cores, "ThreadCountExceedsLimit">>,
           <<m.total = None \/ m.available = None, "machine RAM is unavailable">>,
           <<m.total # None /\ p.ram > m.total, "RamBudgetExceedsTotalRam">>,
           <<m.total # None /\ p.available > m.total, "available RAM at planning exceeds total RAM">>,
           <<m.available # None /\ p.ram > m.available, "RamBudgetExceedsAvailableRam">>,
           <<~caps.storage, "StorageUnavailable">>,
           <<~caps.cpu, "CpuExecutionUnavailable">>,
           <<~caps.model, "ModelExecutionUnavailable">> >>

ReservationErrors(p, memory) ==
    << <<~memory.fits \/ memory.bound > p.ram, "ManagedMemoryLowerBoundExceedsBudget">>,
       <<p.available < p.ram, "available RAM at planning">>,
       <<p.resident # memory.resident, "persistent resident bytes">>,
       <<p.startup # memory.startup, "persistent startup peak bytes">>,
       <<p.layer_peak # memory.layer_peak, "largest layer load peak bytes">>,
       <<p.bound # memory.bound, "managed-memory lower bound">>,
       <<p.remaining # p.ram - p.bound, "remaining budget after lower bound">>,
       <<memory.cache # p.ram - p.bound, "layer-cache capacity/lower-bound relationship">> >>

CacheErrors(p, caps, memory) ==
    << <<p.cache_enabled /\ ~caps.cache, "LayerCacheUnavailable">>,
       <<p.cache_enabled /\ p.cache_capacity > memory.cache, "LayerCacheCapacityExceedsLimit">>,
       <<p.cache_enabled /\ p.cache_capacity < memory.min_layer, "LayerCacheCapacityCannotFitLayer">> >>

IoErrors(p, caps) ==
    << <<p.coalescing /\ ~caps.coalescing, "ReadCoalescingUnavailable">>,
       <<p.reuse /\ ~caps.reuse, "GroupedReadBufferReuseUnavailable">> >>

RuntimeConfigErrors(c) ==
    << <<c.threads = 0, "ZeroThreadCount">>, <<c.ram = 0, "ZeroRamBudget">>,
       <<c.cache_enabled /\ c.cache_capacity = 0, "LayerCacheEnabledWithoutCapacity">>,
       <<~c.cache_enabled /\ c.cache_capacity # 0, "LayerCacheDisabledWithCapacity">>,
       <<c.cache_capacity > c.ram, "LayerCacheCapacityExceedsRamBudget">> >>

RuntimeConfig(p) ==
    [threads |-> p.threads, ram |-> p.ram, cache_enabled |-> p.cache_enabled,
     cache_capacity |-> p.cache_capacity, coalescing |-> p.coalescing, reuse |-> p.reuse]

\* That nothing is wrong with a plan is not one of the reasons why one is
\* rejected.
ASSUME CompileErrorsAssumption ==
    None \notin
        {"UnsupportedSchemaVersion", "UnsupportedRulesetVersion",
         "ZeroThreadCount", "ZeroRamBudget", "LayerCacheStateInconsistent", "InconsistentGpuDecision",
         "UnsupportedGpuExecution", "machine profile", "machine fingerprint",
         "model descriptor fingerprint", "storage fingerprint", "model path", "RAM budget",
         "model file size", "storage/model file size", "ExecutionPreflightUnavailable",
         "ThreadCountExceedsLimit", "machine RAM is unavailable", "RamBudgetExceedsTotalRam",
         "available RAM at planning exceeds total RAM", "RamBudgetExceedsAvailableRam",
         "StorageUnavailable", "CpuExecutionUnavailable", "ModelExecutionUnavailable",
         "ManagedMemoryLowerBoundExceedsBudget", "available RAM at planning",
         "persistent resident bytes", "persistent startup peak bytes",
         "largest layer load peak bytes", "managed-memory lower bound",
         "remaining budget after lower bound", "layer-cache capacity/lower-bound relationship",
         "LayerCacheUnavailable", "LayerCacheCapacityExceedsLimit",
         "LayerCacheCapacityCannotFitLayer", "ReadCoalescingUnavailable",
         "GroupedReadBufferReuseUnavailable", "LayerCacheEnabledWithoutCapacity",
         "LayerCacheDisabledWithCapacity", "LayerCacheCapacityExceedsRamBudget"}

\* The checks that need the preflight come after the one that it is there.
Compile(p, ctx) ==
    LET caps == Derive(ctx)
        header == FirstError(HeaderErrors(p))
        first == FirstError(DecisionInconsistencies(p)
                    \o << <<~MachineValid(ctx.machine), "machine profile">> >>
                    \o BindingMismatches(p, ctx) \o StaticPlanMismatches(p, ctx))
        second == FirstError(ResourceErrors(p, ctx, caps) \o ReservationErrors(p, ctx.static.memory)
                    \o CacheErrors(p, caps, ctx.static.memory) \o IoErrors(p, caps)
                    \o RuntimeConfigErrors(RuntimeConfig(p)))
    IN  IF header # None THEN Err(header)
        ELSE IF first # None THEN Err(first)
        ELSE IF second # None THEN Err(second)
        ELSE Ok(RuntimeConfig(p))
=============================================================================
