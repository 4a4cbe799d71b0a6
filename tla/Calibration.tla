----------------------------- MODULE Calibration -----------------------------
(***************************************************************************)
(* Calibration (crates/ramforge-runtime/src/calibration.rs): a plan of     *)
(* measurements made from a user's level and the profiles of an analysis,  *)
(* and the runner that executes it task by task under limits of memory and *)
(* time.  A measurement is a number of warm-up operations and of timed     *)
(* samples; how long one takes is up to the machine.                       *)
(*                                                                         *)
(* The buffers filled and the arithmetic timed are left out: a task is its *)
(* resources and its work.  An identifier that the code computes by        *)
(* hashing what it identifies is here the tuple of what is hashed.         *)
(***************************************************************************)
EXTENDS ExecutionPlanner

CONSTANTS Sizes,      \* the fixed sizes and limits of calibration.rs
          MaxSampleTime   \* bound of the model: the longest set-up, warm-up
                          \* operation or sample; a sample is all the operations
                          \* of iterations_per_sample, with no look at the clock

VARIABLE cal          \* the runner: NotCalibrating or a run

-----------------------------------------------------------------------------
(* The plan of a calibration *)

Clamp(n, low, high) == Max({low, Min({n, high})})

\* CalibrationLimits::conservative
Conservative(user) ==
    [memory |-> Min({Clamp(user.ram \div 32, Sizes.memory_floor, Sizes.memory_ceiling), user.ram}),
     read |-> Sizes.read, total |-> Sizes.total_time, task |-> Sizes.task_time,
     samples |-> Sizes.samples, iterations |-> Sizes.iterations]

LimitsValid(limits, user) ==
    /\ limits.memory \in 1..Min({user.ram, Sizes.max_memory})
    /\ limits.read \in 1..Sizes.max_read
    /\ limits.task \in 1..limits.total
    /\ limits.samples \in 1..Sizes.max_samples
    /\ limits.iterations \in 1..Sizes.max_iterations

Kinds == [CpuFloatDot |-> 1, SequentialStorageRead |-> 2, MemoryCopyBandwidth |-> 3,
          Q4K |-> 4, Q8_0 |-> 5, Q4_0 |-> 6, StrategyLatency |-> 7]

Metric(kind) ==
    CASE kind \in {"Q4K", "Q8_0", "Q4_0"} -> "QuantizedDecode"
      [] kind = "SequentialStorageRead"   -> "SequentialRead"
      [] OTHER                            -> kind

Task(kind, memory, read, warmups, samples, iterations, units, limits) ==
    [kind |-> kind, memory |-> memory, read |-> read, warmups |-> warmups, samples |-> samples,
     iterations |-> iterations, units |-> units, time |-> limits.task]

\* level_work: samples, and iterations of each sample.
LevelWork(level) == Sizes.level_work[level]

CpuTask(level, limits) ==
    Task("CpuFloatDot", 2 * Sizes.cpu_buffer + Sizes.metadata, 0, 4,
         LevelWork(level)[1], LevelWork(level)[2], Sizes.cpu_buffer, limits)

\* A buffer takes what the limit leaves, or its full size if that is too
\* little to be of use: then the task is beyond the limit and is skipped.
BufferBytes(available, full) ==
    IF available >= Sizes.least_buffer THEN Min({available, full}) ELSE full

\* What a limit leaves beside the metadata; subtraction saturates at 0.
BesideMetadata(limits) == Max({0, limits.memory - Sizes.metadata})

MemoryTask(level, limits) ==
    LET bytes == BufferBytes(BesideMetadata(limits) \div 2, Sizes.buffer)
    IN  Task("MemoryCopyBandwidth", 2 * bytes + Sizes.metadata, 0, 2,
             LevelWork(level)[1], LevelWork(level)[2], bytes, limits)

StorageTask(level, limits) ==
    LET bytes == BufferBytes(BesideMetadata(limits), Min({limits.read, Sizes.buffer}))
    IN  Task("SequentialStorageRead", bytes + Sizes.metadata, bytes, 1,
             LevelWork(level)[1], 1, bytes, limits)

QuantizedTask(level, format, limits) ==
    Task(format, Sizes.quantized + Sizes.metadata, 0, 2,
         LevelWork(level)[1], LevelWork(level)[2], Sizes.quantized, limits)

RelevantQuantizations(model) ==
    LET only(format) == IF format \in model.formats THEN <<format>> ELSE <<>>
    IN  only("Q4K") \o only("Q8_0") \o only("Q4_0")

Tasks(level, model, limits) ==
    LET formats == RelevantQuantizations(model)
        decode(from, to) == [i \in 1..Max({0, Min({to, Len(formats)}) - from + 1}) |->
                                QuantizedTask(level, formats[from + i - 1], limits)]
    IN  (IF level = 0 THEN <<>> ELSE <<CpuTask(level, limits), StorageTask(level, limits)>>)
        \o (IF level < 2 THEN <<>> ELSE <<MemoryTask(level, limits)>> \o decode(1, 1))
        \o (IF level < 3 THEN <<>> ELSE decode(2, 3))

\* work_volume_is_bounded and CalibrationTask::validate
TaskValid(t) ==
    /\ t.memory \in 1..Sizes.max_memory /\ t.read <= Sizes.max_read
    /\ t.iterations \in 1..Sizes.max_iterations /\ t.warmups <= Sizes.max_iterations
    /\ t.samples \in 1..Sizes.max_samples /\ t.time > 0 /\ t.units > 0
    /\ t.units * (t.iterations * t.samples + t.warmups) <= Sizes.max_volume

BuildErrors(user, ctx, limits, tasks) ==
    << <<FirstError(UserErrors(user)) # None, "UserProfile">>,
       <<~MachineValid(ctx.machine), "MachineProfile">>,
       <<~LimitsValid(limits, user), "invalid calibration limits">>,
       <<ctx.storage.size # None /\ ctx.storage.size # ctx.model.size,
         "storage file size does not match model profile">>,
       <<ctx.machine.available = None, "available machine RAM is unknown">>,
       <<ctx.machine.available # None /\ limits.memory > ctx.machine.available,
         "calibration memory exceeds available machine RAM">>,
       <<\E i \in DOMAIN tasks : ~TaskValid(tasks[i]), "unbounded task resources">> >>

\* That there is no error is not an error.
ASSUME BuildErrorsAssumption ==
    None \notin {"UserProfile", "MachineProfile", "invalid calibration limits",
                 "storage file size does not match model profile",
                 "available machine RAM is unknown",
                 "calibration memory exceeds available machine RAM", "unbounded task resources"}

Build(user, ctx, limits) ==
    LET tasks == Tasks(user.level, ctx.model, limits)
        error == FirstError(BuildErrors(user, ctx, limits, tasks))
    IN  IF error # None THEN Err(error)
        ELSE Ok([level |-> user.level, machine |-> ctx.machine.id, model |-> ctx.model.id,
                 storage |-> ctx.storage.id, limits |-> limits, tasks |-> tasks])

\* calibration_plan_identifier hashes all of the plan.
Identifier(plan) == plan

-----------------------------------------------------------------------------
(* Observations *)

NotMeasured(t, status, reason) ==
    [id |-> Kinds[t.kind], metric |-> Metric(t.kind), strategy |-> None, status |-> status,
     value |-> None, reason |-> reason, samples |-> <<>>, duration |-> 0, quality |-> 0,
     latency |-> FALSE]

\* The limits are numbers; an observation is not mistaken for none.
ASSUME CalibrationAssumption ==
    /\ Sizes.total_time \in Nat /\ Sizes.task_time \in Nat /\ MaxSampleTime \in Nat
    /\ \A kind \in DOMAIN Kinds, status \in {"Skipped", "Unavailable"},
          reason \in {"TimeLimitReached", "CapabilityUnavailable", "ResourceLimitExceeded"} :
          None # NotMeasured([kind |-> kind], status, reason)

\* measured_observation: a rate of zero is a failure.
Measured(t, samples) ==
    LET value == AggregateValue(samples, FALSE)
    IN  IF value = None THEN NotMeasured(t, "Failed", "InvalidWorkload")
        ELSE [NotMeasured(t, "Measured", None) EXCEPT
                 !.value = value, !.samples = samples,
                 !.duration = Total(samples, "elapsed"), !.quality = Quality(samples)]

\* How execute_task reports a measurement that ended in an error.
Unmeasured(t, reason) ==
    NotMeasured(t, CASE reason = "DependencyUnavailable" -> "Unavailable"
                     [] reason = "TimeLimitReached"      -> "Skipped"
                     [] OTHER                            -> "Failed", reason)

\* unavailable_requirement
RequirementMet(t, caps, model) ==
    CASE t.kind = "SequentialStorageRead" -> caps.storage
      [] t.kind \in {"Q4K", "Q8_0", "Q4_0"} -> caps.cpu /\ t.kind \in model.supported
      [] OTHER -> caps.cpu

WithinLimits(t, limits) ==
    /\ t.memory <= limits.memory /\ t.read <= limits.read
    /\ t.samples <= limits.samples /\ t.time <= limits.task
    /\ t.warmups <= limits.iterations /\ t.iterations <= limits.iterations

\* Mutant: a task is begun as long as any time is left.
TimeLeftAny(run, t) == run.elapsed < run.plan.limits.total

TimeLeft(run, t) == run.plan.limits.total - run.elapsed >= t.time

\* Why a task is not executed, None when it is.  Its fingerprints are those
\* of the plan that made it.
NotExecuted(t, run) ==
    IF ~TimeLeft(run, t)
        THEN NotMeasured(t, "Skipped", "TimeLimitReached")
    ELSE IF ~RequirementMet(t, run.caps, run.ctx.model)
        THEN NotMeasured(t, "Unavailable", "CapabilityUnavailable")
    ELSE IF ~WithinLimits(t, run.plan.limits)
        THEN NotMeasured(t, "Skipped", "ResourceLimitExceeded")
    ELSE None

-----------------------------------------------------------------------------
(* The runner *)

NotCalibrating == [phase |-> "none"]

CurrentTask == cal.plan.tasks[cal.at]

\* run_with_progress, up to its loop.  A plan without a level is refused.
BeginCalibration(user, ctx) ==
    LET built == Build(user, ctx, Conservative(user))
    IN  cal' = IF built.ok /\ user.level > 0
               THEN [phase |-> "next", plan |-> built.value, ctx |-> ctx, caps |-> Derive(ctx),
                     ram |-> user.ram, at |-> 1, elapsed |-> 0, charged |-> 0,
                     spent |-> 0, warmed |-> 0, units |-> 0, samples |-> <<>>, observations |-> <<>>]
               ELSE [phase |-> "failed"]

\* The observation of the current task is recorded and its charge given back.
Observed(run, observation) ==
    [run EXCEPT !.phase = "next", !.at = @ + 1, !.observations = Append(@, observation),
                !.charged = 0, !.spent = 0, !.warmed = 0, !.samples = <<>>]

NextTask ==
    /\ cal.phase = "next"
    /\ cal.at <= Len(cal.plan.tasks)
    /\ LET without == NotExecuted(CurrentTask, cal)
       IN  cal' = IF without # None THEN Observed(cal, without)
                  ELSE IF CurrentTask.memory > cal.ram THEN [phase |-> "failed"]
                  ELSE [cal EXCEPT !.phase = "setup", !.charged = CurrentTask.memory]

\* What is prepared before the clock of a task starts.  Buffers are filled;
\* the file is opened, its size compared with the one analysed, and no more of
\* it than there is will be read.
FillBuffers(run) == cal' = [run EXCEPT !.phase = "measuring", !.units = CurrentTask.units]

OpenModel(run, size, opened) ==
    LET units == Min({CurrentTask.units, size})
        error == FirstError(<< <<opened = "NotFound", "DependencyUnavailable">>,
                               <<opened = "Unreadable", "IoFailure">>,
                               <<cal.ctx.storage.size \notin {None, size}, "DependencyUnavailable">>,
                               <<units = 0, "DependencyUnavailable">> >>)
    IN  cal' = IF error # None THEN Observed(run, Unmeasured(CurrentTask, error))
               ELSE [run EXCEPT !.phase = "measuring", !.units = units]

SetUp(size) ==
    /\ cal.phase = "setup"
    /\ \E time \in 0..MaxSampleTime :
          LET run == [cal EXCEPT !.elapsed = @ + time]
          IN  IF CurrentTask.kind # "SequentialStorageRead" THEN FillBuffers(run)
              ELSE \E opened \in {"Ok", "NotFound", "Unreadable"} : OpenModel(run, size, opened)

\* Operations took this long, or one failed after so long: only a read can.
Passed(run, time) == [run EXCEPT !.elapsed = @ + time, !.spent = @ + time]
OperationFails ==
    /\ cal.phase = "measuring"
    /\ CurrentTask.kind = "SequentialStorageRead"
    /\ \E time \in 0..MaxSampleTime :
          cal' = Observed(Passed(cal, time), Unmeasured(CurrentTask, "IoFailure"))

Warmup ==
    /\ cal.phase = "measuring"
    /\ cal.warmed < CurrentTask.warmups
    /\ \E time \in 0..MaxSampleTime :
          LET run == [Passed(cal, time) EXCEPT !.warmed = @ + 1]
          IN  cal' = IF run.spent >= CurrentTask.time
                     THEN Observed(run, Unmeasured(CurrentTask, "TimeLimitReached")) ELSE run

\* The loop ends with the last sample or the task's time.
SamplesEnd(run, t) == Len(run.samples) = t.samples \/ run.spent >= t.time

TakeSample ==
    /\ cal.phase = "measuring"
    /\ cal.warmed = CurrentTask.warmups
    /\ \E time \in 0..MaxSampleTime :
          LET sample == [elapsed |-> time, units |-> cal.units * CurrentTask.iterations]
              run == [Passed(cal, time) EXCEPT !.samples = Append(@, sample)]
          IN  cal' = IF time = 0 THEN Observed(cal, Unmeasured(CurrentTask, "InvalidWorkload"))
                     ELSE IF SamplesEnd(run, CurrentTask)
                     THEN Observed(run, Measured(CurrentTask, run.samples))
                     ELSE run

CalibrationStep(size) ==
    NextTask \/ SetUp(size) \/ OperationFails \/ Warmup \/ TakeSample

CalibrationComplete == cal.phase = "next" /\ cal.at > Len(cal.plan.tasks)

CalibrationResult ==
    [id |-> Identifier(cal.plan), level |-> cal.plan.level, machine |-> cal.plan.machine,
     model |-> cal.plan.model, storage |-> cal.plan.storage, observations |-> cal.observations]

-----------------------------------------------------------------------------
(* Properties *)

CalibrationRuns == cal.phase \in {"next", "setup", "measuring"}

\* A calibration ends within its total time, whatever the machine does, but
\* for one set-up and the one warm-up operation or whole sample that was under
\* way when its task's time was up: a task is begun only if its whole time is
\* left and stops at its own limit, so overruns do not add up.
CalibrationTimeBounded ==
    CalibrationRuns => cal.elapsed < cal.plan.limits.total + 2 * MaxSampleTime

=============================================================================
