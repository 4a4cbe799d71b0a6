---------------------------- MODULE PlanLifecycle ----------------------------
(***************************************************************************)
(* The life of a plan: a machine is analysed, maybe calibrated, a plan is  *)
(* made for a user, compiled into the configuration of a runtime, saved,   *)
(* and later loaded, on this machine or on another one, and compiled there.*)
(* It composes the analysis and planning of orchestration.rs and           *)
(* planner.rs, calibration.rs and the file of plan_persistence.rs.         *)
(*                                                                         *)
(* The environment changes at any time: an analysis is a snapshot.         *)
(***************************************************************************)
EXTENDS Calibration, PlanPersistence

CONSTANTS Environments,   \* [machine, model, storage] as discovery finds them
          Users,          \* user profiles
          Cuts            \* as in PlanStore

VARIABLES env,            \* the machine, the model file and its storage now
          session,        \* None or the analysis and the user it is for
          result,         \* None or the last calibration's result
          plan,           \* None or [plan, origin]
          report,         \* None or what was said of the loaded plan
          config,         \* None or the compiled configuration
          owner, file, writing, reader, loaded   \* PlanStore

lvars == <<env, session, cal, result, plan, report, config>>
storeVars == <<owner, file, writing, reader, loaded>>
lifecycleVars == <<lvars, storeVars>>

\* RuntimeOrchestrator::analyze for a RAM budget: all facts at one instant.
Context(e, ram) ==
    [machine |-> e.machine, model |-> e.model, storage |-> e.storage,
     static |-> PlanModel(e.model, ram)]

\* The file is written and read in pieces.  All that matters of the format
\* here is what FormatOf says of EncodePlan and DecodePlan (MCAlgorithms checks
\* it): three pieces stand for it.
EncodePieces(p) == <<Magic, p, SchemaVersion>>
DecodePieces(pieces) == IF Len(pieces) = 3 THEN pieces[2] ELSE Torn

Store == INSTANCE PlanStore WITH Plans <- {}, Encode <- EncodePieces, Decode <- DecodePieces

\* Sizes and counts are numbers, and so is what is summed over the tensors of
\* a model that stay.
ASSUME LifecycleAssumption ==
    /\ None \notin Nat
    /\ \A user \in Users :
          /\ user.ram \in Nat /\ user.mode \in DOMAIN Policy
          /\ {user.threads, user.thread_limit, user.cache_capacity} \subseteq Nat \cup {None}
    /\ \A e \in Environments :
          /\ e.machine.cores \in Nat /\ e.machine.available \in Nat \cup {None}
          /\ e.model.layers \in Seq([resident : Nat, peak : Nat])
          /\ \A user \in Users : Persistents(e.model.persistents, user.ram) \in [resident : Nat, peak : Nat]

LifecycleInit ==
    /\ env \in Environments
    /\ session = None /\ cal = NotCalibrating /\ result = None
    /\ plan = None /\ report = None /\ config = None
    /\ Store!StoreInit

\* RAM is taken and freed, a device is replaced, the program is started on
\* another machine or with another model.
ChangeEnvironment ==
    /\ env' \in Environments \ {env}
    /\ UNCHANGED <<session, cal, result, plan, report, config, storeVars>>

\* This instance is not in a load: the save under way may be another's.
NotLoading == reader = None /\ loaded \in {None, Torn}

Analyze(user) ==
    /\ ~CalibrationRuns /\ NotLoading
    /\ session' = [user |-> user, ctx |-> Context(env, user.ram)]
    /\ cal' = NotCalibrating
    /\ plan' = None /\ report' = None /\ config' = None
    /\ UNCHANGED <<env, result, storeVars>>

\* CalibrationRunner::run uses the profiles of the session.
Calibrate ==
    /\ session # None /\ plan = None /\ cal = NotCalibrating /\ NotLoading
    /\ session.user.level > 0
    /\ BeginCalibration(session.user, session.ctx)
    /\ result' = None
    /\ UNCHANGED <<env, session, plan, report, config, storeVars>>

Calibrating ==
    /\ CalibrationStep(env.model.size)
    /\ UNCHANGED <<env, session, result, plan, report, config, storeVars>>

\* result.validate() is the last thing the runner does.
Calibrated ==
    /\ CalibrationComplete
    /\ result' = IF CalibrationValid(CalibrationResult) THEN CalibrationResult ELSE None
    /\ cal' = NotCalibrating
    /\ UNCHANGED <<env, session, plan, report, config, storeVars>>

\* A result of an earlier analysis may be passed: create_plan decides
\* whether it applies.
CreatePlan ==
    /\ session # None /\ plan = None /\ ~CalibrationRuns /\ NotLoading
    /\ LET planned == Plan(session.user, session.ctx, result)
       IN  /\ planned.ok
           /\ plan' = [plan |-> planned.value, origin |-> "created"]
    /\ UNCHANGED <<env, session, cal, result, report, config, storeVars>>

\* activate_plan compiles before it builds the runtime.
Activate ==
    /\ plan # None /\ config = None
    /\ LET compiled == Compile(plan.plan, session.ctx)
       IN  /\ compiled.ok
           /\ config' = compiled.value
    /\ UNCHANGED <<env, session, cal, result, plan, report, storeVars>>

SavePlan ==
    /\ plan # None /\ ~writing
    /\ StructureValid(Persist(plan.plan))
    /\ Store!SaveNew(Persist(plan.plan))
    /\ UNCHANGED lvars

\* What the file system and other instances do meanwhile.  None of it is
\* seen by a calibration, nor sees it: such steps may as well come after.
FileSteps ==
    /\ ~CalibrationRuns
    /\ \/ Store!Write \/ Store!SaveEnds \/ Store!PowerLoss
       \/ plan = None /\ loaded \in {None, Torn} /\ Store!OpenFile
       \/ Store!ReadToEnd \/ Store!ReadMore \/ Store!ReadFails
    /\ UNCHANGED lvars

\* analyze_loaded_plan: the context is analysed for the plan's own budget,
\* the plan is judged in it and then taken over.  The interface passes no
\* calibration, another caller may pass the one it has.
OpenPlan ==
    /\ loaded \notin {None, Torn} /\ ~CalibrationRuns /\ plan = None
    /\ \E calibration \in {None, result} :
          LET ctx == Context(env, loaded.ram)
          IN  /\ report' = [state |-> CompatibilityReport(loaded, ctx, calibration),
                            calibration |-> calibration]
              /\ session' = [user |-> None, ctx |-> ctx]
              /\ plan' = [plan |-> Materialize(loaded, ctx), origin |-> "loaded"]
    /\ cal' = NotCalibrating /\ config' = None /\ loaded' = None
    /\ UNCHANGED <<env, result, owner, file, writing, reader>>

LifecycleNext ==
    \/ ChangeEnvironment
    \/ \E user \in Users : Analyze(user)
    \/ Calibrate \/ Calibrating \/ Calibrated
    \/ CreatePlan \/ Activate \/ SavePlan \/ FileSteps \/ OpenPlan

LifecycleSpec == LifecycleInit /\ [][LifecycleNext]_lifecycleVars

-----------------------------------------------------------------------------
(* Properties *)

\* A configuration fits the machine as it was analysed, whether its plan was
\* made for that machine or loaded: it asks for no more RAM than was free
\* and no more threads than there are cores, and what the model needs at
\* least leaves room for the cache, which holds at least one layer.
ConfigurationFits ==
    config # None =>
        LET ctx == session.ctx
            memory == ExecutionMemory(ctx.model, config.ram)
        IN  /\ config.ram <= ctx.machine.available /\ config.threads <= ctx.machine.cores
            /\ memory.bound + config.cache_capacity <= config.ram
            /\ config.cache_enabled =>
                  \E i \in DOMAIN ctx.model.layers : ctx.model.layers[i].resident <= config.cache_capacity
            /\ memory.startup <= config.ram

\* "Valid" is said of a plan with calibrated costs only if these costs were
\* measured on this machine, with this storage and model, even if the plan was
\* saved, moved and saved again, and the calibration at hand is one that ran the
\* same tasks under the same limits and measured everything the plan used.
\* It may be a later run of them: an identifier names what was to be measured,
\* and the values are not compared (calibration_mismatch_reason).
ValidMeansCalibratedHere ==
    (report # None /\ report.state = "Valid") =>
        LET p == plan.plan
            c == report.calibration
        IN  p.reason = "ObservationsApplied" =>
                /\ p.calibration.machine = session.ctx.machine.id
                /\ p.calibration.storage = session.ctx.storage.id
                /\ p.calibration.model = p.model
                /\ c # None /\ c.id = p.calibration
                /\ \A id \in p.observations : \E i \in DOMAIN c.observations :
                      c.observations[i].id = id /\ c.observations[i].value # None

\* Saving and loading refine PlanFile.
FileRefined == Store!BehavesAsPlanFile
=============================================================================
