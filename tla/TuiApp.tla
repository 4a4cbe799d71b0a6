------------------------------- MODULE TuiApp -------------------------------
(***************************************************************************)
(* The terminal user interface (crates/ramforge-cli/src/tui/app.rs and     *)
(* mod.rs): screens, the plan flow from a model path to a generation, the  *)
(* run history.  The program is one loop: a key is handled (one action per *)
(* screen), the handler may request an action, the action is executed and  *)
(* its result moves the screen.  What an executed action returns is the    *)
(* environment's choice, within what the orchestration layer may return.   *)
(*                                                                         *)
(* The model path typed so far names one of the models or none; the other  *)
(* texts (plan file, prompt, export file) are left out, Enter may find them *)
(* empty or not.  Every screen ignores the keys it has no case for.  Error *)
(* lines, the shown result, the calibration's numbers and the live counters *)
(* are left out: nothing that moves a screen reads them.                   *)
(***************************************************************************)
EXTENDS TuiConfig, FiniteSets, SequencesExt

CONSTANTS
    None,        \* no value
    Models,      \* paths of models
    Caps,        \* for each model the bound of its max tokens
    SavedPlans,  \* persisted plans: records of model, ram and mode
    Levels,      \* number of calibration levels, None first
    MaxHistory,  \* MAX_RUN_HISTORY
    MaxRuns      \* bound: runs of the session

ASSUME TuiAssumption == MaxHistory \in Nat \ {0} /\ MaxRuns \in Nat /\ Levels \in Nat \ {0}

\* The budgets that may be entered or loaded, the sessions and the requests:
\* None is none of them.
RamValues == {RamPresets[i] : i \in DOMAIN RamPresets} \cup RamTexts \cup {p.ram : p \in SavedPlans}
Sessions == [model : Models \cup {""}, ram : RamValues \cup {""}, source : BOOLEAN]
Requests ==
    [kind : {"LoadPlan", "ValidateModelPath", "Analyze", "AnalyzeLoadedPlan", "RunCalibration",
             "CreatePlan", "ValidatePlan", "ActivateRuntime", "SavePlan"}]
        \cup [kind : {"GeneratePrompt"}, max_tokens : Nat]
        \cup [kind : {"ExportRun"}, id : Nat]

ASSUME NoneAssumption ==
    None \notin Sessions /\ None \notin Requests /\ None # "Incompatible"

-----------------------------------------------------------------------------
(***************************************************************************)
(* The sequencing layer (crates/ramforge-runtime/src/orchestration.rs):    *)
(* what an analysis, a planning, a compilation and an activation may       *)
(* return, in which order they fail, and what they leave of the session.   *)
(* A session keeps the opened model file until an activation takes it.     *)
(***************************************************************************)
Ok(value) == [ok |-> TRUE, value |-> value]
Err(stage) == [ok |-> FALSE, stage |-> stage]

\* analyze_retained stops at the first stage that fails.
AnalysisStages ==
    {"StorageDiscovery", "ModelInspection", "ModelProfileConstruction",
     "StaticPlanning", "MachineDiscovery", "CapabilityConstruction"}

Session(model, ram) == [model |-> model, ram |-> ram, source |-> TRUE]

Analyze(model, ram) ==
    {Ok(Session(model, ram))} \cup {Err(stage) : stage \in AnalysisStages}

CreatePlan(session, user) ==
    {Ok([model |-> session.model, ram |-> user.ram, mode |-> user.mode]), Err("Planning")}

\* A plan compiles only against the model it was made for.
CompilePlan(session, plan) ==
    {Err("PlanCompilation")}
        \cup (IF plan.model = session.model THEN {Ok(plan)} ELSE {})

\* Compilation first; then the file is taken, whether or not the engine can
\* be built from it.
ActivatePlan(session, plan) ==
    LET taken == [session EXCEPT !.source = FALSE]
        built == {[result |-> Ok(plan), session |-> taken],
                  [result |-> Err("RuntimeConstruction"), session |-> taken]}
        source == IF session.source THEN built
                  ELSE {[result |-> Err("RuntimeSourceUnavailable"), session |-> session]}
    IN  UNION {IF c.ok THEN source ELSE {[result |-> c, session |-> session]} :
                  c \in CompilePlan(session, plan)}

-----------------------------------------------------------------------------
VARIABLES
    app,     \* the fields of TuiApp but for the settings
    config,  \* the settings (TuiConfig)
    edit,    \* the editors: preference_editing, max_tokens_editing and backup
    action   \* the requested action, not executed yet

vars == <<app, config, edit, action>>

Menus == {"Welcome", "Preferences", "TestPreset", "ReviewConfig", "ModelInfo",
          "CalibrationSelect", "PlanReview", "PlanValid", "GenerationResult",
          "RunHistory", "RunDetail", "RunCompareSelect", "PlanCompatibility"}
\* handle() ignores every key on these.
Busy == {"Analyzing", "PlanValidation", "RuntimeActivation", "GenerationRunning"}

NoEdit == [preference |-> FALSE, tokens |-> FALSE, backup |-> None]

Start ==
    [screen |-> "Welcome", menu_index |-> 0, should_quit |-> FALSE,
     model_input |-> "",
     model_flow |-> "NewPlan", plan_origin |-> "NewPlan",
     error_return |-> "Welcome", user |-> None,
     session |-> None, calibration_complete |-> FALSE,
     calibration_index |-> 0, plan |-> None, persisted |-> None,
     compatibility |-> None, runtime |-> None,
     history |-> <<>>, selected |-> None, compare_first |-> None,
     comparison |-> None]

Init ==
    /\ app = Start
    /\ config = DefaultConfig
    /\ edit = NoEdit
    /\ action = None

-----------------------------------------------------------------------------
(* Moving between screens *)

At(a, screen, index) == [a EXCEPT !.screen = screen, !.menu_index = index]

ShowError(a, return_to) ==
    [At(a, "Error", 0) EXCEPT !.error_return = return_to]

DropRuntime(a) == [a EXCEPT !.runtime = None]

StartNewModelFlow(a) ==
    At([DropRuntime(a) EXCEPT !.model_flow = "NewPlan", !.plan_origin = "NewPlan",
           !.persisted = None, !.compatibility = None, !.session = None, !.plan = None,
           !.model_input = ""], "ModelInput", 0)

LeaveRuntimeSession(a) == At(DropRuntime(a), "PlanReview", 0)

ReturnFromRuntimeActivation(a) ==
    At(a, IF a.plan_origin = "LoadedPlan" THEN "PlanCompatibility" ELSE "PlanReview", 0)

ReturnLoadedModelToPlanning(a) ==
    At([DropRuntime(a) EXCEPT !.model_flow = "NewPlan", !.plan_origin = "NewPlan",
           !.persisted = None, !.compatibility = None, !.plan = None],
       "Preferences", 0)

\* The settings take the budget and the mode of the loaded plan.
ConfigOfLoadedPlan(a, c) ==
    IF a.persisted = None THEN c
    ELSE [c EXCEPT !.ram_input = a.persisted.ram, !.mode = a.persisted.mode]

Step(a) == app' = a /\ UNCHANGED <<config, edit, action>>
Request(a, request) == app' = a /\ action' = request /\ UNCHANGED <<config, edit>>

Idle == action = None /\ ~app.should_quit
On(screen) == Idle /\ app.screen = screen

\* Up and Down on a menu of n items.
Menu(n) ==
    \/ Step([app EXCEPT !.menu_index = IF @ = 0 THEN n - 1 ELSE @ - 1])
    \/ Step([app EXCEPT !.menu_index = (@ + 1) % n])
Toggle == Step([app EXCEPT !.menu_index = 1 - (IF @ = 0 THEN 0 ELSE 1)])
Back(screen, index) == Step(At(app, screen, index))
Chosen(index) == app.menu_index = index

\* The loop ends and drops everything.
Exit ==
    /\ app' = [Start EXCEPT !.should_quit = TRUE]
    /\ config' = DefaultConfig /\ edit' = NoEdit /\ action' = None

Quit == Idle /\ Exit

-----------------------------------------------------------------------------
(* The handlers, one per screen *)

HandleWelcome ==
    /\ On("Welcome")
    /\ \/ Menu(3)
       \/ Chosen(0) /\ Step(StartNewModelFlow(app))
       \/ Chosen(1) /\ Back("LoadPlan", 0)
       \/ app.menu_index > 1 /\ Exit

HandleLoadPlan ==
    /\ On("LoadPlan")
    /\ \/ Back("Welcome", 1)
       \/ Request([app EXCEPT !.screen = "Analyzing"], [kind |-> "LoadPlan"])

HandleModelInput ==
    /\ On("ModelInput")
    /\ \/ \E path \in Models \cup {""} : Step([app EXCEPT !.model_input = path])
       \/ Back(IF app.model_flow = "LoadedPlan" THEN "LoadPlan" ELSE "Welcome", 0)
       \/ /\ app.model_input # ""
          /\ Request([app EXCEPT !.screen = "Analyzing"], [kind |-> "ValidateModelPath"])

PreferenceFields ==
    <<"Ram", "Mode">> \o (IF config.mode = Advanced THEN AdvancedFields ELSE <<>>)
        \o <<"TestPresetEntry", "Continue">>
PreferenceCount(c) == 4 + IF c.mode = Advanced THEN Len(AdvancedFields) ELSE 0
PreferenceField ==
    PreferenceFields[IF app.menu_index < PreferenceCount(config)
                     THEN app.menu_index + 1 ELSE PreferenceCount(config)]

EditPreferences(c, e) == app' = app /\ config' = c /\ edit' = e /\ UNCHANGED action

ChangePreferenceValue(forward) ==
    \/ PreferenceField = "Ram" /\ EditPreferences(CycleRamPreset(config, forward), edit)
    \/ /\ PreferenceField = "Mode"
       /\ LET c == [config EXCEPT !.mode = NextMode(config, forward)]
          IN  /\ config' = c
              /\ app' = [app EXCEPT !.menu_index =
                            IF @ >= PreferenceCount(c) THEN PreferenceCount(c) - 1 ELSE @]
              /\ UNCHANGED <<edit, action>>

\* Continue starts over with the new preferences.
ContinueToAnalysis ==
    /\ ProfileBuilds(config)
    /\ app' = [DropRuntime(app) EXCEPT !.user = UserProfile(config), !.session = None,
                       !.plan = None, !.persisted = None,
                       !.compatibility = None, !.plan_origin = "NewPlan",
                       !.model_flow = "NewPlan", !.screen = "Analyzing"]
    /\ action' = [kind |-> "Analyze"]
    /\ edit' = [edit EXCEPT !.preference = FALSE]
    /\ UNCHANGED config

HandlePreferences ==
    /\ On("Preferences") /\ ~edit.preference
    /\ \/ Menu(PreferenceCount(config))
       \/ \E forward \in BOOLEAN : ChangePreferenceValue(forward)
       \/ Back("ModelInput", 0)
       \/ /\ \/ PreferenceField = "Ram" /\ config.ram_preset = CustomRam
             \/ PreferenceField \in TextFields
          /\ EditPreferences(config, [edit EXCEPT !.preference = TRUE])
       \/ /\ PreferenceField = "TestPresetEntry"
          /\ \E index \in 0..CustomTest : Back("TestPreset", index)
       \/ PreferenceField = "Continue" /\ ContinueToAnalysis

HandlePreferenceEdit ==
    /\ On("Preferences") /\ edit.preference
    /\ \/ \E text \in RamTexts :
             /\ PreferenceField = "Ram"
             /\ EditPreferences(EditRam(config, text), edit)
       \/ \E bad \in {{}, {PreferenceField}} :
             /\ PreferenceField \in TextFields 
             /\ EditPreferences([config EXCEPT !.bad_texts = (@ \ {PreferenceField}) \cup bad], edit)
       \/ \E index \in {app.menu_index, (app.menu_index + 1) % PreferenceCount(config),
                        Cycle(app.menu_index, PreferenceCount(config), FALSE)} :
             /\ app' = [app EXCEPT !.menu_index = index]
             /\ config' = SyncRamFromInput(config)
             /\ edit' = [edit EXCEPT !.preference = FALSE]
             /\ UNCHANGED action

HandleTestPreset ==
    /\ On("TestPreset")
    /\ \/ Menu(CustomTest + 1)
       \/ Back("Preferences", PreferenceCount(config) - 2)
       \/ LET c == ApplyTestPreset(config, IF app.menu_index < CustomTest THEN app.menu_index ELSE CustomTest)
          IN  /\ config' = c
              /\ app' = At(app, "Preferences", PreferenceCount(c) - 1)
              /\ UNCHANGED <<edit, action>>

HandleModelInfo ==
    /\ On("ModelInfo")
    /\ \/ Toggle
       \/ Chosen(0) /\ Step(At(app, "CalibrationSelect", app.calibration_index))
       \/ /\ app' = At(app, "Preferences", 0)
          /\ edit' = [edit EXCEPT !.preference = FALSE]
          /\ UNCHANGED <<config, action>>

HandleCalibrationSelect ==
    /\ On("CalibrationSelect")
    /\ \/ Menu(Levels)
       \/ Back("ModelInfo", 0)
       \/ LET a == [app EXCEPT !.calibration_index = app.menu_index]
          IN  IF app.menu_index = 0
              THEN Request([a EXCEPT !.screen = "Analyzing"], [kind |-> "CreatePlan"])
              ELSE Request([a EXCEPT !.screen = "Calibrating", !.calibration_complete = FALSE],
                           [kind |-> "RunCalibration"])

HandleCalibrating ==
    /\ On("Calibrating")
    /\ \/ Back("CalibrationSelect", app.calibration_index)
       \/ /\ app.calibration_complete
          /\ Request([app EXCEPT !.screen = "Analyzing"], [kind |-> "CreatePlan"])

ValidateRequested == Request([app EXCEPT !.screen = "PlanValidation"], [kind |-> "ValidatePlan"])

HandlePlanReview ==
    /\ On("PlanReview") /\ app.plan_origin = "NewPlan"
    /\ \/ Toggle
       \/ Back("CalibrationSelect", app.calibration_index)
       \/ Chosen(0) /\ ValidateRequested
       \/ /\ ~Chosen(0)
          /\ app' = At(app, "Preferences", 0)
          /\ edit' = [edit EXCEPT !.preference = FALSE]
          /\ UNCHANGED <<config, action>>

ToPlanning ==
    /\ app' = ReturnLoadedModelToPlanning(app)
    /\ config' = ConfigOfLoadedPlan(app, config)
    /\ edit' = [edit EXCEPT !.preference = FALSE]
    /\ UNCHANGED action

HandleLoadedPlanReview ==
    /\ On("PlanReview") /\ app.plan_origin = "LoadedPlan"
    /\ \/ Toggle
       \/ Back("PlanCompatibility", 0)
       \/ Chosen(0) /\ app.compatibility \notin {None, "Incompatible"} /\ ValidateRequested
       \/ Chosen(0) /\ app.compatibility \in {None, "Incompatible"} /\ Back("PlanCompatibility", 0)
       \/ ~Chosen(0) /\ ToPlanning

HandlePlanValid ==
    /\ On("PlanValid")
    /\ \/ Menu(IF app.plan_origin = "LoadedPlan" THEN 2 ELSE 3)
       \/ Step(ReturnFromRuntimeActivation(app))
       \/ Chosen(0) /\ Request([app EXCEPT !.screen = "RuntimeActivation"],
                               [kind |-> "ActivateRuntime"])
       \/ /\ app.plan_origin = "NewPlan" /\ Chosen(1)
          /\ Step([app EXCEPT !.screen = "SavePlan"])

HandlePlanCompatibility ==
    /\ On("PlanCompatibility")
    /\ \/ Menu(3)
       \/ Back("LoadPlan", 0)
       \/ Chosen(0) /\ Back("PlanReview", 0)
       \/ Chosen(1) /\ ToPlanning
       \/ app.menu_index > 1 /\ Step(StartNewModelFlow(app))

HandleSavePlan ==
    /\ On("SavePlan")
    /\ \/ Back("PlanValid", 0)
       \/ Request(app, [kind |-> "SavePlan"])

-----------------------------------------------------------------------------
(* The review of the run and its max-tokens editor *)

MaxMaxTokens == IF app.runtime = None THEN 1000000 ELSE Caps[app.runtime.model]

\* Mutant: the review is left with the runtime still there.
BackToPlanValidKeeping ==
    /\ app' = At(app, "PlanValid", 0)
    /\ edit' = [edit EXCEPT !.tokens = FALSE, !.backup = None]
    /\ UNCHANGED <<config, action>>

BackToPlanValid ==
    /\ app' = At([app EXCEPT !.runtime = None], "PlanValid", 0)
    /\ edit' = [edit EXCEPT !.tokens = FALSE, !.backup = None]
    /\ UNCHANGED <<config, action>>

HandleReviewConfig ==
    /\ On("ReviewConfig") /\ ~edit.tokens
    /\ \/ Menu(3)
       \/ Chosen(0) /\ \E forward \in BOOLEAN :
             EditPreferences(CycleMaxTokensPreset(config, forward), edit)
       \/ /\ Chosen(0) /\ config.tokens_preset = CustomTokens
          /\ EditPreferences(StartCustomMaxTokensEdit(config),
                [edit EXCEPT !.tokens = TRUE,
                             !.backup = <<config.custom_tokens, config.max_tokens>>])
       \/ Chosen(1) /\ config.max_tokens > 0
                    /\ Back("GenerationInput", 0)
       \/ BackToPlanValid

HandleMaxTokensEdit ==
    /\ On("ReviewConfig") /\ edit.tokens
    /\ \/ \E digit \in Digits :
             EditPreferences(EditCustomMaxTokensCharacter(config, digit, MaxMaxTokens), edit)
       \/ EditPreferences(EditCustomMaxTokensBackspace(config), edit)
       \/ EditPreferences([config EXCEPT !.custom_tokens = edit.backup[1],
                                         !.max_tokens = edit.backup[2]],
                          [edit EXCEPT !.tokens = FALSE, !.backup = None])
       \/ /\ CanCommit(config, MaxMaxTokens)
          /\ \E index \in {app.menu_index, (app.menu_index + 1) % 3, Cycle(app.menu_index, 3, FALSE)} :
                app' = [app EXCEPT !.menu_index = index]
          /\ config' = CommitCustomMaxTokens(config)
          /\ edit' = [edit EXCEPT !.tokens = FALSE, !.backup = None]
          /\ UNCHANGED action

HandleGenerationInput ==
    /\ On("GenerationInput")
    /\ \/ Back("ReviewConfig", 1)
       \/ /\ config.max_tokens > 0
          /\ Request([app EXCEPT !.screen = "GenerationRunning"],
                     [kind |-> "GeneratePrompt", max_tokens |-> config.max_tokens])

-----------------------------------------------------------------------------
(* Results, history, comparison, export *)

ToExport(a, id) == At([a EXCEPT !.selected = id], "ExportPath", 0)

HandleGenerationResult ==
    /\ On("GenerationResult")
    /\ \/ Menu(4)
       \/ Step(LeaveRuntimeSession(app))
       \/ Chosen(0) /\ Back("GenerationInput", 0)
       \/ Chosen(1) /\ Back("RunHistory", 0)
       \/ Chosen(2) /\ Step(ToExport(app, IF app.history = <<>> THEN app.selected
                                                ELSE Last(app.history)))

HandleRunHistory ==
    /\ On("RunHistory")
    /\ \/ Menu(Len(app.history) + 2)
       \/ Back("GenerationResult", 0)
       \/ /\ app.menu_index < Len(app.history)
          /\ Step(At([app EXCEPT !.selected = app.history[app.menu_index + 1]], "RunDetail", 0))
       \/ /\ Chosen(Len(app.history)) /\ Len(app.history) >= 2
          /\ Step(At([app EXCEPT !.compare_first = None, !.comparison = None],
                     "RunCompareSelect", 0))

HandleRunDetail ==
    /\ On("RunDetail")
    /\ \/ Toggle
       \/ Back("RunHistory", 0)
       \/ ~Chosen(0) /\ Step(ToExport(app, app.selected))

HandleRunCompareSelect ==
    /\ On("RunCompareSelect")
    /\ \/ Menu(Len(app.history) + 1)
       \/ app.compare_first # None /\ Step([app EXCEPT !.compare_first = None])
       \/ app.compare_first = None /\ Back("RunHistory", 0)
       \/ app.menu_index >= Len(app.history) /\ Back("RunHistory", 0)
       \/ /\ app.menu_index < Len(app.history)
          /\ LET id == app.history[app.menu_index + 1]
             IN  \/ app.compare_first = None /\ Step([app EXCEPT !.compare_first = id])
                 \/ app.compare_first = id /\ Step([app EXCEPT !.compare_first = None])
                 \/ /\ app.compare_first \notin {None, id}
                    /\ {app.compare_first, id} \subseteq ToSet(app.history)
                    /\ Step(At([app EXCEPT !.comparison = <<app.compare_first, id>>],
                               "RunCompare", 0))

HandleRunCompare ==
    /\ On("RunCompare")
    /\ Step(At([app EXCEPT !.comparison = None, !.compare_first = None], "RunHistory", 0))

AfterExport(a) ==
    At(a, IF a.selected = None THEN "GenerationResult" ELSE "RunDetail", 0)

HandleExportPath ==
    /\ On("ExportPath")
    /\ \/ Step(AfterExport(app))
       \/ /\ app.selected # None \/ app.history # <<>>
          /\ Request(app, [kind |-> "ExportRun", id |-> IF app.selected # None THEN app.selected
                                                            ELSE Last(app.history)])

HandleError ==
    /\ On("Error")
    /\ Step(At([app EXCEPT !.error_return = "Welcome"], app.error_return, 0))

-----------------------------------------------------------------------------
(* Executing the requested action *)

Requested(kind) == action # None /\ action.kind = kind
Finish(a) == app' = a /\ action' = None /\ UNCHANGED <<config, edit>>

LoadFinished ==
    /\ Requested("LoadPlan")
    /\ \/ \E plan \in SavedPlans :
             Finish(At([app EXCEPT !.persisted = plan,
                           !.compatibility = None, !.plan = None, !.session = None,
                           !.model_input = "", !.model_flow = "LoadedPlan",
                           !.plan_origin = "LoadedPlan"], "ModelInput", 0))
       \/ Finish(ShowError(app, "LoadPlan"))

\* Mutant: the screen changes, the action that should follow is lost.
ModelPathValidationFinishedOnly ==
    /\ Requested("ValidateModelPath")
    /\ IF app.model_flow = "LoadedPlan" THEN Finish(At(app, "Analyzing", 0))
       ELSE Finish(At(app, "Preferences", 0))

\* A loaded plan is analyzed at once: the next action follows in the same call.
ModelPathValidationFinished ==
    /\ Requested("ValidateModelPath")
    /\ \/ /\ app.model_flow = "LoadedPlan"
          /\ app' = At(app, "Analyzing", 0)
          /\ action' = [kind |-> "AnalyzeLoadedPlan"]
          /\ UNCHANGED <<config, edit>>
       \/ /\ app.model_flow = "NewPlan"
          /\ app' = At(app, "Preferences", 0)
          /\ edit' = [edit EXCEPT !.preference = FALSE]
          /\ action' = None
          /\ UNCHANGED config
       \/ Finish(ShowError(app, "ModelInput"))

AnalysisFinished ==
    /\ Requested("Analyze")
    /\ \E result \in IF app.user = None THEN {Err("Input")} ELSE Analyze(app.model_input, app.user.ram) :
          Finish(IF result.ok THEN At([app EXCEPT !.session = result.value], "ModelInfo", 0)
                 ELSE ShowError(app, "Preferences"))

\* The report comes from the fingerprints: another model is incompatible.
Reports(session, persisted) ==
    IF session.model = persisted.model THEN {"Compatible", "RecalibrationRecommended"}
    ELSE {"Incompatible"}

LoadedAnalysisFinished ==
    /\ Requested("AnalyzeLoadedPlan")
    /\ \E result \in IF app.persisted = None THEN {Err("Input")}
                     ELSE Analyze(app.model_input, app.persisted.ram) \cup {Err("Materialize")} :
          IF ~result.ok THEN Finish(ShowError(app, "ModelInput"))
          ELSE \E report \in Reports(result.value, app.persisted) :
                 Finish(At([app EXCEPT !.session = result.value, !.compatibility = report,
                               !.plan = [model |-> app.persisted.model, ram |-> app.persisted.ram,
                                         mode |-> app.persisted.mode],
                               !.plan_origin = "LoadedPlan"], "PlanCompatibility", 0))

CalibrationFinished ==
    /\ Requested("RunCalibration")
    /\ \/ /\ app.user # None /\ app.session # None
          /\ Finish([app EXCEPT !.calibration_complete = TRUE, !.screen = "Calibrating"])
       \/ Finish(ShowError(app, "CalibrationSelect"))

PlanningFinished ==
    /\ Requested("CreatePlan")
    /\ \E result \in IF app.user = None \/ app.session = None THEN {Err("Input")}
                     ELSE CreatePlan(app.session, app.user) :
          Finish(IF result.ok
                 THEN At([app EXCEPT !.plan = result.value, !.plan_origin = "NewPlan"], "PlanReview", 0)
                 ELSE ShowError(app, "CalibrationSelect"))

PlanValidationFinished ==
    /\ Requested("ValidatePlan")
    /\ \E result \in IF app.session = None \/ app.plan = None THEN {Err("Input")}
                     ELSE CompilePlan(app.session, app.plan) :
          IF result.ok THEN Finish(At(app, "PlanValid", 0))
          ELSE Finish([app EXCEPT !.screen = "PlanReview"])

RuntimeActivationFinished ==
    /\ Requested("ActivateRuntime")
    /\ \E r \in IF app.session = None \/ app.plan = None
                THEN {[result |-> Err("Input"), session |-> app.session]}
                ELSE ActivatePlan(app.session, app.plan) :
          IF r.result.ok
          THEN /\ app' = At([app EXCEPT !.session = r.session, !.runtime = r.result.value],
                          "ReviewConfig", 1)
               /\ edit' = [edit EXCEPT !.tokens = FALSE, !.backup = None]
               /\ action' = None
               /\ UNCHANGED config
          ELSE Finish(ShowError([app EXCEPT !.session = r.session], "PlanReview"))

NextRunId(history) ==
    1 + (IF history = <<>> THEN 0 ELSE CHOOSE n \in ToSet(history) : \A m \in ToSet(history) : m <= n)

\* The oldest runs go when there are too many.
Remembered(history, id) ==
    LET all == Append(history, id)
    IN  SubSeq(all, 1 + (IF Len(all) > MaxHistory THEN Len(all) - MaxHistory ELSE 0), Len(all))

\* What generate_prompt may return: it needs the runtime, which may fail.  The
\* counters it keeps for the display and the diagnostics are left out.
GeneratePrompt(a) ==
    IF a.runtime = None THEN {Err("Input")} ELSE {Ok(NextRunId(a.history)), Err("Generation")}

GenerationFinished ==
    /\ Requested("GeneratePrompt")
    /\ \E result \in GeneratePrompt(app) :
          IF result.ok
          THEN /\ result.value <= MaxRuns
               /\ Finish(At([app EXCEPT !.history = Remembered(app.history, result.value),
                                        !.selected = result.value], "GenerationResult", 0))
          ELSE Finish(ShowError(app, "GenerationInput"))

\* save_plan: a file that exists is refused, and so is a plan that is not there.
SavePlanTo(a) ==
    IF a.plan = None THEN {Err("Input")}
    ELSE {Ok(a.plan), Err("Persistence"), Err("DestinationExists")}

SaveFinished ==
    /\ Requested("SavePlan")
    /\ \E result \in SavePlanTo(app) :
          IF result.ok THEN Finish(At(app, "PlanValid", 0))
          ELSE Finish([app EXCEPT !.screen = "SavePlan"])

\* export_run: only a run that is still remembered can be written.
ExportRun(a, id) ==
    IF id \in ToSet(a.history) THEN {Ok(id), Err("Generation")} ELSE {Err("Input")}

ExportFinished ==
    /\ Requested("ExportRun")
    /\ \E result \in ExportRun(app, action.id) :
          IF result.ok THEN Finish(AfterExport(app))
          ELSE Finish([app EXCEPT !.screen = "ExportPath"])

ExecuteAction ==
    \/ LoadFinished \/ ModelPathValidationFinished \/ AnalysisFinished
    \/ LoadedAnalysisFinished \/ CalibrationFinished \/ PlanningFinished
    \/ PlanValidationFinished \/ RuntimeActivationFinished \/ GenerationFinished
    \/ SaveFinished \/ ExportFinished

\* The loop ends with an I/O error of the terminal.
TerminalFails == ~app.should_quit /\ Exit

Handle ==
    \/ HandleWelcome \/ HandleLoadPlan \/ HandleModelInput \/ HandlePreferences
    \/ HandlePreferenceEdit \/ HandleTestPreset \/ HandleModelInfo
    \/ HandleCalibrationSelect \/ HandleCalibrating \/ HandlePlanReview
    \/ HandleLoadedPlanReview \/ HandlePlanValid \/ HandlePlanCompatibility
    \/ HandleSavePlan \/ HandleReviewConfig \/ HandleMaxTokensEdit
    \/ HandleGenerationInput \/ HandleGenerationResult \/ HandleRunHistory
    \/ HandleRunDetail \/ HandleRunCompareSelect \/ HandleRunCompare
    \/ HandleExportPath \/ HandleError \/ Quit

Next == Handle \/ ExecuteAction \/ TerminalFails

Spec == Init /\ [][Next]_vars

-----------------------------------------------------------------------------
RuntimeScreens ==
    {"ReviewConfig", "GenerationInput", "GenerationRunning", "GenerationResult",
     "RunHistory", "RunDetail", "RunCompareSelect", "RunCompare", "ExportPath"}

\* Whatever way leads there, the screens of a run have a runtime, it is the
\* one built from the plan that is shown, for the model that was analyzed and
\* not from a plan reported incompatible; on every other screen but an error
\* that leads back there is none, so no model stays in memory behind a menu
\* (leave_runtime_session, start_new_model_flow, handle_review_config).
RuntimeMatchesPlan ==
    LET current == IF app.screen = "Error" THEN app.error_return ELSE app.screen
    IN  /\ (app.runtime # None) <=> (current \in RuntimeScreens)
        /\ app.runtime # None =>
              /\ app.session # None /\ app.runtime = app.plan
              /\ app.plan.model = app.session.model
              /\ app.compatibility # "Incompatible"

\* A screen that ignores every key always has an action in flight that will
\* replace it (handle's last case, execute_action).
NeverStuck == app.screen \in Busy /\ ~app.should_quit => action # None

\* The number of items of a screen's menu.
MenuItems(screen) ==
    CASE screen \in {"Welcome", "ReviewConfig", "PlanCompatibility"} -> 3
      [] screen = "Preferences" -> PreferenceCount(config)
      [] screen = "TestPreset" -> CustomTest + 1
      [] screen \in {"ModelInfo", "PlanReview", "RunDetail"} -> 2
      [] screen = "CalibrationSelect" -> Levels
      [] screen = "GenerationResult" -> 4
      [] screen = "PlanValid" -> IF app.plan_origin = "LoadedPlan" THEN 2 ELSE 3
      [] screen = "RunHistory" -> Len(app.history) + 2
      [] OTHER -> Len(app.history) + 1

\* The cursor is on an item of the screen's menu, run ids stay distinct when
\* old runs are forgotten, and what is selected, compared or exported is a
\* run that is still there (generation_finished_diagnostic, next_run_id,
\* handle_run_compare_select, handle_export_path).
SelectionsExist ==
    LET runs == ToSet(app.history)
    IN  /\ app.screen \in Menus => app.menu_index < MenuItems(app.screen)
        /\ Cardinality(runs) = Len(app.history)
        /\ app.selected \in runs \cup {None}
        /\ app.screen = "RunCompareSelect" => app.compare_first \in runs \cup {None}
        /\ app.comparison # None =>
              app.comparison[1] # app.comparison[2] /\ ToSet(app.comparison) \subseteq runs
        /\ Requested("ExportRun") => action.id \in runs

\* Outside its editor the number of tokens a run would use is the one the
\* selected preset shows, and a requested run has at least one
\* (cycle_max_tokens_preset, cancel_custom_max_tokens_edit).
TokensAreThoseShown ==
    /\ ~edit.tokens =>
          config.max_tokens = IF config.tokens_preset = CustomTokens THEN config.custom_tokens
                              ELSE TokensPresets[config.tokens_preset + 1]
    /\ Requested("GeneratePrompt") => action.max_tokens > 0

\* The plan screen offers to activate the runtime only where that can work:
\* a runtime construction error is recoverable (app.rs, the test
\* runtime_construction_errors_are_distinct_and_recoverable).
PlanValidCanActivate == app.screen = "PlanValid" => app.session.source

\* What the user sees is what there is: the runtime of the plan on the screen,
\* runs and menu items that exist, and the number of tokens that will be used.
ScreenMatchesSession == RuntimeMatchesPlan /\ SelectionsExist /\ TokensAreThoseShown
=============================================================================
