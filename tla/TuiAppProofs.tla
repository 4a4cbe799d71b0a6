---------------------------- MODULE TuiAppProofs ----------------------------
(***************************************************************************)
(* The terminal interface for every list of presets, models and saved      *)
(* plans, every number of runs and every way in which keys are pressed and *)
(* requested actions end.  The inductive invariant has four parts: where   *)
(* the interface is and what it waits for, what the session holds there,   *)
(* where its cursor and selections are, and the number of tokens.          *)
(***************************************************************************)
EXTENDS TuiApp, FiniteSetTheorems, SequenceTheorems, TLAPS

\* The screen behind an error line.
Current == IF app.screen = "Error" THEN app.error_return ELSE app.screen

\* The screens an error line can return to.
ErrorReturns == {"Welcome", "LoadPlan", "ModelInput", "Preferences", "CalibrationSelect",
                 "PlanReview", "GenerationInput"}

\* The screens of a plan that is being made.
PlanningScreens == {"Preferences", "TestPreset", "ModelInfo", "CalibrationSelect", "Calibrating"}

\* The screen on which an action is requested and executed.
ScreenOf(kind) ==
    CASE kind \in {"LoadPlan", "ValidateModelPath", "Analyze", "AnalyzeLoadedPlan", "CreatePlan"} -> "Analyzing"
      [] kind = "RunCalibration"  -> "Calibrating"
      [] kind = "ValidatePlan"    -> "PlanValidation"
      [] kind = "ActivateRuntime" -> "RuntimeActivation"
      [] kind = "GeneratePrompt"  -> "GenerationRunning"
      [] kind = "SavePlan"        -> "SavePlan"
      [] kind = "ExportRun"       -> "ExportPath"
      [] OTHER                    -> "nowhere"

\* Where the interface is, and the action it waits for: a screen that ignores
\* keys has one, and an action in flight belongs to the screen that shows it.
Places ==
    /\ app.error_return \in ErrorReturns
    /\ app.model_flow \in {"NewPlan", "LoadedPlan"} /\ app.plan_origin = app.model_flow
    /\ Current \in PlanningScreens => app.plan_origin = "NewPlan"
    /\ app.screen \in Busy => action # None
    /\ action # None =>
          /\ app.screen = ScreenOf(action.kind)
          /\ action.kind \in {"Analyze", "RunCalibration", "CreatePlan"} => app.plan_origin = "NewPlan"
          /\ action.kind = "AnalyzeLoadedPlan" => app.plan_origin = "LoadedPlan"

\* What the session and the settings hold.
Texts == RamValues \cup {""}
Held ==
    /\ config.ram_input \in Texts /\ config.custom_ram \in Texts /\ config.ram_preset \in 0..CustomRam
    /\ app.model_input \in Models \cup {""}
    /\ app.user # None => app.user.ram \in Texts
    /\ app.persisted # None => app.persisted \in SavedPlans
    /\ app.session # None => app.session \in Sessions
    /\ app.compatibility = "Incompatible" =>
          app.plan_origin = "LoadedPlan" /\ app.plan.model # app.session.model

\* Runs are numbered upwards.
Selected ==
    /\ app.history \in Seq(Nat)
    /\ \A i, j \in 1..Len(app.history) : i < j => app.history[i] < app.history[j]
    /\ app.menu_index \in Nat
    /\ app.calibration_index \in 0..(Levels - 1)
    /\ app.screen = "PlanValidation" => app.menu_index = 0
    /\ app.comparison # None => app.screen = "RunCompare"

\* The numbers of tokens, and what the editor will restore.
Tokens ==
    /\ config.tokens_preset \in 0..CustomTokens
    /\ config.custom_tokens \in Nat /\ config.max_tokens \in Nat
    /\ edit.tokens \in BOOLEAN
    /\ edit.tokens =>
          /\ app.screen = "ReviewConfig" /\ config.tokens_preset = CustomTokens
          /\ edit.backup[1] \in Nat /\ edit.backup[2] = edit.backup[1]

\* The fields of the application's record and of its settings.
Fields == {"screen", "menu_index", "should_quit", "model_input", "model_flow", "plan_origin",
           "error_return", "user", "session", "calibration_complete", "calibration_index",
           "plan", "persisted", "compatibility", "runtime", "history", "selected",
           "compare_first", "comparison"}
ConfigFields == {"ram_preset", "ram_input", "custom_ram", "mode", "bad_texts",
                 "tokens_preset", "max_tokens", "custom_tokens"}

\* The initial records have these fields.
LEMMA StartFields ==
  /\ DOMAIN Start = Fields /\ DOMAIN NoEdit = {"preference", "tokens", "backup"}
  /\ DOMAIN DefaultConfig = ConfigFields
BY DEF Start, Fields, ConfigFields, NoEdit, DefaultConfig

\* The cursor is on an item of the menu.
CursorFits == app.screen \in Menus => app.menu_index < MenuItems(app.screen)

\* The first three parts of the invariant, with what they are needed for.
AppInv == /\ DOMAIN app = Fields /\ DOMAIN config = ConfigFields
          /\ Places /\ Held /\ Selected
          /\ RuntimeMatchesPlan /\ SelectionsExist

\* A move between screens: what the session holds stays.
Moves ==
    /\ DOMAIN app' = Fields
    /\ app'.model_flow = app.model_flow /\ app'.plan_origin = app.plan_origin
    /\ app'.user = app.user /\ app'.session = app.session /\ app'.plan = app.plan
    /\ app'.persisted = app.persisted /\ app'.compatibility = app.compatibility
    /\ app'.runtime = app.runtime /\ app'.history = app.history
    /\ app'.compare_first = app.compare_first /\ app'.comparison = app.comparison
    /\ UNCHANGED config

\* Where a move may lead.
Fits ==
    /\ app'.error_return \in ErrorReturns
    /\ app'.model_input \in Models \cup {""}
    /\ app'.calibration_index \in 0..(Levels - 1)
    /\ app'.selected \in ToSet(app.history) \cup {None}
    /\ Current' \in PlanningScreens => app.plan_origin = "NewPlan"
    /\ Current' \in RuntimeScreens <=> Current \in RuntimeScreens
    /\ app'.menu_index \in Nat /\ CursorFits'
    /\ app'.screen = "PlanValidation" => app'.menu_index = 0
    /\ app'.screen = "RunCompareSelect" => app.compare_first \in ToSet(app.history) \cup {None}
    /\ app.comparison # None => app'.screen = "RunCompare"
    /\ app'.screen \in Busy => action' # None
    /\ action' # None =>
          /\ app'.screen = ScreenOf(action'.kind)
          /\ action'.kind \in {"Analyze", "RunCalibration", "CreatePlan"} => app.plan_origin = "NewPlan"
          /\ action'.kind = "AnalyzeLoadedPlan" => app.plan_origin = "LoadedPlan"
          /\ action'.kind = "ExportRun" => action'.id \in ToSet(app.history)

\* A move that fits keeps the invariant.
LEMMA MoveKeeps == ASSUME AppInv, Moves, Fits PROVE AppInv'
<1>1. Places' BY DEF AppInv, Places, Moves, Fits
<1>2. Held' BY DEF AppInv, Held, Moves, Fits
<1>3. Selected'
   <2>1. app'.history = app.history BY DEF Moves
   <2>2. app'.history \in Seq(Nat) BY <2>1 DEF AppInv, Selected
   <2>3. \A i, j \in 1..Len(app'.history) : i < j => app'.history[i] < app'.history[j]
     BY <2>1, Zenon DEF AppInv, Selected
   <2>4. app'.menu_index \in Nat
    /\ app'.calibration_index \in 0..(Levels - 1)
    /\ (app'.screen = "PlanValidation" => app'.menu_index = 0)
    /\ (app'.comparison # None => app'.screen = "RunCompare")
     BY DEF Moves, Fits
   <2> QED BY <2>2, <2>3, <2>4 DEF Selected
<1>4. RuntimeMatchesPlan' BY DEF AppInv, RuntimeMatchesPlan, Moves, Fits, Current
<1>5. SelectionsExist'
  <2>1. ToSet(app'.history) = ToSet(app.history) BY DEF Moves
  <2>2. CursorFits' BY DEF Fits
  <2>3. Requested("ExportRun")' => action'.id \in ToSet(app'.history) BY <2>1 DEF Fits, Requested
  <2>4. Cardinality(ToSet(app'.history)) = Len(app'.history) BY DEF Moves, AppInv, SelectionsExist
  <2>5. app'.selected \in ToSet(app'.history) \cup {None} BY <2>1 DEF Fits
  <2>6. app'.screen = "RunCompareSelect" => app'.compare_first \in ToSet(app'.history) \cup {None}
       BY <2>1 DEF Fits, Moves
  <2>7. app'.comparison # None =>
              app'.comparison[1] # app'.comparison[2] /\ ToSet(app'.comparison) \subseteq ToSet(app'.history)
       BY <2>1 DEF AppInv, SelectionsExist, Moves
  <2> QED BY <2>2, <2>3, <2>4, <2>5, <2>6, <2>7 DEF SelectionsExist, CursorFits
<1>6. DOMAIN app' = Fields /\ DOMAIN config' = ConfigFields BY DEF AppInv, Moves
<1> QED BY <1>1, <1>2, <1>3, <1>4, <1>5, <1>6 DEF AppInv

\* A step from an idle screen to another one.
LEMMA MoveFits ==
  ASSUME AppInv, app.comparison = None,
         NEW s, NEW i \in Nat, app' = At(app, s, i), action' = None, UNCHANGED config,
         s \notin Busy \cup {"Error", "RunCompareSelect"},
         s \in PlanningScreens => app.plan_origin = "NewPlan",
         s \in RuntimeScreens <=> Current \in RuntimeScreens,
         s \in Menus => i < MenuItems(s)
  PROVE  AppInv'
<1>1. /\ DOMAIN app' = Fields /\ app'.screen = s /\ app'.menu_index = i /\ action' = None /\ UNCHANGED config
      /\ \A f \in Fields \ {"screen", "menu_index"} : app'[f] = app[f]
  BY DEF AppInv, At, Fields
<1>2. Moves BY <1>1 DEF Moves, Fields
<1>3. MenuItems(s)' = MenuItems(s) BY <1>1 DEF MenuItems, Fields, PreferenceCount
<1>4. CursorFits' BY <1>1, <1>3 DEF CursorFits
<1>5. Current' = s BY <1>1 DEF Current
<1>6. Fits
   BY <1>1, <1>4, <1>5 DEF Fits, Fields, AppInv, Places, Held, Selected, SelectionsExist, Busy
<1> QED BY <1>2, <1>6, MoveKeeps

\* A step back to a screen.
LEMMA BackFits ==
  ASSUME AppInv, action = None, app.comparison = None,
         NEW s, NEW i \in Nat, Back(s, i),
         s \notin Busy \cup {"Error", "RunCompareSelect"},
         s \in PlanningScreens => app.plan_origin = "NewPlan",
         s \in RuntimeScreens <=> Current \in RuntimeScreens,
         s \in Menus => i < MenuItems(s)
  PROVE  AppInv'
BY MoveFits DEF Back, Step

\* The cursor moves.
LEMMA CursorMoves ==
  ASSUME AppInv, action = None, app.comparison = None, app.screen \in Menus,
         NEW i \in Nat, i < MenuItems(app.screen),
         app' = [app EXCEPT !.menu_index = i], UNCHANGED <<config, action>>
  PROVE  AppInv'
<1>2. /\ DOMAIN app' = Fields /\ app'.menu_index = i /\ action' = None /\ UNCHANGED config
      /\ \A f \in Fields \ {"menu_index"} : app'[f] = app[f]
  BY DEF AppInv, Fields
<1>3. Moves BY <1>2 DEF Moves, Fields
<1>4. MenuItems(app.screen)' = MenuItems(app.screen) BY <1>2 DEF MenuItems, Fields, PreferenceCount
<1>5. CursorFits' BY <1>2, <1>4 DEF CursorFits, Fields
<1>6. Current' = Current BY <1>2 DEF Current, Fields
<1>7. Fits
   BY <1>2, <1>5, <1>6 DEF Fits, Fields, AppInv, Places, Held, Selected, SelectionsExist, Busy, Menus
<1> QED BY <1>3, <1>7, MoveKeeps

\* Up and Down
LEMMA MenuFits ==
  ASSUME AppInv, action = None, app.comparison = None,
         app.screen \in Menus, NEW n \in Nat, n = MenuItems(app.screen), Menu(n)
  PROVE  AppInv'
<1>0. app.menu_index \in Nat /\ app.menu_index < n BY DEF AppInv, Selected, SelectionsExist
<1>1. PICK i \in Nat : i < n /\ app' = [app EXCEPT !.menu_index = i] /\ UNCHANGED <<config, action>>
  <2>1. CASE Step([app EXCEPT !.menu_index = IF @ = 0 THEN n - 1 ELSE @ - 1])
     BY <1>0, <2>1 DEF Step
  <2>2. CASE Step([app EXCEPT !.menu_index = (@ + 1) % n])
     <3> DEFINE j == (app.menu_index + 1) % n
     <3>1. j \in Nat /\ j < n BY <1>0
     <3>2. app' = [app EXCEPT !.menu_index = j] /\ UNCHANGED <<config, action>> BY <2>2 DEF Step
     <3> QED BY <3>1, <3>2
  <2> QED BY <2>1, <2>2 DEF Menu
<1> QED BY <1>1, CursorMoves

\* In a menu of two items every arrow goes to the other one.
LEMMA ToggleFits ==
  ASSUME AppInv, action = None, app.comparison = None, app.screen \in Menus, MenuItems(app.screen) = 2, Toggle
  PROVE  AppInv'
<1>1. PICK i \in {0, 1} : app' = [app EXCEPT !.menu_index = i] /\ UNCHANGED <<config, action>>
  BY DEF Toggle, Step
<1>2. i \in Nat /\ i < 2 OBVIOUS
<1> QED BY <1>1, <1>2, CursorMoves

\* A requested action: the screen on which it is executed ignores the keys.
LEMMA RequestFits ==
  ASSUME AppInv, action = None, app.comparison = None,
         NEW r \in Requests, app.screen \notin {"Error", "PlanValidation"},
         NEW a, Request(a, r), DOMAIN a = Fields,
         \A f \in Fields \ {"screen", "calibration_index", "calibration_complete"} : a[f] = app[f],
         a.screen = ScreenOf(r.kind),
         a.screen = "PlanValidation" => app.menu_index = 0,
         a.calibration_index \in 0..(Levels - 1),
         r.kind \in {"Analyze", "RunCalibration", "CreatePlan"} => app.plan_origin = "NewPlan",
         r.kind # "AnalyzeLoadedPlan",
         r.kind = "ExportRun" => r.id \in ToSet(app.history),
         a.screen \in RuntimeScreens <=> Current \in RuntimeScreens
  PROVE  AppInv'
<1>1. app' = a /\ action' = r /\ UNCHANGED config BY DEF Request
<1>2. Moves BY <1>1 DEF Moves, Fields
<1>3. ScreenOf(r.kind) \notin Menus BY DEF ScreenOf, Menus
<1>4. CursorFits' BY <1>1, <1>3 DEF CursorFits
<1>5. ScreenOf(r.kind) \notin {"Error", "Preferences", "TestPreset", "ModelInfo", "CalibrationSelect", "RunCompareSelect"}
  BY DEF ScreenOf
<1>6. Current' = a.screen BY <1>1, <1>5 DEF Current
<1>7. ScreenOf(r.kind) = "Calibrating" => r.kind = "RunCalibration" BY DEF ScreenOf
<1>8. r # None BY NoneAssumption DEF Requests
<1>9. Fits
   BY <1>1, <1>4, <1>5, <1>6, <1>7, <1>8
      DEF Fits, Fields, AppInv, Places, Held, Selected, SelectionsExist, PlanningScreens
<1> QED BY <1>2, <1>9, MoveKeeps

\* The empty history.
LEMMA NoRuns == /\ <<>> \in Seq(Nat) /\ Len(<<>>) = 0 /\ ToSet(<<>>) = {} /\ Cardinality({}) = 0
<1>1. <<>> \in Seq(Nat) /\ Len(<<>>) = 0 BY EmptySeq
<1>2. \A i : i \notin 1..Len(<<>>) BY <1>1
<1>3. ToSet(<<>>) = {} BY DEF ToSet
<1> QED BY <1>1, <1>2, <1>3, FS_EmptySet

\* Where the loop begins and ends nothing is held.
Fresh == /\ app = Start \/ app = [Start EXCEPT !.should_quit = TRUE]
         /\ config = DefaultConfig /\ edit = NoEdit /\ action = None

\* A new session satisfies the invariant.
LEMMA FreshFits == Fresh => AppInv
<1> SUFFICES ASSUME Fresh PROVE AppInv OBVIOUS
<1>1. /\ app.screen = "Welcome" /\ app.menu_index = 0 /\ app.error_return = "Welcome"
      /\ app.model_flow = "NewPlan" /\ app.plan_origin = "NewPlan" /\ app.model_input = ""
      /\ app.user = None /\ app.session = None /\ app.persisted = None /\ app.compatibility = None
      /\ app.runtime = None /\ app.selected = None /\ app.comparison = None
      /\ app.calibration_index = 0 /\ action = None /\ config = DefaultConfig
      /\ DOMAIN app = Fields
  <2>1. CASE app = Start BY <2>1 DEF Fresh, Start, Fields
  <2>2. CASE app = [Start EXCEPT !.should_quit = TRUE] BY <2>2, StartFields DEF Fresh, Start, Fields
  <2> QED BY <2>1, <2>2 DEF Fresh
<1>9. app.history = <<>>
  <2>1. CASE app = Start BY <2>1 DEF Start
  <2>2. CASE app = [Start EXCEPT !.should_quit = TRUE] BY <2>2 DEF Start
  <2> QED BY <2>1, <2>2 DEF Fresh
<1>2. Places
  <2>1. Current = "Welcome" BY <1>1 DEF Current
  <2> QED BY <1>1, <2>1 DEF Places, ErrorReturns, PlanningScreens, Busy
<1>3. Held
  <2>1. 1 \in DOMAIN RamPresets /\ 0 \in 0..CustomRam BY ConfigAssumption
  <2>2. RamPresets[1] \in Texts /\ "" \in Texts BY <2>1 DEF Texts, RamValues
  <2>3. config.ram_input = RamPresets[1] /\ config.custom_ram = "" /\ config.ram_preset = 0
     BY <1>1 DEF DefaultConfig
  <2>4. None # "Incompatible" BY NoneAssumption
  <2>5. config.ram_input \in Texts /\ config.custom_ram \in Texts /\ config.ram_preset \in 0..CustomRam
     BY <2>1, <2>2, <2>3
  <2> QED BY <1>1, <2>4, <2>5 DEF Held
<1>4. Selected
  <2>1. app.history \in Seq(Nat) BY <1>9, NoRuns
  <2>2. \A i, j \in 1..Len(app.history) : i < j => app.history[i] < app.history[j]
    <3>1. Len(app.history) = 0 BY <1>9, NoRuns
    <3> QED BY <3>1
  <2>3. 0 \in 0..(Levels - 1) BY TuiAssumption
  <2>4. app.menu_index \in Nat /\ app.screen # "PlanValidation" /\ app.comparison = None
    <3>1. app.menu_index = 0 BY <1>1
    <3>2. app.screen = "Welcome" BY <1>1
    <3>3. app.comparison = None BY <1>1
    <3>4. app.menu_index \in Nat BY <3>1
    <3>5. app.screen # "PlanValidation" BY <3>2
    <3> QED BY <3>3, <3>4, <3>5
  <2>5. app.calibration_index \in 0..(Levels - 1) BY <1>1, <2>3
  <2> QED BY <2>1, <2>2, <2>4, <2>5 DEF Selected
<1>5. RuntimeMatchesPlan
  <2>1. Current = "Welcome" BY <1>1 DEF Current
  <2> QED BY <1>1, <2>1 DEF RuntimeMatchesPlan, RuntimeScreens
<1>6. ToSet(app.history) = {} /\ Len(app.history) = 0 BY <1>9, NoRuns
<1>7. Cardinality({}) = 0 BY NoRuns
<1>8. SelectionsExist
  <2>3. MenuItems("Welcome") = 3 BY DEF MenuItems
  <2>1. CursorFits
    <3>1. app.menu_index = 0 BY <1>1
    <3>2. app.screen = "Welcome" BY <1>1
    <3> QED BY <3>1, <3>2, <2>3 DEF CursorFits
  <2>2. ~Requested("ExportRun") BY <1>1 DEF Requested
  <2> QED BY <1>1, <1>6, <1>7, <2>1, <2>2 DEF SelectionsExist, CursorFits
<1> QED BY <1>1, <1>2, <1>3, <1>4, <1>5, <1>8, StartFields DEF AppInv, Fresh

\* So does the session after an exit (exit_application).
LEMMA ExitFits == ASSUME Exit PROVE AppInv'
<1>1. Fresh' BY DEF Exit, Fresh
<1>2. (Fresh => AppInv)' BY FreshFits, PTL
<1> QED BY <1>1, <1>2

\* A step that ends without a runtime.
LEMMA DropFits ==
  ASSUME AppInv, app.comparison = None,
         DOMAIN app' = Fields, DOMAIN config' = ConfigFields,
         app'.runtime = None, app'.history = app.history, app'.selected = app.selected,
         app'.comparison = None,
         app'.calibration_index \in 0..(Levels - 1),
         Places', Held', app'.menu_index \in Nat, CursorFits',
         app'.screen = "PlanValidation" => app'.menu_index = 0,
         app'.screen # "RunCompareSelect",
         Current' \notin RuntimeScreens, ~Requested("ExportRun")'
  PROVE  AppInv'
<1>1. app'.history \in Seq(Nat) BY DEF AppInv, Selected
<1>2. \A i, j \in 1..Len(app'.history) : i < j => app'.history[i] < app'.history[j]
  BY Zenon DEF AppInv, Selected
<1>3. Selected' BY <1>1, <1>2 DEF Selected
<1>4. RuntimeMatchesPlan' BY DEF RuntimeMatchesPlan, Current
<1>5. Cardinality(ToSet(app'.history)) = Len(app'.history) /\ app'.selected \in ToSet(app'.history) \cup {None}
  BY DEF AppInv, SelectionsExist
<1>6. SelectionsExist' BY <1>5 DEF SelectionsExist, CursorFits
<1> QED BY <1>3, <1>4, <1>6 DEF AppInv

\* Starting anew keeps nothing but the runs (start_new_session).
LEMMA StartNewFits ==
  ASSUME AppInv, app.comparison = None, action = None, Step(StartNewModelFlow(app))
  PROVE  AppInv'
<1>1. /\ DOMAIN app' = Fields /\ app'.screen = "ModelInput" /\ app'.menu_index = 0
      /\ app'.model_flow = "NewPlan" /\ app'.plan_origin = "NewPlan" /\ app'.model_input = ""
      /\ app'.session = None /\ app'.persisted = None /\ app'.compatibility = None
      /\ app'.runtime = None
      /\ \A f \in Fields \ {"screen", "menu_index", "model_flow", "plan_origin", "model_input", "session", "persisted",
                            "compatibility", "runtime", "plan"} : app'[f] = app[f]
      /\ UNCHANGED <<config, action>>
  BY DEF AppInv, StartNewModelFlow, DropRuntime, Step, At, Fields
<1>2. /\ app'.history = app.history /\ app'.selected = app.selected /\ app'.comparison = app.comparison
      /\ app'.calibration_index = app.calibration_index /\ app'.error_return = app.error_return
      /\ app'.user = app.user
   BY <1>1 DEF Fields
<1>3. Current' = "ModelInput" /\ app'.screen \notin Menus BY <1>1 DEF Current, Menus
<1>4. Places' BY <1>1, <1>2, <1>3 DEF AppInv, Places, PlanningScreens, Busy
<1>5. Held' BY <1>1, <1>2, NoneAssumption DEF AppInv, Held
<1>6. CursorFits' BY <1>3 DEF CursorFits
<1>7. ~Requested("ExportRun")' BY <1>1 DEF Requested
<1>8. app'.calibration_index \in 0..(Levels - 1) BY <1>2 DEF AppInv, Selected
<1>9. Current' \notin RuntimeScreens BY <1>3 DEF RuntimeScreens
<1>10. app'.comparison = None BY <1>2
<1>11. DOMAIN config' = ConfigFields BY <1>1 DEF AppInv
<1>12. app'.menu_index \in Nat
  <2>1. app'.menu_index = 0 BY <1>1
  <2> QED BY <2>1
<1>13. app'.screen \notin {"RunCompareSelect", "PlanValidation"} BY <1>1
<1> QED BY <1>1, <1>2, <1>4, <1>5, <1>6, <1>7, <1>8, <1>9, <1>10, <1>11, <1>12, <1>13, DropFits

\* A request changes the screen and waits for its action.
LEMMA ScreenRequestFits ==
  ASSUME AppInv, action = None, app.comparison = None,
         NEW r \in Requests, app.screen \notin {"Error", "PlanValidation"},
         NEW s, s = ScreenOf(r.kind),
         Request([app EXCEPT !.screen = s], r),
         s = "PlanValidation" => app.menu_index = 0,
         r.kind \in {"Analyze", "RunCalibration", "CreatePlan"} => app.plan_origin = "NewPlan",
         r.kind \notin {"AnalyzeLoadedPlan", "ExportRun"},
         s \in RuntimeScreens <=> Current \in RuntimeScreens
  PROVE  AppInv'
<1> DEFINE a == [app EXCEPT !.screen = s]
<1>1. DOMAIN a = Fields /\ a.screen = s /\ \A f \in Fields \ {"screen"} : a[f] = app[f]
  BY DEF AppInv, Fields
<1>2. a.calibration_index \in 0..(Levels - 1) BY <1>1 DEF Fields, AppInv, Selected
<1>3. Request(a, r) OBVIOUS
<1> HIDE DEF a
<1> QED BY <1>1, <1>2, <1>3, RequestFits

\* The welcome screen.
LEMMA WelcomeFits == ASSUME AppInv, HandleWelcome PROVE AppInv'
<1>1. app.screen = "Welcome" /\ action = None /\ app.comparison = None /\ MenuItems(app.screen) = 3
      /\ app.screen \in Menus /\ Current = "Welcome"
  BY DEF HandleWelcome, On, Idle, AppInv, Selected, MenuItems, Menus, Current
<1>2. CASE Menu(3) BY <1>1, <1>2, MenuFits
<1>3. CASE Step(StartNewModelFlow(app)) BY <1>1, <1>3, StartNewFits
<1>4. CASE Back("LoadPlan", 0) BY <1>1, <1>4, BackFits DEF Menus, Busy, PlanningScreens, RuntimeScreens
<1>5. CASE Exit BY <1>5, ExitFits
<1> QED BY <1>2, <1>3, <1>4, <1>5 DEF HandleWelcome

\* The path of a saved plan.
LEMMA LoadPlanFits == ASSUME AppInv, HandleLoadPlan PROVE AppInv'
<1>1. app.screen = "LoadPlan" /\ action = None /\ app.comparison = None /\ Current = "LoadPlan"
  BY DEF HandleLoadPlan, On, Idle, AppInv, Selected, Current
<1>2. CASE Back("Welcome", 1)
  <2>1. MenuItems("Welcome") = 3 BY DEF MenuItems
  <2> QED BY <1>1, <1>2, <2>1, BackFits DEF Menus, Busy, PlanningScreens, RuntimeScreens
<1>3. CASE Request([app EXCEPT !.screen = "Analyzing"], [kind |-> "LoadPlan"])
  <2>1. [kind |-> "LoadPlan"] \in Requests BY DEF Requests
  <2> QED BY <1>1, <1>3, <2>1, ScreenRequestFits DEF RuntimeScreens, ScreenOf
<1> QED BY <1>2, <1>3 DEF HandleLoadPlan

\* The memory settings of a configuration are among the texts it can hold.
RamOK(c) == /\ DOMAIN c = ConfigFields
            /\ c.ram_input \in Texts /\ c.custom_ram \in Texts /\ c.ram_preset \in 0..CustomRam

\* A step that changes the settings and the cursor only.
LEMMA ConfigFits ==
  ASSUME AppInv, action = None, UNCHANGED action, RamOK(config'),
         app.comparison = None,
         NEW s, NEW i \in Nat, DOMAIN app' = Fields, app'.screen = s, app'.menu_index = i,
         \A f \in Fields \ {"screen", "menu_index"} : app'[f] = app[f],
         \/ s = "Preferences" /\ app.screen \in {"Preferences", "TestPreset"}
         \/ s = "ReviewConfig" /\ app.screen = "ReviewConfig",
         i < MenuItems(s)'
  PROVE  AppInv'
<1>1. /\ app'.history = app.history /\ app'.selected = app.selected /\ app'.comparison = app.comparison
      /\ app'.calibration_index = app.calibration_index /\ app'.error_return = app.error_return
      /\ app'.user = app.user /\ app'.model_flow = app.model_flow /\ app'.plan_origin = app.plan_origin
      /\ app'.model_input = app.model_input /\ app'.persisted = app.persisted /\ app'.session = app.session
      /\ app'.plan = app.plan /\ app'.compatibility = app.compatibility /\ app'.runtime = app.runtime
   BY DEF Fields
<1>2. Current' = s /\ Current = app.screen /\ app'.screen \notin Busy BY DEF Current, Busy
<1>3. (s \in RuntimeScreens <=> Current \in RuntimeScreens) /\ (s \in PlanningScreens => Current \in PlanningScreens)
   BY <1>2 DEF RuntimeScreens, PlanningScreens
<1>4. Places' BY <1>1, <1>2, <1>3 DEF AppInv, Places
<1>5. Held' BY <1>1 DEF AppInv, Held, RamOK
<1>6. app'.history \in Seq(Nat) BY <1>1 DEF AppInv, Selected
<1>7. \A k, j \in 1..Len(app'.history) : k < j => app'.history[k] < app'.history[j]
  BY <1>1, Zenon DEF AppInv, Selected
<1>8. app'.calibration_index \in 0..(Levels - 1) BY <1>1 DEF AppInv, Selected
<1>9. app'.menu_index \in Nat OBVIOUS
<1>10. app'.screen # "PlanValidation" /\ app'.comparison = None BY <1>1
<1>11. Selected' BY <1>6, <1>7, <1>8, <1>9, <1>10 DEF Selected
<1>12. RuntimeMatchesPlan' BY <1>1, <1>2, <1>3 DEF AppInv, RuntimeMatchesPlan, Current
<1>13. CursorFits' BY DEF CursorFits
<1>14. Cardinality(ToSet(app'.history)) = Len(app'.history) /\ app'.selected \in ToSet(app'.history) \cup {None}
  BY <1>1 DEF AppInv, SelectionsExist
<1>15. ~Requested("ExportRun")' BY DEF Requested
<1>16. SelectionsExist' BY <1>10, <1>13, <1>14, <1>15 DEF SelectionsExist, CursorFits
<1>17. DOMAIN config' = ConfigFields BY DEF RamOK
<1> QED BY <1>4, <1>5, <1>11, <1>12, <1>16, <1>17 DEF AppInv

\* The settings of the state are such a configuration.
LEMMA ConfigRam == AppInv => RamOK(config) BY DEF AppInv, Held, RamOK

\* The presets are texts.
LEMMA PresetText == \A i \in 0..(CustomRam - 1) : RamPresets[i + 1] \in Texts
<1> SUFFICES ASSUME NEW i \in 0..(CustomRam - 1) PROVE RamPresets[i + 1] \in Texts OBVIOUS
<1>1. i + 1 \in DOMAIN RamPresets BY ConfigAssumption
<1> QED BY <1>1 DEF Texts, RamValues

\* Cycling stays in range (cycle_index).
LEMMA CycleRange == ASSUME NEW n \in Nat \ {0}, NEW i \in 0..(n - 1), NEW forward
                    PROVE Cycle(i, n, forward) \in 0..(n - 1)
<1>1. (i + 1) % n \in 0..(n - 1) OBVIOUS
<1>2. i + n - 1 \in Nat OBVIOUS
<1>3. (i + n - 1) % n \in 0..(n - 1) BY <1>2
<1> QED BY <1>1, <1>3 DEF Cycle

\* A memory preset keeps the settings sound (set_ram_preset).
LEMMA WithRamPresetOK ==
  ASSUME NEW c, RamOK(c), NEW i \in 0..CustomRam
  PROVE  RamOK(WithRamPreset(c, i)) /\ WithRamPreset(c, i).mode = c.mode
<1> DEFINE text == IF i = CustomRam THEN c.custom_ram ELSE RamPresets[i + 1]
<1>0. CustomRam \in Nat BY ConfigAssumption
<1>1. text \in Texts BY <1>0, PresetText DEF RamOK
<1>2. WithRamPreset(c, i) = [c EXCEPT !.ram_preset = i, !.ram_input = text] BY DEF WithRamPreset
<1> HIDE DEF text
<1>3. /\ DOMAIN WithRamPreset(c, i) = ConfigFields /\ WithRamPreset(c, i).ram_preset = i
      /\ WithRamPreset(c, i).ram_input = text
      /\ WithRamPreset(c, i).custom_ram = c.custom_ram /\ WithRamPreset(c, i).mode = c.mode
   BY <1>2 DEF RamOK, ConfigFields
<1>4. i \in 0..CustomRam OBVIOUS
<1> QED BY <1>1, <1>3, <1>4 DEF RamOK

\* So does cycling through the presets.
LEMMA CycleRamOK ==
  ASSUME NEW c, RamOK(c), NEW forward
  PROVE  RamOK(CycleRamPreset(c, forward)) /\ CycleRamPreset(c, forward).mode = c.mode
<1>1. Cycle(c.ram_preset, CustomRam + 1, forward) \in 0..CustomRam
  <2>1. CustomRam + 1 \in Nat \ {0} /\ (CustomRam + 1) - 1 = CustomRam BY ConfigAssumption
  <2> QED BY <2>1, CycleRange DEF RamOK
<1> QED BY <1>1, WithRamPresetOK DEF CycleRamPreset

\* So does editing the text.
LEMMA EditRamOK ==
  ASSUME NEW c, RamOK(c), NEW text \in RamTexts
  PROVE  RamOK(EditRam(c, text)) /\ EditRam(c, text).mode = c.mode
BY DEF EditRam, RamOK, ConfigFields, Texts, RamValues

\* So does taking the preset from the text.
LEMMA SyncRamOK ==
  ASSUME NEW c, RamOK(c)
  PROVE  RamOK(SyncRamFromInput(c)) /\ SyncRamFromInput(c).mode = c.mode
BY DEF SyncRamFromInput, RamOK, ConfigFields

\* So does a test preset (apply_test_preset).
LEMMA TestPresetOK ==
  ASSUME NEW c, RamOK(c), NEW i \in 0..CustomTest
  PROVE  RamOK(ApplyTestPreset(c, i))
<1>1. CASE i = CustomTest BY <1>1 DEF ApplyTestPreset
<1>2. CASE i # CustomTest
  <2>1. i + 1 \in DOMAIN TestPresets BY <1>2, ConfigAssumption
  <2>2. TestPresets[i + 1].ram_preset \in 0..CustomRam BY <2>1, ConfigAssumption
  <2>3. PICK d : d = WithRamPreset(c, TestPresets[i + 1].ram_preset) /\ RamOK(d)
    BY <2>2, WithRamPresetOK
  <2>4. PICK m, t, u : ApplyTestPreset(c, i) = [d EXCEPT !.mode = m, !.tokens_preset = t, !.max_tokens = u, !.bad_texts = {}]
    BY <1>2, <2>3 DEF ApplyTestPreset
  <2> QED BY <2>3, <2>4 DEF RamOK, ConfigFields
<1> QED BY <1>1, <1>2

\* The sizes of the settings menus, before and after a step.
LEMMA Counts == /\ PreferenceCount(config) \in Nat /\ PreferenceCount(config) >= 4
                /\ PreferenceCount(config') \in Nat /\ PreferenceCount(config') >= 4
                /\ MenuItems("Preferences") = PreferenceCount(config)
                /\ MenuItems("Preferences")' = PreferenceCount(config')
                /\ CustomTest \in Nat /\ MenuItems("TestPreset") = CustomTest + 1
BY ConfigAssumption DEF PreferenceCount, MenuItems, CustomTest

\* The path of a model.
LEMMA ModelInputFits == ASSUME AppInv, HandleModelInput PROVE AppInv'
<1>1. app.screen = "ModelInput" /\ action = None /\ app.comparison = None /\ Current = "ModelInput"
  BY DEF HandleModelInput, On, Idle, AppInv, Selected, Current
<1>2. ASSUME NEW path \in Models \cup {""}, Step([app EXCEPT !.model_input = path]) PROVE AppInv'
  <2>1. /\ DOMAIN app' = Fields /\ app'.model_input = path /\ \A f \in Fields \ {"model_input"} : app'[f] = app[f]
        /\ UNCHANGED <<config, action>>
    BY <1>2 DEF Step, AppInv, Fields
  <2>2. Moves BY <2>1 DEF Moves, Fields
  <2>3. Current' = "ModelInput" /\ app'.screen = "ModelInput" /\ app'.screen \notin Menus \cup Busy
     BY <1>1, <2>1 DEF Current, Fields, Menus, Busy
  <2>4. CursorFits' BY <2>3 DEF CursorFits
  <2>5. Fits
     BY <1>1, <2>1, <2>3, <2>4 DEF Fits, Fields, AppInv, Places, Held, Selected, SelectionsExist,
        PlanningScreens, RuntimeScreens
  <2> QED BY <2>2, <2>5, MoveKeeps
<1>3. CASE Back(IF app.model_flow = "LoadedPlan" THEN "LoadPlan" ELSE "Welcome", 0)
  <2>1. MenuItems("Welcome") = 3 BY DEF MenuItems
  <2>2. CASE Back("LoadPlan", 0)
    BY <1>1, <2>2, <2>1, BackFits DEF Menus, Busy, PlanningScreens, RuntimeScreens
  <2>3. CASE Back("Welcome", 0)
    BY <1>1, <2>3, <2>1, BackFits DEF Menus, Busy, PlanningScreens, RuntimeScreens
  <2> QED BY <1>3, <2>2, <2>3
<1>4. CASE Request([app EXCEPT !.screen = "Analyzing"], [kind |-> "ValidateModelPath"])
  <2>1. [kind |-> "ValidateModelPath"] \in Requests BY DEF Requests
  <2> QED BY <1>1, <1>4, <2>1, ScreenRequestFits DEF RuntimeScreens, ScreenOf
<1> QED BY <1>2, <1>3, <1>4 DEF HandleModelInput

\* The settings change and the cursor stays.
LEMMA EditFits ==
  ASSUME AppInv, action = None, NEW c, NEW e, EditPreferences(c, e), RamOK(c), app.comparison = None,
         app.screen \in {"Preferences", "ReviewConfig"},
         app.screen = "Preferences" => c.mode = config.mode
  PROVE  AppInv'
<1>1. app' = app /\ config' = c /\ UNCHANGED action BY DEF EditPreferences
<1>2. app.menu_index < MenuItems(app.screen) /\ app.menu_index \in Nat
  BY DEF AppInv, SelectionsExist, Menus, Selected
<1>3. app.menu_index < MenuItems(app.screen)'
  <2>1. CASE app.screen = "Preferences"
    <3>1. PreferenceCount(c) = PreferenceCount(config) BY <2>1 DEF PreferenceCount
    <3>2. MenuItems(app.screen) = PreferenceCount(config) /\ MenuItems(app.screen)' = PreferenceCount(c)
      BY <1>1, <2>1, Counts
    <3> QED BY <1>2, <3>1, <3>2
  <2>2. CASE app.screen = "ReviewConfig"
    <3>1. MenuItems(app.screen) = 3 /\ MenuItems(app.screen)' = 3 BY <1>1, <2>2 DEF MenuItems
    <3> QED BY <1>2, <3>1
  <2> QED BY <2>1, <2>2
<1>4. DOMAIN app' = Fields BY <1>1 DEF AppInv
<1> QED BY <1>1, <1>2, <1>3, <1>4, ConfigFits

\* The settings and the cursor change.
LEMMA EditMoveFits ==
  ASSUME AppInv, action = None, UNCHANGED action, app.comparison = None,
         app.screen \in {"Preferences", "TestPreset"},
         RamOK(config'), NEW i \in Nat, i < PreferenceCount(config'),
         app' = At(app, "Preferences", i) \/ (app.screen = "Preferences" /\ app' = [app EXCEPT !.menu_index = i])
  PROVE  AppInv'
<1>1. /\ DOMAIN app' = Fields /\ app'.screen = "Preferences" /\ app'.menu_index = i
      /\ \A f \in Fields \ {"screen", "menu_index"} : app'[f] = app[f]
  BY DEF AppInv, Fields, At
<1>2. i < MenuItems("Preferences")' BY Counts
<1> QED BY <1>1, <1>2, ConfigFits

\* Going on to the analysis drops the session and the runtime.
LEMMA ContinueFits ==
  ASSUME AppInv, action = None, app.comparison = None, app.screen = "Preferences", ContinueToAnalysis
  PROVE AppInv'
<1>1. /\ DOMAIN app' = Fields /\ app'.screen = "Analyzing"
      /\ app'.model_flow = "NewPlan" /\ app'.plan_origin = "NewPlan"
      /\ app'.session = None /\ app'.persisted = None /\ app'.compatibility = None
      /\ app'.runtime = None /\ app'.user = UserProfile(config)
      /\ \A f \in Fields \ {"screen", "model_flow", "plan_origin", "session", "persisted", "user",
                            "compatibility", "runtime", "plan"} : app'[f] = app[f]
      /\ UNCHANGED config /\ action' = [kind |-> "Analyze"]
  BY DEF AppInv, ContinueToAnalysis, DropRuntime, Fields
<1>2. /\ app'.history = app.history /\ app'.selected = app.selected /\ app'.comparison = app.comparison
      /\ app'.calibration_index = app.calibration_index /\ app'.error_return = app.error_return
      /\ app'.model_input = app.model_input /\ app'.menu_index = app.menu_index
   BY <1>1 DEF Fields
<1>3. Current' = "Analyzing" /\ app'.screen \notin Menus /\ "Analyzing" \notin RuntimeScreens
   BY <1>1 DEF Current, Menus, RuntimeScreens
<1>4. action'.kind = "Analyze" /\ action' \in Requests BY <1>1 DEF Requests
<1>5. Places' BY <1>1, <1>2, <1>3, <1>4, NoneAssumption DEF AppInv, Places, PlanningScreens, Busy, ScreenOf
<1>6. app'.user.ram \in Texts
  <2>1. app'.user = UserProfile(config) BY <1>1
  <2>2. UserProfile(config).ram = config.ram_input BY DEF UserProfile
  <2>3. config.ram_input \in Texts BY DEF AppInv, Held
  <2> QED BY <2>1, <2>2, <2>3
<1>7. Held' BY <1>1, <1>2, <1>6, NoneAssumption DEF AppInv, Held
<1>8. CursorFits' BY <1>3 DEF CursorFits
<1>9. ~Requested("ExportRun")' BY <1>4 DEF Requested
<1>10. app'.calibration_index \in 0..(Levels - 1) BY <1>2 DEF AppInv, Selected
<1>11. app'.comparison = None BY <1>2
<1>12. DOMAIN config' = ConfigFields BY <1>1 DEF AppInv
<1>13. app'.menu_index \in Nat BY <1>2 DEF AppInv, Selected
<1>14. app'.screen \notin {"RunCompareSelect", "PlanValidation"} BY <1>1
<1> QED BY <1>1, <1>2, <1>3, <1>5, <1>7, <1>8, <1>9, <1>10, <1>11, <1>12, <1>13, <1>14, DropFits

\* A change of the mode keeps the cursor on the shorter or longer menu.
LEMMA ModeFits ==
  ASSUME AppInv, action = None, app.comparison = None, app.screen = "Preferences",
         NEW m, config' = [config EXCEPT !.mode = m],
         app' = [app EXCEPT !.menu_index = IF @ >= PreferenceCount(config') THEN PreferenceCount(config') - 1 ELSE @],
         UNCHANGED <<edit, action>>
  PROVE AppInv'
<1> DEFINE i == IF app.menu_index >= PreferenceCount(config') THEN PreferenceCount(config') - 1 ELSE app.menu_index
<1>1. app.menu_index \in Nat BY DEF AppInv, Selected
<1>2. i \in Nat /\ i < PreferenceCount(config')
  <2>1. PreferenceCount(config') \in Nat /\ PreferenceCount(config') >= 4 BY Counts
  <2>2. CASE app.menu_index >= PreferenceCount(config')
    <3>1. i = PreferenceCount(config') - 1 BY <2>2
    <3> HIDE DEF i
    <3> QED BY <2>1, <3>1
  <2>3. CASE ~(app.menu_index >= PreferenceCount(config'))
    <3>1. i = app.menu_index BY <2>3
    <3> HIDE DEF i
    <3> QED BY <1>1, <2>1, <2>3, <3>1
  <2> QED BY <2>2, <2>3
<1>3. app' = [app EXCEPT !.menu_index = i] OBVIOUS
<1>4. RamOK(config') BY ConfigRam DEF RamOK, ConfigFields
<1> HIDE DEF i
<1> QED BY <1>2, <1>3, <1>4, EditMoveFits

\* The settings.
LEMMA PreferencesFits == ASSUME AppInv, HandlePreferences PROVE AppInv'
<1>1. app.screen = "Preferences" /\ action = None /\ app.comparison = None /\ Current = "Preferences"
       /\ app.screen \in Menus
  BY DEF HandlePreferences, On, Idle, AppInv, Selected, Current, Menus
<1>0. app.plan_origin = "NewPlan" BY <1>1 DEF AppInv, Places, PlanningScreens
<1>2. CASE Menu(PreferenceCount(config)) BY <1>1, <1>2, MenuFits, Counts
<1>3. ASSUME NEW forward \in BOOLEAN, ChangePreferenceValue(forward) PROVE AppInv'
  <2>1. CASE EditPreferences(CycleRamPreset(config, forward), edit)
    BY <1>1, <2>1, ConfigRam, CycleRamOK, EditFits
  <2>2. CASE LET c == [config EXCEPT !.mode = NextMode(config, forward)]
          IN  /\ config' = c
              /\ app' = [app EXCEPT !.menu_index =
                            IF @ >= PreferenceCount(c) THEN PreferenceCount(c) - 1 ELSE @]
              /\ UNCHANGED <<edit, action>>
    BY <1>1, <2>2, ModeFits
  <2> QED BY <1>3, <2>1, <2>2 DEF ChangePreferenceValue
<1>4. CASE Back("ModelInput", 0)
  BY <1>1, <1>4, BackFits DEF Menus, Busy, PlanningScreens, RuntimeScreens
<1>5. CASE EditPreferences(config, [edit EXCEPT !.preference = TRUE])
  BY <1>1, <1>5, ConfigRam, EditFits
<1>6. ASSUME NEW index \in 0..CustomTest, Back("TestPreset", index) PROVE AppInv'
  <2>1. index \in Nat /\ index < MenuItems("TestPreset") BY Counts
  <2> QED BY <1>0, <1>1, <1>6, <2>1, BackFits DEF Busy, RuntimeScreens
<1>7. CASE ContinueToAnalysis BY <1>1, <1>7, ContinueFits
<1> QED BY <1>2, <1>3, <1>4, <1>5, <1>6, <1>7 DEF HandlePreferences

\* The editor of the settings.
LEMMA PreferenceEditFits == ASSUME AppInv, HandlePreferenceEdit PROVE AppInv'
<1>1. app.screen = "Preferences" /\ action = None /\ app.comparison = None
  BY DEF HandlePreferenceEdit, On, Idle, AppInv, Selected
<1>2. ASSUME NEW text \in RamTexts, EditPreferences(EditRam(config, text), edit) PROVE AppInv'
  BY <1>1, <1>2, ConfigRam, EditRamOK, EditFits
<1>3. ASSUME NEW bad, EditPreferences([config EXCEPT !.bad_texts = bad], edit) PROVE AppInv'
  <2> DEFINE c == [config EXCEPT !.bad_texts = bad]
  <2>1. RamOK(c) /\ c.mode = config.mode BY ConfigRam DEF RamOK, ConfigFields
  <2>2. EditPreferences(c, edit) BY <1>3
  <2> HIDE DEF c
  <2> QED BY <1>1, <2>1, <2>2, EditFits
<1>4. ASSUME NEW index \in {app.menu_index, (app.menu_index + 1) % PreferenceCount(config),
                        Cycle(app.menu_index, PreferenceCount(config), FALSE)},
             app' = [app EXCEPT !.menu_index = index], config' = SyncRamFromInput(config), UNCHANGED action
      PROVE AppInv'
  <2>1. RamOK(config') /\ config'.mode = config.mode BY <1>4, ConfigRam, SyncRamOK
  <2>2. PreferenceCount(config') = PreferenceCount(config) BY <2>1 DEF PreferenceCount
  <2>3. app.menu_index \in 0..(PreferenceCount(config) - 1)
     BY <1>1, Counts DEF AppInv, Selected, SelectionsExist, Menus
  <2>4. (app.menu_index + 1) % PreferenceCount(config) \in 0..(PreferenceCount(config) - 1) BY <2>3, Counts
  <2>5. Cycle(app.menu_index, PreferenceCount(config), FALSE) \in 0..(PreferenceCount(config) - 1)
    <3>1. PreferenceCount(config) \in Nat \ {0} BY Counts
    <3>2. FALSE \in BOOLEAN OBVIOUS
    <3> QED BY <2>3, <3>1, CycleRange
  <2>6. index \in 0..(PreferenceCount(config) - 1) BY <1>4, <2>3, <2>4, <2>5
  <2>7. index \in Nat /\ index < PreferenceCount(config') BY <2>2, <2>6, Counts
  <2> QED BY <1>1, <1>4, <2>1, <2>7, EditMoveFits
<1>5. ASSUME NEW text \in RamTexts, PreferenceField = "Ram", EditPreferences(EditRam(config, text), edit)
  PROVE AppInv'
  BY <1>2, <1>5
<1>6. ASSUME NEW bad \in {{}, {PreferenceField}},
             EditPreferences([config EXCEPT !.bad_texts = (@ \ {PreferenceField}) \cup bad], edit)
               PROVE AppInv'
               BY <1>3, <1>6
<1>7. CASE \E index \in {app.menu_index, (app.menu_index + 1) % PreferenceCount(config),
                        Cycle(app.menu_index, PreferenceCount(config), FALSE)} :
             /\ app' = [app EXCEPT !.menu_index = index]
             /\ config' = SyncRamFromInput(config)
             /\ edit' = [edit EXCEPT !.preference = FALSE]
             /\ UNCHANGED action
   BY <1>4, <1>7
<1> QED BY <1>5, <1>6, <1>7, Zenon DEF HandlePreferenceEdit

\* The test presets.
LEMMA TestPresetFits == ASSUME AppInv, HandleTestPreset PROVE AppInv'
<1>1. app.screen = "TestPreset" /\ action = None /\ app.comparison = None /\ Current = "TestPreset"
       /\ app.screen \in Menus
  BY DEF HandleTestPreset, On, Idle, AppInv, Selected, Current, Menus
<1>0. app.plan_origin = "NewPlan" BY <1>1 DEF AppInv, Places, PlanningScreens
<1>2. CASE Menu(CustomTest + 1) BY <1>1, <1>2, MenuFits, Counts
<1>3. CASE Back("Preferences", PreferenceCount(config) - 2)
  <2>1. PreferenceCount(config) - 2 \in Nat /\ PreferenceCount(config) - 2 < MenuItems("Preferences")
    BY Counts
  <2> QED BY <1>0, <1>1, <1>3, <2>1, BackFits DEF Busy, RuntimeScreens
<1>4. ASSUME NEW i, i = IF app.menu_index < CustomTest THEN app.menu_index ELSE CustomTest,
             config' = ApplyTestPreset(config, i), app' = At(app, "Preferences", PreferenceCount(config') - 1),
             UNCHANGED action
      PROVE AppInv'
  <2>1. app.menu_index \in Nat BY DEF AppInv, Selected
  <2>2. i \in 0..CustomTest BY <1>4, <2>1, Counts
  <2>3. RamOK(config') BY <1>4, <2>2, ConfigRam, TestPresetOK
  <2>4. PreferenceCount(config') - 1 \in Nat /\ PreferenceCount(config') - 1 < PreferenceCount(config')
    BY Counts
  <2> QED BY <1>1, <1>4, <2>3, <2>4, EditMoveFits
<1> QED BY <1>2, <1>3, <1>4 DEF HandleTestPreset

\* A loaded model goes back to planning, without its saved plan.
LEMMA ToPlanningFits ==
  ASSUME AppInv, action = None, app.comparison = None, app.screen \notin RuntimeScreens, ToPlanning
  PROVE AppInv'
<1>1. /\ DOMAIN app' = Fields /\ app'.screen = "Preferences" /\ app'.menu_index = 0
      /\ app'.model_flow = "NewPlan" /\ app'.plan_origin = "NewPlan"
      /\ app'.persisted = None /\ app'.compatibility = None /\ app'.runtime = None
      /\ \A f \in Fields \ {"screen", "menu_index", "model_flow", "plan_origin", "persisted",
                            "compatibility", "runtime", "plan"} : app'[f] = app[f]
      /\ UNCHANGED action /\ config' = ConfigOfLoadedPlan(app, config)
  BY DEF AppInv, ToPlanning, ReturnLoadedModelToPlanning, DropRuntime, At, Fields
<1>2. /\ app'.history = app.history /\ app'.selected = app.selected /\ app'.comparison = app.comparison
      /\ app'.calibration_index = app.calibration_index /\ app'.error_return = app.error_return
      /\ app'.model_input = app.model_input /\ app'.user = app.user /\ app'.session = app.session
   BY <1>1 DEF Fields
<1>3. Current' = "Preferences" /\ app'.screen \notin Busy /\ "Preferences" \notin RuntimeScreens
   BY <1>1 DEF Current, Busy, RuntimeScreens
<1>5. Places' BY <1>1, <1>2, <1>3 DEF AppInv, Places, PlanningScreens
<1>6. RamOK(config')
  <2>1. CASE app.persisted = None BY <1>1, <2>1, ConfigRam DEF ConfigOfLoadedPlan
  <2>2. CASE app.persisted # None
    <3>1. app.persisted.ram \in Texts BY <2>2 DEF AppInv, Held, Texts, RamValues
    <3>2. config' = [config EXCEPT !.ram_input = app.persisted.ram, !.mode = app.persisted.mode]
      BY <1>1, <2>2 DEF ConfigOfLoadedPlan
    <3> QED BY <3>1, <3>2, ConfigRam DEF RamOK, ConfigFields
  <2> QED BY <2>1, <2>2
<1>7. Held' BY <1>1, <1>2, <1>6, NoneAssumption DEF AppInv, Held, RamOK
<1>8. CursorFits'
  <2>1. 0 < MenuItems("Preferences")' BY Counts
  <2>2. app'.menu_index = 0 /\ app'.screen = "Preferences" BY <1>1
  <2> QED BY <2>1, <2>2 DEF CursorFits
<1>9. ~Requested("ExportRun")' BY <1>1 DEF Requested
<1>10. app'.calibration_index \in 0..(Levels - 1) BY <1>2 DEF AppInv, Selected
<1>11. app'.comparison = None BY <1>2
<1>12. DOMAIN config' = ConfigFields BY <1>6 DEF RamOK
<1>13. app'.menu_index \in Nat
  <2>1. app'.menu_index = 0 BY <1>1
  <2> QED BY <2>1
<1>14. app'.screen \notin {"RunCompareSelect", "PlanValidation"} BY <1>1
<1>15. Current' \notin RuntimeScreens BY <1>3
<1> QED BY <1>1, <1>2, <1>5, <1>7, <1>8, <1>9, <1>10, <1>11, <1>12, <1>13, <1>14, <1>15, DropFits

\* The sizes of the menus that do not depend on the history.
LEMMA Items == /\ MenuItems("ModelInfo") = 2 /\ MenuItems("PlanReview") = 2 /\ MenuItems("RunDetail") = 2
               /\ MenuItems("CalibrationSelect") = Levels /\ Levels \in Nat \ {0}
               /\ MenuItems("GenerationResult") = 4 /\ MenuItems("Welcome") = 3 /\ MenuItems("ReviewConfig") = 3
               /\ MenuItems("PlanCompatibility") = 3
BY TuiAssumption DEF MenuItems

\* The description of the model.
LEMMA ModelInfoFits == ASSUME AppInv, HandleModelInfo PROVE AppInv'
<1>1. app.screen = "ModelInfo" /\ action = None /\ app.comparison = None /\ Current = "ModelInfo"
       /\ app.screen \in Menus
  BY DEF HandleModelInfo, On, Idle, AppInv, Selected, Current, Menus
<1>0. app.plan_origin = "NewPlan" BY <1>1 DEF AppInv, Places, PlanningScreens
<1>2. CASE Toggle BY <1>1, <1>2, ToggleFits, Items
<1>3. CASE Step(At(app, "CalibrationSelect", app.calibration_index))
  <2>1. app.calibration_index \in 0..(Levels - 1) BY DEF AppInv, Selected
  <2>2. app.calibration_index \in Nat /\ app.calibration_index < MenuItems("CalibrationSelect")
    BY <2>1, Items
  <2>3. app' = At(app, "CalibrationSelect", app.calibration_index) /\ UNCHANGED <<config, action>>
    BY <1>3 DEF Step
  <2> QED BY <1>0, <1>1, <2>2, <2>3, MoveFits DEF Busy, RuntimeScreens
<1>4. CASE app' = At(app, "Preferences", 0) /\ UNCHANGED <<config, action>>
  <2>1. 0 < MenuItems("Preferences") BY Counts
  <2> QED BY <1>0, <1>1, <1>4, <2>1, MoveFits DEF Busy, RuntimeScreens
<1> QED BY <1>2, <1>3, <1>4 DEF HandleModelInfo

\* The calibration levels.
LEMMA CalibrationSelectFits == ASSUME AppInv, HandleCalibrationSelect PROVE AppInv'
<1>1. app.screen = "CalibrationSelect" /\ action = None /\ app.comparison = None /\ Current = "CalibrationSelect"
       /\ app.screen \in Menus
  BY DEF HandleCalibrationSelect, On, Idle, AppInv, Selected, Current, Menus
<1>0. app.plan_origin = "NewPlan" BY <1>1 DEF AppInv, Places, PlanningScreens
<1>2. CASE Menu(Levels) BY <1>1, <1>2, MenuFits, Items
<1>3. CASE Back("ModelInfo", 0)
  BY <1>0, <1>1, <1>3, BackFits, Items DEF Busy, RuntimeScreens
<1>4. ASSUME NEW a, NEW r \in Requests, Request(a, r), DOMAIN a = Fields, a.screen = ScreenOf(r.kind),
             r.kind \in {"CreatePlan", "RunCalibration"}, a.calibration_index = app.menu_index,
             \A f \in Fields \ {"screen", "calibration_index", "calibration_complete"} : a[f] = app[f]
      PROVE  AppInv'
  <2>1. app.menu_index \in 0..(Levels - 1) BY <1>1, Items DEF AppInv, Selected, SelectionsExist
  <2>2. a.screen \notin RuntimeScreens /\ a.screen # "PlanValidation" BY <1>4 DEF ScreenOf, RuntimeScreens
  <2>3. Current \notin RuntimeScreens BY <1>1 DEF RuntimeScreens
  <2>4. a.calibration_index \in 0..(Levels - 1) BY <1>4, <2>1
  <2> QED BY <1>0, <1>1, <1>4, <2>4, <2>2, <2>3, RequestFits
<1>5. ASSUME NEW a, a = [app EXCEPT !.calibration_index = app.menu_index],
             Request([a EXCEPT !.screen = "Analyzing"], [kind |-> "CreatePlan"])
      PROVE  AppInv'
  <2>1. [kind |-> "CreatePlan"] \in Requests BY DEF Requests
  <2> DEFINE b == [a EXCEPT !.screen = "Analyzing"]
  <2>2. /\ DOMAIN b = Fields /\ b.screen = "Analyzing" /\ b.calibration_index = app.menu_index
        /\ \A f \in Fields \ {"screen", "calibration_index", "calibration_complete"} : b[f] = app[f]
    BY <1>5 DEF AppInv, Fields
  <2>3. Request(b, [kind |-> "CreatePlan"]) BY <1>5
  <2> HIDE DEF b
  <2> QED BY <1>4, <2>1, <2>2, <2>3 DEF ScreenOf
<1>6. ASSUME NEW a, a = [app EXCEPT !.calibration_index = app.menu_index],
             Request([a EXCEPT !.screen = "Calibrating", !.calibration_complete = FALSE], [kind |-> "RunCalibration"])
      PROVE  AppInv'
  <2>1. [kind |-> "RunCalibration"] \in Requests BY DEF Requests
  <2> DEFINE b == [a EXCEPT !.screen = "Calibrating", !.calibration_complete = FALSE]
  <2>2. /\ DOMAIN b = Fields /\ b.screen = "Calibrating" /\ b.calibration_index = app.menu_index
        /\ \A f \in Fields \ {"screen", "calibration_index", "calibration_complete"} : b[f] = app[f]
    BY <1>6 DEF AppInv, Fields
  <2>3. Request(b, [kind |-> "RunCalibration"]) BY <1>6
  <2> HIDE DEF b
  <2> QED BY <1>4, <2>1, <2>2, <2>3 DEF ScreenOf
<1> QED BY <1>2, <1>3, <1>5, <1>6 DEF HandleCalibrationSelect

\* While calibrating, only an interruption.
LEMMA CalibratingFits == ASSUME AppInv, HandleCalibrating PROVE AppInv'
<1>1. app.screen = "Calibrating" /\ action = None /\ app.comparison = None /\ Current = "Calibrating"
  BY DEF HandleCalibrating, On, Idle, AppInv, Selected, Current
<1>0. app.plan_origin = "NewPlan" BY <1>1 DEF AppInv, Places, PlanningScreens
<1>3. CASE Back("CalibrationSelect", app.calibration_index)
  <2>1. app.calibration_index \in 0..(Levels - 1) BY DEF AppInv, Selected
  <2>2. app.calibration_index \in Nat /\ app.calibration_index < MenuItems("CalibrationSelect")
    BY <2>1, Items
  <2> QED BY <1>0, <1>1, <1>3, <2>2, BackFits DEF Busy, RuntimeScreens
<1>4. CASE Request([app EXCEPT !.screen = "Analyzing"], [kind |-> "CreatePlan"])
  <2>1. [kind |-> "CreatePlan"] \in Requests BY DEF Requests
  <2> QED BY <1>0, <1>1, <1>4, <2>1, ScreenRequestFits DEF RuntimeScreens, ScreenOf
<1> QED BY <1>3, <1>4 DEF HandleCalibrating

\* Validation is requested from the first item.
LEMMA ValidateFits ==
  ASSUME AppInv, action = None, app.comparison = None, app.screen = "PlanReview", Chosen(0), ValidateRequested
  PROVE  AppInv'
<1>1. [kind |-> "ValidatePlan"] \in Requests BY DEF Requests
<1>2. Current \notin RuntimeScreens BY DEF Current, RuntimeScreens
<1>3. app.menu_index = 0 BY DEF Chosen
<1> QED BY <1>1, <1>2, <1>3, ScreenRequestFits DEF ValidateRequested, ScreenOf, RuntimeScreens

\* The plan that was made.
LEMMA PlanReviewFits == ASSUME AppInv, HandlePlanReview PROVE AppInv'
<1>1. app.screen = "PlanReview" /\ action = None /\ app.comparison = None /\ Current = "PlanReview"
       /\ app.screen \in Menus /\ app.plan_origin = "NewPlan"
  BY DEF HandlePlanReview, On, Idle, AppInv, Selected, Current, Menus
<1>2. CASE Toggle BY <1>1, <1>2, ToggleFits, Items
<1>3. CASE Back("CalibrationSelect", app.calibration_index)
  <2>1. app.calibration_index \in 0..(Levels - 1) BY DEF AppInv, Selected
  <2>2. app.calibration_index \in Nat /\ app.calibration_index < MenuItems("CalibrationSelect")
    BY <2>1, Items
  <2> QED BY <1>1, <1>3, <2>2, BackFits DEF Busy, RuntimeScreens
<1>4. CASE Chosen(0) /\ ValidateRequested BY <1>1, <1>4, ValidateFits
<1>5. CASE app' = At(app, "Preferences", 0) /\ UNCHANGED <<config, action>>
  <2>1. 0 < MenuItems("Preferences") BY Counts
  <2> QED BY <1>1, <1>5, <2>1, MoveFits DEF Busy, RuntimeScreens
<1> QED BY <1>2, <1>3, <1>4, <1>5 DEF HandlePlanReview

\* The plan that was loaded.
LEMMA LoadedPlanReviewFits == ASSUME AppInv, HandleLoadedPlanReview PROVE AppInv'
<1>1. app.screen = "PlanReview" /\ action = None /\ app.comparison = None /\ Current = "PlanReview"
       /\ app.screen \in Menus /\ app.screen \notin RuntimeScreens
  BY DEF HandleLoadedPlanReview, On, Idle, AppInv, Selected, Current, Menus, RuntimeScreens
<1>2. CASE Toggle BY <1>1, <1>2, ToggleFits, Items
<1>3. CASE Back("PlanCompatibility", 0)
  BY <1>1, <1>3, Items, BackFits DEF Busy, RuntimeScreens, PlanningScreens
<1>4. CASE Chosen(0) /\ ValidateRequested BY <1>1, <1>4, ValidateFits
<1>5. CASE ToPlanning BY <1>1, <1>5, ToPlanningFits
<1> QED BY <1>2, <1>3, <1>4, <1>5 DEF HandleLoadedPlanReview

\* The plan that was validated.
LEMMA PlanValidFits == ASSUME AppInv, HandlePlanValid PROVE AppInv'
<1>1. app.screen = "PlanValid" /\ action = None /\ app.comparison = None /\ Current = "PlanValid"
       /\ app.screen \in Menus
  BY DEF HandlePlanValid, On, Idle, AppInv, Selected, Current, Menus
<1>2. CASE Menu(IF app.plan_origin = "LoadedPlan" THEN 2 ELSE 3)
  <2>1. MenuItems(app.screen) = IF app.plan_origin = "LoadedPlan" THEN 2 ELSE 3 BY <1>1 DEF MenuItems
  <2>2. MenuItems(app.screen) \in Nat /\ Menu(MenuItems(app.screen)) BY <1>2, <2>1
  <2> QED BY <1>1, <2>2, MenuFits
<1>3. CASE Step(ReturnFromRuntimeActivation(app))
  <2>1. CASE app' = At(app, "PlanCompatibility", 0) /\ UNCHANGED <<config, action>>
    BY <1>1, <2>1, Items, MoveFits DEF Busy, RuntimeScreens, PlanningScreens
  <2>2. CASE app' = At(app, "PlanReview", 0) /\ UNCHANGED <<config, action>>
    BY <1>1, <2>2, Items, MoveFits DEF Busy, RuntimeScreens, PlanningScreens
  <2> QED BY <1>3, <2>1, <2>2 DEF Step, ReturnFromRuntimeActivation
<1>4. CASE Request([app EXCEPT !.screen = "RuntimeActivation"], [kind |-> "ActivateRuntime"])
  <2>1. [kind |-> "ActivateRuntime"] \in Requests BY DEF Requests
  <2> QED BY <1>1, <1>4, <2>1, ScreenRequestFits DEF RuntimeScreens, ScreenOf
<1>5. CASE Step([app EXCEPT !.screen = "SavePlan"])
  <2>1. app.menu_index \in Nat BY DEF AppInv, Selected
  <2>2. At(app, "SavePlan", app.menu_index) = [app EXCEPT !.screen = "SavePlan"] BY DEF At, AppInv, Fields
  <2> QED BY <1>1, <1>5, <2>1, <2>2, MoveFits DEF Step, Busy, RuntimeScreens, PlanningScreens, Menus
<1> QED BY <1>2, <1>3, <1>4, <1>5 DEF HandlePlanValid

\* The compatibility report never leads to a runtime of another model.
LEMMA PlanCompatibilityFits == ASSUME AppInv, HandlePlanCompatibility PROVE AppInv'
<1>1. app.screen = "PlanCompatibility" /\ action = None /\ app.comparison = None /\ Current = "PlanCompatibility"
       /\ app.screen \in Menus /\ app.screen \notin RuntimeScreens
  BY DEF HandlePlanCompatibility, On, Idle, AppInv, Selected, Current, Menus, RuntimeScreens
<1>2. CASE Menu(3) BY <1>1, <1>2, MenuFits, Items
<1>3. CASE Back("LoadPlan", 0)
  BY <1>1, <1>3, BackFits DEF Busy, RuntimeScreens, PlanningScreens, Menus
<1>4. CASE Back("PlanReview", 0)
  BY <1>1, <1>4, Items, BackFits DEF Busy, RuntimeScreens, PlanningScreens
<1>5. CASE ToPlanning BY <1>1, <1>5, ToPlanningFits
<1>6. CASE Step(StartNewModelFlow(app)) BY <1>1, <1>6, StartNewFits
<1> QED BY <1>2, <1>3, <1>4, <1>5, <1>6 DEF HandlePlanCompatibility

\* The path to save the plan to.
LEMMA SavePlanFits == ASSUME AppInv, HandleSavePlan PROVE AppInv'
<1>1. app.screen = "SavePlan" /\ action = None /\ app.comparison = None /\ Current = "SavePlan"
  BY DEF HandleSavePlan, On, Idle, AppInv, Selected, Current
<1>2. CASE Back("PlanValid", 0)
  <2>1. MenuItems("PlanValid") > 0 BY DEF MenuItems
  <2> QED BY <1>1, <1>2, <2>1, BackFits DEF Busy, RuntimeScreens, PlanningScreens
<1>3. CASE Request(app, [kind |-> "SavePlan"])
  <2>1. [kind |-> "SavePlan"] \in Requests BY DEF Requests
  <2>2. app.calibration_index \in 0..(Levels - 1) /\ DOMAIN app = Fields BY DEF AppInv, Selected
  <2> QED BY <1>1, <1>3, <2>1, <2>2, RequestFits DEF RuntimeScreens, ScreenOf
<1> QED BY <1>2, <1>3 DEF HandleSavePlan

\* The runtime is dropped, the plan stays.
LEMMA LeaveFits ==
  ASSUME AppInv, action = None, app.comparison = None, NEW s \in {"PlanReview", "PlanValid"},
         app' = At(DropRuntime(app), s, 0), UNCHANGED <<config, action>>
  PROVE  AppInv'
<1>1. /\ DOMAIN app' = Fields /\ app'.screen = s /\ app'.menu_index = 0 /\ app'.runtime = None
      /\ \A f \in Fields \ {"screen", "menu_index", "runtime"} : app'[f] = app[f]
  BY DEF AppInv, DropRuntime, At, Fields
<1>2. /\ app'.history = app.history /\ app'.selected = app.selected /\ app'.comparison = app.comparison
      /\ app'.calibration_index = app.calibration_index /\ app'.error_return = app.error_return
      /\ app'.model_input = app.model_input /\ app'.user = app.user /\ app'.session = app.session
      /\ app'.persisted = app.persisted /\ app'.compatibility = app.compatibility /\ app'.plan = app.plan
      /\ app'.model_flow = app.model_flow /\ app'.plan_origin = app.plan_origin
   BY <1>1 DEF Fields
<1>3. Current' = s /\ app'.screen \notin Busy /\ s \notin RuntimeScreens /\ s \notin PlanningScreens
   BY <1>1 DEF Current, Busy, RuntimeScreens, PlanningScreens
<1>5. Places' BY <1>1, <1>2, <1>3 DEF AppInv, Places
<1>7. Held' BY <1>1, <1>2 DEF AppInv, Held
<1>8. CursorFits'
  <2>1. MenuItems(s)' > 0 BY DEF MenuItems
  <2>2. app'.menu_index = 0 /\ app'.screen = s BY <1>1
  <2> QED BY <2>1, <2>2 DEF CursorFits
<1>9. ~Requested("ExportRun")' BY <1>1 DEF Requested
<1>10. app'.calibration_index \in 0..(Levels - 1) BY <1>2 DEF AppInv, Selected
<1>11. app'.comparison = None BY <1>2
<1>12. DOMAIN config' = ConfigFields BY DEF AppInv
<1>13. app'.menu_index \in Nat
  <2>1. app'.menu_index = 0 BY <1>1
  <2> QED BY <2>1
<1>14. app'.screen \notin {"RunCompareSelect", "PlanValidation"} BY <1>1
<1>15. Current' \notin RuntimeScreens BY <1>3
<1> QED BY <1>1, <1>2, <1>5, <1>7, <1>8, <1>9, <1>10, <1>11, <1>12, <1>13, <1>14, <1>15, DropFits

\* Leaving the runtime drops it (back_to_plan_valid).
LEMMA BackToPlanValidFits ==
  ASSUME AppInv, action = None, app.comparison = None, BackToPlanValid PROVE AppInv'
<1>1. app' = At(DropRuntime(app), "PlanValid", 0) /\ UNCHANGED <<config, action>>
   BY DEF BackToPlanValid, DropRuntime
<1> QED BY <1>1, LeaveFits

\* The token settings are apart from the memory settings.
LEMMA TokensRam ==
  ASSUME NEW c, RamOK(c)
  PROVE  /\ \A forward \in BOOLEAN : RamOK(CycleMaxTokensPreset(c, forward))
         /\ RamOK(StartCustomMaxTokensEdit(c)) /\ RamOK(EditCustomMaxTokensBackspace(c)) /\ RamOK(CommitCustomMaxTokens(c))
         /\ \A digit, cap : RamOK(EditCustomMaxTokensCharacter(c, digit, cap))
         /\ \A x, y : RamOK([c EXCEPT !.custom_tokens = x, !.max_tokens = y])
<1>1. \A x, y : RamOK([c EXCEPT !.custom_tokens = x, !.max_tokens = y]) BY DEF RamOK, ConfigFields
<1>2. \A x, y : RamOK([c EXCEPT !.tokens_preset = x, !.max_tokens = y]) BY DEF RamOK, ConfigFields
<1>3. \A x : RamOK([c EXCEPT !.custom_tokens = x]) BY DEF RamOK, ConfigFields
<1>4. \A x : RamOK([c EXCEPT !.max_tokens = x]) BY DEF RamOK, ConfigFields
<1>5. \A forward \in BOOLEAN : RamOK(CycleMaxTokensPreset(c, forward)) BY <1>2 DEF CycleMaxTokensPreset
<1>6. RamOK(StartCustomMaxTokensEdit(c)) BY <1>3 DEF StartCustomMaxTokensEdit
<1>7. RamOK(EditCustomMaxTokensBackspace(c)) BY <1>1 DEF EditCustomMaxTokensBackspace
<1>8. RamOK(CommitCustomMaxTokens(c)) BY <1>4 DEF CommitCustomMaxTokens
<1>9. \A digit, cap : RamOK(EditCustomMaxTokensCharacter(c, digit, cap))
  BY <1>1 DEF EditCustomMaxTokensCharacter
<1> QED BY <1>1, <1>5, <1>6, <1>7, <1>8, <1>9

\* The generation settings.
LEMMA ReviewConfigFits == ASSUME AppInv, HandleReviewConfig PROVE AppInv'
<1>1. app.screen = "ReviewConfig" /\ action = None /\ app.comparison = None /\ Current = "ReviewConfig"
       /\ app.screen \in Menus
  BY DEF HandleReviewConfig, On, Idle, AppInv, Selected, Current, Menus
<1>2. CASE Menu(3) BY <1>1, <1>2, MenuFits, Items
<1>3. ASSUME NEW forward \in BOOLEAN, EditPreferences(CycleMaxTokensPreset(config, forward), edit)
  PROVE AppInv'
  BY <1>1, <1>3, ConfigRam, TokensRam, EditFits
<1>4. ASSUME NEW e, EditPreferences(StartCustomMaxTokensEdit(config), e) PROVE AppInv'
  BY <1>1, <1>4, ConfigRam, TokensRam, EditFits
<1>5. CASE Back("GenerationInput", 0)
  BY <1>1, <1>5, BackFits DEF Busy, RuntimeScreens, PlanningScreens, Menus
<1>6. CASE BackToPlanValid BY <1>1, <1>6, BackToPlanValidFits
<1> QED BY <1>2, <1>3, <1>4, <1>5, <1>6 DEF HandleReviewConfig

\* The editor of the number of tokens.
LEMMA MaxTokensEditFits == ASSUME AppInv, HandleMaxTokensEdit PROVE AppInv'
<1>1. app.screen = "ReviewConfig" /\ action = None /\ app.comparison = None /\ Current = "ReviewConfig"
       /\ app.screen \in Menus
  BY DEF HandleMaxTokensEdit, On, Idle, AppInv, Selected, Current, Menus
<1>2. ASSUME NEW digit \in Digits, EditPreferences(EditCustomMaxTokensCharacter(config, digit, MaxMaxTokens), edit)
  PROVE AppInv'
  BY <1>1, <1>2, ConfigRam, TokensRam, EditFits
<1>3. CASE EditPreferences(EditCustomMaxTokensBackspace(config), edit)
  BY <1>1, <1>3, ConfigRam, TokensRam, EditFits
<1>4. ASSUME NEW e, EditPreferences([config EXCEPT !.custom_tokens = edit.backup[1],
                                         !.max_tokens = edit.backup[2]], e) PROVE AppInv'
  BY <1>1, <1>4, ConfigRam, TokensRam, EditFits
<1>5. ASSUME NEW index \in {app.menu_index, (app.menu_index + 1) % 3, Cycle(app.menu_index, 3, FALSE)},
             app' = [app EXCEPT !.menu_index = index], config' = CommitCustomMaxTokens(config), UNCHANGED action
      PROVE AppInv'
  <2>1. RamOK(config') BY <1>5, ConfigRam, TokensRam
  <2>2. app.menu_index \in Nat /\ app.menu_index < 3
     BY <1>1, Items DEF AppInv, Selected, SelectionsExist, Menus
  <2>3. index \in Nat /\ index < 3
    <3> DEFINE k == app.menu_index
    <3>3. k \in 0..2 BY <2>2
    <3>4. Cycle(k, 3, TRUE) \in 0..2 /\ Cycle(k, 3, FALSE) \in 0..2
      <4>1. 3 \in Nat \ {0} /\ 3 - 1 = 2 /\ TRUE \in BOOLEAN /\ FALSE \in BOOLEAN OBVIOUS
      <4> HIDE DEF k
      <4> QED BY <3>3, <4>1, CycleRange
    <3>1. (k + 1) % 3 \in 0..2
      <4> HIDE DEF k
      <4> QED BY <3>4 DEF Cycle
    <3>2. index \in {k, (k + 1) % 3, Cycle(k, 3, FALSE)} BY <1>5
    <3> HIDE DEF k
    <3>5. index \in 0..2 BY <3>1, <3>2, <3>3, <3>4, Zenon
    <3> QED BY <3>5
  <2>4. MenuItems("ReviewConfig")' = 3 BY DEF MenuItems
  <2>5. /\ DOMAIN app' = Fields /\ app'.screen = "ReviewConfig" /\ app'.menu_index = index
        /\ \A f \in Fields \ {"screen", "menu_index"} : app'[f] = app[f]
    BY <1>1, <1>5 DEF AppInv, Fields
  <2> QED BY <1>1, <1>5, <2>1, <2>3, <2>4, <2>5, ConfigFits
<1>6. CASE /\ \E index \in {app.menu_index, (app.menu_index + 1) % 3, Cycle(app.menu_index, 3, FALSE)} :
                app' = [app EXCEPT !.menu_index = index]
           /\ config' = CommitCustomMaxTokens(config) /\ UNCHANGED action
   BY <1>5, <1>6
<1> QED BY <1>2, <1>3, <1>4, <1>6 DEF HandleMaxTokensEdit

\* The prompt.
LEMMA GenerationInputFits == ASSUME AppInv, Tokens, HandleGenerationInput PROVE AppInv'
<1>1. app.screen = "GenerationInput" /\ action = None /\ app.comparison = None /\ Current = "GenerationInput"
  BY DEF HandleGenerationInput, On, Idle, AppInv, Selected, Current
<1>2. CASE Back("ReviewConfig", 1)
  BY <1>1, <1>2, Items, BackFits DEF Busy, RuntimeScreens, PlanningScreens
<1>3. CASE config.max_tokens \in Nat /\ Request([app EXCEPT !.screen = "GenerationRunning"],
                     [kind |-> "GeneratePrompt", max_tokens |-> config.max_tokens])
  <2>1. [kind |-> "GeneratePrompt", max_tokens |-> config.max_tokens] \in Requests BY <1>3 DEF Requests
  <2> QED BY <1>1, <1>3, <2>1, ScreenRequestFits DEF RuntimeScreens, ScreenOf
<1>4. config.max_tokens \in Nat BY DEF Tokens
<1> QED BY <1>2, <1>3, <1>4 DEF HandleGenerationInput

\* A run is selected.
LEMMA SelectFits ==
  ASSUME AppInv, action = None, app.comparison = None, Current \in RuntimeScreens,
         NEW id \in ToSet(app.history) \cup {None}, NEW s \in {"ExportPath", "RunDetail"},
         Step(At([app EXCEPT !.selected = id], s, 0))
  PROVE  AppInv'
<1>1. /\ DOMAIN app' = Fields /\ app'.screen = s /\ app'.menu_index = 0 /\ app'.selected = id
      /\ action' = None /\ UNCHANGED config
      /\ \A f \in Fields \ {"screen", "menu_index", "selected"} : app'[f] = app[f]
  BY DEF AppInv, Step, At, Fields
<1>2. Moves BY <1>1 DEF Moves, Fields
<1>3. CursorFits'
  <2>1. s \in Menus => MenuItems(s)' = 2 BY DEF Menus, MenuItems
  <2>2. app'.screen = s /\ app'.menu_index = 0 BY <1>1
  <2> QED BY <2>1, <2>2 DEF CursorFits
<1>4. Current' = s /\ s \in RuntimeScreens /\ s \notin PlanningScreens \cup Busy
  BY <1>1 DEF Current, RuntimeScreens, PlanningScreens, Busy
<1>5. app'.menu_index \in Nat
  <2>1. app'.menu_index = 0 BY <1>1
  <2> QED BY <2>1
<1>6. /\ app'.error_return \in ErrorReturns /\ app'.model_input \in Models \cup {""}
      /\ app'.calibration_index \in 0..(Levels - 1) /\ app'.selected \in ToSet(app.history) \cup {None}
  BY <1>1 DEF Fields, AppInv, Places, Held, Selected
<1>7. app'.screen \notin {"PlanValidation", "RunCompareSelect"} BY <1>1
<1>8. Fits
  BY <1>1, <1>3, <1>4, <1>5, <1>6, <1>7 DEF Fits
<1> QED BY <1>2, <1>8, MoveKeeps

\* Two runs are chosen and compared.
LEMMA CompareFits ==
  ASSUME AppInv, action = None, UNCHANGED <<config, action>>, Current \in RuntimeScreens,
         DOMAIN app' = Fields,
         \A f \in Fields \ {"screen", "menu_index", "compare_first", "comparison"} : app'[f] = app[f],
         app'.screen \in {"RunHistory", "RunCompareSelect", "RunCompare"},
         app'.menu_index \in Nat, CursorFits',
         app'.screen = "RunCompareSelect" => app'.compare_first \in ToSet(app.history) \cup {None},
         app'.comparison # None =>
            /\ app'.screen = "RunCompare" /\ app'.comparison[1] # app'.comparison[2]
            /\ ToSet(app'.comparison) \subseteq ToSet(app.history)
  PROVE  AppInv'
<1>1. /\ app'.history = app.history /\ app'.selected = app.selected
      /\ app'.calibration_index = app.calibration_index /\ app'.error_return = app.error_return
      /\ app'.model_input = app.model_input /\ app'.user = app.user /\ app'.session = app.session
      /\ app'.persisted = app.persisted /\ app'.compatibility = app.compatibility /\ app'.plan = app.plan
      /\ app'.model_flow = app.model_flow /\ app'.plan_origin = app.plan_origin /\ app'.runtime = app.runtime
   BY DEF Fields
<1>2. Current' \in RuntimeScreens /\ Current' \notin PlanningScreens /\ app'.screen \notin Busy
      /\ app'.screen # "PlanValidation"
   BY DEF Current, RuntimeScreens, PlanningScreens, Busy
<1>3. Places' BY <1>1, <1>2 DEF AppInv, Places
<1>4. Held' BY <1>1 DEF AppInv, Held
<1>5. app'.history \in Seq(Nat) BY <1>1 DEF AppInv, Selected
<1>6. \A k, j \in 1..Len(app'.history) : k < j => app'.history[k] < app'.history[j]
  BY <1>1, Zenon DEF AppInv, Selected
<1>7. app'.calibration_index \in 0..(Levels - 1) BY <1>1 DEF AppInv, Selected
<1>8. Selected' BY <1>2, <1>5, <1>6, <1>7 DEF Selected
<1>9. RuntimeMatchesPlan' BY <1>1, <1>2 DEF AppInv, RuntimeMatchesPlan, Current
<1>10. Cardinality(ToSet(app'.history)) = Len(app'.history) /\ app'.selected \in ToSet(app'.history) \cup {None}
  BY <1>1 DEF AppInv, SelectionsExist
<1>11. ~Requested("ExportRun")' BY DEF Requested
<1>12. ToSet(app'.history) = ToSet(app.history) BY <1>1
<1>13. SelectionsExist' BY <1>10, <1>11, <1>12 DEF SelectionsExist, CursorFits
<1> QED BY <1>3, <1>4, <1>8, <1>9, <1>13 DEF AppInv

\* The sizes of the menus that list the runs.
LEMMA HistoryItems ==
  AppInv => /\ Len(app.history) \in Nat
            /\ \A i \in 1..Len(app.history) : app.history[i] \in ToSet(app.history) /\ app.history[i] \in Nat
            /\ app.history # <<>> => Last(app.history) \in ToSet(app.history)
            /\ MenuItems("RunHistory") = Len(app.history) + 2 /\ MenuItems("RunCompareSelect") = Len(app.history) + 1
<1> SUFFICES ASSUME AppInv PROVE
            /\ Len(app.history) \in Nat
            /\ \A i \in 1..Len(app.history) : app.history[i] \in ToSet(app.history) /\ app.history[i] \in Nat
            /\ app.history # <<>> => Last(app.history) \in ToSet(app.history)
            /\ MenuItems("RunHistory") = Len(app.history) + 2 /\ MenuItems("RunCompareSelect") = Len(app.history) + 1
   OBVIOUS
<1>1. PICK h \in Seq(Nat) : h = app.history BY DEF AppInv, Selected
<1>2. Len(h) \in Nat /\ \A i \in 1..Len(h) : h[i] \in ToSet(h) /\ h[i] \in Nat BY DEF ToSet
<1>3. h # <<>> => Last(h) \in ToSet(h)
  <2> SUFFICES ASSUME h # <<>> PROVE Last(h) \in ToSet(h) OBVIOUS
  <2>1. Len(h) \in Nat \ {0} BY EmptySeq
  <2>2. Len(h) \in 1..Len(h) BY <2>1
  <2> QED BY <1>2, <2>2 DEF Last
<1>4. MenuItems("RunHistory") = Len(app.history) + 2 /\ MenuItems("RunCompareSelect") = Len(app.history) + 1
  BY DEF MenuItems
<1> QED BY <1>1, <1>2, <1>3, <1>4

\* The result of a run.
LEMMA GenerationResultFits == ASSUME AppInv, HandleGenerationResult PROVE AppInv'
<1>1. app.screen = "GenerationResult" /\ action = None /\ app.comparison = None /\ Current = "GenerationResult"
       /\ app.screen \in Menus /\ Current \in RuntimeScreens
  BY DEF HandleGenerationResult, On, Idle, AppInv, Selected, Current, Menus, RuntimeScreens
<1>2. CASE Menu(4) BY <1>1, <1>2, MenuFits, Items
<1>3. CASE Step(LeaveRuntimeSession(app))
  BY <1>1, <1>3, LeaveFits DEF Step, LeaveRuntimeSession
<1>4. CASE Back("GenerationInput", 0)
  BY <1>1, <1>4, BackFits DEF Busy, RuntimeScreens, PlanningScreens, Menus
<1>5. CASE Back("RunHistory", 0)
  <2>1. 0 < MenuItems("RunHistory") BY HistoryItems
  <2> QED BY <1>1, <1>5, <2>1, BackFits DEF Busy, RuntimeScreens, PlanningScreens, Menus
<1>6. CASE Step(ToExport(app, IF app.history = <<>> THEN app.selected ELSE Last(app.history)))
  <2> DEFINE id == IF app.history = <<>> THEN app.selected ELSE Last(app.history)
  <2>1. id \in ToSet(app.history) \cup {None} BY HistoryItems DEF AppInv, SelectionsExist
  <2>2. Step(At([app EXCEPT !.selected = id], "ExportPath", 0)) BY <1>6 DEF ToExport
  <2> HIDE DEF id
  <2> QED BY <1>1, <2>1, <2>2, SelectFits
<1> QED BY <1>2, <1>3, <1>4, <1>5, <1>6 DEF HandleGenerationResult

\* The list of the runs.
LEMMA RunHistoryFits == ASSUME AppInv, HandleRunHistory PROVE AppInv'
<1>1. app.screen = "RunHistory" /\ action = None /\ app.comparison = None /\ Current = "RunHistory"
       /\ app.screen \in Menus /\ Current \in RuntimeScreens
  BY DEF HandleRunHistory, On, Idle, AppInv, Selected, Current, Menus, RuntimeScreens
<1>2. CASE Menu(Len(app.history) + 2)
  <2>1. Len(app.history) + 2 \in Nat /\ Len(app.history) + 2 = MenuItems(app.screen) BY <1>1, HistoryItems
  <2> QED BY <1>1, <1>2, <2>1, MenuFits
<1>3. CASE Back("GenerationResult", 0)
  BY <1>1, <1>3, Items, BackFits DEF Busy, RuntimeScreens, PlanningScreens, Menus
<1>4. CASE app.menu_index < Len(app.history) /\ Step(At([app EXCEPT !.selected = app.history[app.menu_index + 1]], "RunDetail", 0))
  <2>1. app.menu_index + 1 \in 1..Len(app.history) BY <1>4, HistoryItems DEF AppInv, Selected
  <2>2. app.history[app.menu_index + 1] \in ToSet(app.history) BY <2>1, HistoryItems
  <2> QED BY <1>1, <1>4, <2>2, SelectFits
<1>5. CASE Step(At([app EXCEPT !.compare_first = None, !.comparison = None], "RunCompareSelect", 0))
  <2>1. /\ DOMAIN app' = Fields /\ app'.screen = "RunCompareSelect" /\ app'.menu_index = 0
        /\ app'.compare_first = None /\ app'.comparison = None /\ UNCHANGED <<config, action>>
        /\ \A f \in Fields \ {"screen", "menu_index", "compare_first", "comparison"} : app'[f] = app[f]
    BY <1>5 DEF AppInv, Step, At, Fields
  <2>2. Len(app'.history) = Len(app.history) BY <2>1 DEF Fields
  <2>3. MenuItems("RunCompareSelect")' > 0 BY <2>2, HistoryItems DEF MenuItems
  <2>4. app'.menu_index = 0 /\ app'.screen = "RunCompareSelect" BY <2>1
  <2>5. CursorFits' BY <2>3, <2>4 DEF CursorFits
  <2>6. app'.menu_index \in Nat BY <2>4
  <2> QED BY <1>1, <2>1, <2>5, <2>6, CompareFits
<1> QED BY <1>2, <1>3, <1>4, <1>5 DEF HandleRunHistory

\* One run.
LEMMA RunDetailFits == ASSUME AppInv, HandleRunDetail PROVE AppInv'
<1>1. app.screen = "RunDetail" /\ action = None /\ app.comparison = None /\ Current = "RunDetail"
       /\ app.screen \in Menus /\ Current \in RuntimeScreens
  BY DEF HandleRunDetail, On, Idle, AppInv, Selected, Current, Menus, RuntimeScreens
<1>2. CASE Toggle BY <1>1, <1>2, ToggleFits, Items
<1>3. CASE Back("RunHistory", 0)
  <2>1. 0 < MenuItems("RunHistory") BY HistoryItems
  <2> QED BY <1>1, <1>3, <2>1, BackFits DEF Busy, RuntimeScreens, PlanningScreens, Menus
<1>4. CASE Step(ToExport(app, app.selected))
  <2>1. app.selected \in ToSet(app.history) \cup {None} BY DEF AppInv, SelectionsExist
  <2> QED BY <1>1, <1>4, <2>1, SelectFits DEF ToExport
<1> QED BY <1>2, <1>3, <1>4 DEF HandleRunDetail

\* The choice of the second run: never the first one again.
LEMMA RunCompareSelectFits == ASSUME AppInv, HandleRunCompareSelect PROVE AppInv'
<1>1. app.screen = "RunCompareSelect" /\ action = None /\ app.comparison = None /\ Current = "RunCompareSelect"
       /\ app.screen \in Menus /\ Current \in RuntimeScreens
  BY DEF HandleRunCompareSelect, On, Idle, AppInv, Selected, Current, Menus, RuntimeScreens
<1>2. CASE Menu(Len(app.history) + 1)
  <2>1. Len(app.history) + 1 \in Nat /\ Len(app.history) + 1 = MenuItems(app.screen) BY <1>1, HistoryItems
  <2> QED BY <1>1, <1>2, <2>1, MenuFits
<1>3. ASSUME NEW id \in ToSet(app.history) \cup {None}, Step([app EXCEPT !.compare_first = id])
  PROVE AppInv'
  <2>1. /\ DOMAIN app' = Fields /\ app'.screen = "RunCompareSelect" /\ app'.menu_index = app.menu_index
        /\ app'.compare_first = id /\ app'.comparison = None /\ UNCHANGED <<config, action>>
        /\ \A f \in Fields \ {"screen", "menu_index", "compare_first", "comparison"} : app'[f] = app[f]
    BY <1>1, <1>3 DEF AppInv, Step, Fields
  <2>2. Len(app'.history) = Len(app.history) BY <2>1 DEF Fields
  <2>3. MenuItems("RunCompareSelect")' = MenuItems("RunCompareSelect") BY <2>2 DEF MenuItems
  <2>4. CursorFits' BY <1>1, <2>1, <2>3 DEF CursorFits, AppInv, SelectionsExist
  <2>5. app'.menu_index \in Nat BY <2>1 DEF AppInv, Selected
  <2> QED BY <1>1, <2>1, <2>4, <2>5, CompareFits
<1>4. CASE Back("RunHistory", 0)
  <2>1. 0 < MenuItems("RunHistory") BY HistoryItems
  <2> QED BY <1>1, <1>4, <2>1, BackFits DEF Busy, RuntimeScreens, PlanningScreens, Menus
<1>5. ASSUME app.menu_index < Len(app.history), NEW id, id = app.history[app.menu_index + 1]
      PROVE  id \in ToSet(app.history) /\ id \in Nat
  <2>1. app.menu_index + 1 \in 1..Len(app.history) BY <1>5, HistoryItems DEF AppInv, Selected
  <2> QED BY <1>5, <2>1, HistoryItems
<1>6. ASSUME NEW id \in ToSet(app.history), app.compare_first # id, app.compare_first \in ToSet(app.history),
             Step(At([app EXCEPT !.comparison = <<app.compare_first, id>>], "RunCompare", 0))
      PROVE AppInv'
  <2> DEFINE pair == <<app.compare_first, id>>
  <2>1. pair[1] # pair[2] /\ ToSet(pair) \subseteq ToSet(app.history)
    <3>1. ToSet(pair) = {app.compare_first, id} BY DEF ToSet
    <3> QED BY <1>6, <3>1
  <2>2. Step(At([app EXCEPT !.comparison = pair], "RunCompare", 0)) BY <1>6
  <2> HIDE DEF pair
  <2>3. /\ DOMAIN app' = Fields /\ app'.screen = "RunCompare" /\ app'.menu_index = 0
        /\ app'.comparison = pair /\ UNCHANGED <<config, action>>
        /\ \A f \in Fields \ {"screen", "menu_index", "compare_first", "comparison"} : app'[f] = app[f]
    BY <2>2 DEF AppInv, Step, At, Fields
  <2>4. CursorFits' BY <2>3 DEF CursorFits, Menus
  <2>5. app'.menu_index \in Nat
    <3>1. app'.menu_index = 0 BY <2>3
    <3> QED BY <3>1
  <2> QED BY <1>1, <2>1, <2>3, <2>4, <2>5, CompareFits
<1>7. CASE /\ app.menu_index < Len(app.history)
          /\ LET id == app.history[app.menu_index + 1]
             IN  \/ app.compare_first = None /\ Step([app EXCEPT !.compare_first = id])
                 \/ app.compare_first = id /\ Step([app EXCEPT !.compare_first = None])
                 \/ /\ app.compare_first \notin {None, id}
                    /\ {app.compare_first, id} \subseteq ToSet(app.history)
                    /\ Step(At([app EXCEPT !.comparison = <<app.compare_first, id>>],
                               "RunCompare", 0))
  <2>1. PICK id : id = app.history[app.menu_index + 1] OBVIOUS
  <2>2. id \in ToSet(app.history) BY <1>5, <1>7, <2>1
  <2>3. CASE Step([app EXCEPT !.compare_first = id]) BY <1>3, <2>2, <2>3
  <2>4. CASE Step([app EXCEPT !.compare_first = None]) BY <1>3, <2>4
  <2>5. CASE /\ app.compare_first \notin {None, id} /\ {app.compare_first, id} \subseteq ToSet(app.history)
             /\ Step(At([app EXCEPT !.comparison = <<app.compare_first, id>>], "RunCompare", 0))
     BY <1>6, <2>2, <2>5
  <2> QED BY <1>7, <2>1, <2>3, <2>4, <2>5
<1>8. CASE Step([app EXCEPT !.compare_first = None]) BY <1>3, <1>8
<1> QED BY <1>2, <1>4, <1>7, <1>8 DEF HandleRunCompareSelect

\* The comparison of two runs.
LEMMA RunCompareFits == ASSUME AppInv, HandleRunCompare PROVE AppInv'
<1>1. app.screen = "RunCompare" /\ action = None /\ Current = "RunCompare" /\ Current \in RuntimeScreens
  BY DEF HandleRunCompare, On, Idle, Current, RuntimeScreens
<1>2. /\ DOMAIN app' = Fields /\ app'.screen = "RunHistory" /\ app'.menu_index = 0
      /\ app'.comparison = None /\ UNCHANGED <<config, action>>
      /\ \A f \in Fields \ {"screen", "menu_index", "compare_first", "comparison"} : app'[f] = app[f]
  BY DEF HandleRunCompare, AppInv, Step, At, Fields
<1>3. Len(app'.history) = Len(app.history) BY <1>2 DEF Fields
<1>4. MenuItems("RunHistory")' > 0 BY <1>3, HistoryItems DEF MenuItems
<1>5. app'.menu_index = 0 /\ app'.screen = "RunHistory" BY <1>2
<1>6. CursorFits' BY <1>4, <1>5 DEF CursorFits
<1>7. app'.menu_index \in Nat BY <1>5
<1> QED BY <1>1, <1>2, <1>6, <1>7, CompareFits

\* After an export, or without it, the run is still selected.
LEMMA AfterExportFits ==
  ASSUME AppInv, app.screen = "ExportPath", action' = None, UNCHANGED config, app' = AfterExport(app)
  PROVE  AppInv'
<1>1. PICK s \in {"GenerationResult", "RunDetail"} : app' = At(app, s, 0) BY DEF AfterExport
<1>2. /\ DOMAIN app' = Fields /\ app'.screen = s /\ app'.menu_index = 0
      /\ \A f \in Fields \ {"screen", "menu_index"} : app'[f] = app[f]
  BY <1>1 DEF AppInv, At, Fields
<1>3. Moves BY <1>2 DEF Moves, Fields
<1>4. CursorFits'
  <2>1. MenuItems(s)' > 0 BY DEF MenuItems
  <2>2. app'.menu_index = 0 /\ app'.screen = s BY <1>2
  <2> QED BY <2>1, <2>2 DEF CursorFits
<1>5. Current' = s /\ s \in RuntimeScreens /\ s \notin PlanningScreens \cup Busy /\ Current \in RuntimeScreens
  BY <1>2 DEF Current, RuntimeScreens, PlanningScreens, Busy
<1>6. app'.menu_index \in Nat
  <2>1. app'.menu_index = 0 BY <1>2
  <2> QED BY <2>1
<1>7. /\ app'.error_return \in ErrorReturns /\ app'.model_input \in Models \cup {""}
      /\ app'.calibration_index \in 0..(Levels - 1) /\ app'.selected \in ToSet(app.history) \cup {None}
  BY <1>2 DEF Fields, AppInv, Places, Held, Selected, SelectionsExist
<1>8. app'.screen \notin {"PlanValidation", "RunCompareSelect"} /\ app.comparison = None
  BY <1>2 DEF AppInv, Selected
<1>9. Fits BY <1>2, <1>4, <1>5, <1>6, <1>7, <1>8 DEF Fits
<1> QED BY <1>3, <1>9, MoveKeeps

\* The path to export a run to.
LEMMA ExportPathFits == ASSUME AppInv, HandleExportPath PROVE AppInv'
<1>1. app.screen = "ExportPath" /\ action = None /\ app.comparison = None /\ Current = "ExportPath"
  BY DEF HandleExportPath, On, Idle, AppInv, Selected, Current
<1>2. CASE Step(AfterExport(app)) BY <1>1, <1>2, AfterExportFits DEF Step
<1>3. ASSUME NEW id, id = IF app.selected # None THEN app.selected ELSE Last(app.history),
             app.selected # None \/ app.history # <<>>,
             Request(app, [kind |-> "ExportRun", id |-> id])
      PROVE AppInv'
  <2>1. id \in ToSet(app.history) BY <1>3, HistoryItems DEF AppInv, SelectionsExist
  <2>2. id \in Nat
    <3>1. PICK i \in DOMAIN app.history : id = app.history[i] BY <2>1 DEF ToSet
    <3>2. DOMAIN app.history = 1..Len(app.history) BY DEF AppInv, Selected
    <3> QED BY <3>1, <3>2, HistoryItems
  <2>3. [kind |-> "ExportRun", id |-> id] \in Requests BY <2>2 DEF Requests
  <2>4. app.calibration_index \in 0..(Levels - 1) /\ DOMAIN app = Fields BY DEF AppInv, Selected
  <2> QED BY <1>1, <1>3, <2>1, <2>3, <2>4, RequestFits DEF RuntimeScreens, ScreenOf
<1> QED BY <1>2, <1>3 DEF HandleExportPath

\* The error line leads back to where it came from.
LEMMA ErrorFits == ASSUME AppInv, HandleError PROVE AppInv'
<1>1. app.screen = "Error" /\ action = None /\ app.comparison = None /\ Current = app.error_return
      /\ app.error_return \in ErrorReturns
  BY DEF HandleError, On, Idle, AppInv, Places, Selected, Current
<1>2. /\ DOMAIN app' = Fields /\ app'.screen = app.error_return /\ app'.menu_index = 0
      /\ app'.error_return = "Welcome" /\ UNCHANGED <<config, action>>
      /\ \A f \in Fields \ {"screen", "menu_index", "error_return"} : app'[f] = app[f]
  BY DEF HandleError, Step, AppInv, At, Fields
<1>3. Moves BY <1>2 DEF Moves, Fields
<1>4. CursorFits'
  <2>1. PICK s \in ErrorReturns : s = app'.screen BY <1>1, <1>2
  <2>2. MenuItems("Welcome")' = 3 /\ MenuItems("PlanReview")' = 2 BY DEF MenuItems
  <2>3. MenuItems("CalibrationSelect")' > 0 BY TuiAssumption DEF MenuItems
  <2>4. MenuItems("Preferences")' > 0 BY Counts
  <2>5. s \in Menus => s \in {"Welcome", "PlanReview", "CalibrationSelect", "Preferences"}
    BY DEF Menus, ErrorReturns
  <2>6. s \in Menus => MenuItems(s)' > 0 BY <2>2, <2>3, <2>4, <2>5
  <2>7. app'.menu_index = 0 BY <1>2
  <2> QED BY <2>1, <2>6, <2>7 DEF CursorFits
<1>5. Current' = Current /\ app'.screen \notin Busy \cup {"RunCompareSelect", "PlanValidation"} /\ "Welcome" \in ErrorReturns
  BY <1>1, <1>2 DEF Current, Busy, ErrorReturns
<1>6. app'.menu_index \in Nat
  <2>1. app'.menu_index = 0 BY <1>2
  <2> QED BY <2>1
<1>7. /\ app'.model_input \in Models \cup {""}
      /\ app'.calibration_index \in 0..(Levels - 1) /\ app'.selected \in ToSet(app.history) \cup {None}
      /\ (Current \in PlanningScreens => app.plan_origin = "NewPlan")
  BY <1>2 DEF Fields, AppInv, Places, Held, Selected, SelectionsExist
<1>9. Fits BY <1>1, <1>2, <1>4, <1>5, <1>6, <1>7 DEF Fits
<1> QED BY <1>3, <1>9, MoveKeeps

\* An error line, with the session as the action left it.
LEMMA ShowErrorFits ==
  ASSUME AppInv, app.comparison = None, action' = None, UNCHANGED config,
         NEW s \in ErrorReturns, app' = ShowError(app, s),
         s \in PlanningScreens => app.plan_origin = "NewPlan",
         s \in RuntimeScreens <=> Current \in RuntimeScreens
  PROVE  AppInv'
<1>1. /\ DOMAIN app' = Fields /\ app'.screen = "Error" /\ app'.menu_index = 0 /\ app'.error_return = s
      /\ \A f \in Fields \ {"screen", "menu_index", "error_return"} : app'[f] = app[f]
  BY DEF AppInv, ShowError, At, Fields
<1>2. Moves BY <1>1 DEF Moves, Fields
<1>3. CursorFits' BY <1>1 DEF CursorFits, Menus
<1>4. Current' = s /\ app'.screen \notin Busy \cup {"RunCompareSelect", "PlanValidation"}
  BY <1>1 DEF Current, Busy
<1>5. app'.menu_index \in Nat
  <2>1. app'.menu_index = 0 BY <1>1
  <2> QED BY <2>1
<1>6. /\ app'.model_input \in Models \cup {""}
      /\ app'.calibration_index \in 0..(Levels - 1) /\ app'.selected \in ToSet(app.history) \cup {None}
  BY <1>1 DEF Fields, AppInv, Held, Selected, SelectionsExist
<1>7. Fits BY <1>1, <1>3, <1>4, <1>5, <1>6 DEF Fits
<1> QED BY <1>2, <1>7, MoveKeeps

\* The screen changes and the cursor stays.
LEMMA StayFits ==
  ASSUME AppInv, app.comparison = None, action' = None, UNCHANGED config,
         NEW s, app' = [app EXCEPT !.screen = s],
         s \notin Busy \cup {"Error", "RunCompareSelect"},
         s \in PlanningScreens => app.plan_origin = "NewPlan",
         s \in RuntimeScreens <=> Current \in RuntimeScreens,
         s \in Menus => app.menu_index < MenuItems(s)
  PROVE  AppInv'
<1>1. app.menu_index \in Nat BY DEF AppInv, Selected
<1>2. At(app, s, app.menu_index) = [app EXCEPT !.screen = s] BY DEF At, AppInv, Fields
<1> QED BY <1>1, <1>2, MoveFits

\* What is known when an action is executed.
LEMMA InFlight ==
  ASSUME AppInv, NEW kind, Requested(kind)
  PROVE  /\ app.screen = ScreenOf(kind) /\ app.comparison = None
         /\ Current = ScreenOf(kind)
         /\ kind \in {"Analyze", "RunCalibration", "CreatePlan"} => app.plan_origin = "NewPlan"
         /\ kind = "AnalyzeLoadedPlan" => app.plan_origin = "LoadedPlan"
         /\ ScreenOf(kind) \notin RuntimeScreens => app.runtime = None
<1>1. /\ app.screen = ScreenOf(kind)
      /\ kind \in {"Analyze", "RunCalibration", "CreatePlan"} => app.plan_origin = "NewPlan"
      /\ kind = "AnalyzeLoadedPlan" => app.plan_origin = "LoadedPlan"
  BY DEF AppInv, Places, Requested
<1>2. ScreenOf(kind) # "RunCompare" /\ ScreenOf(kind) # "Error" BY DEF ScreenOf
<1>3. app.comparison = None BY <1>1, <1>2 DEF AppInv, Selected
<1>4. Current = ScreenOf(kind) BY <1>1, <1>2 DEF Current
<1>5. Current \notin RuntimeScreens => app.runtime = None BY DEF AppInv, RuntimeMatchesPlan, Current
<1> QED BY <1>1, <1>3, <1>4, <1>5

\* A saved plan was read or not.
LEMMA LoadFits == ASSUME AppInv, LoadFinished PROVE AppInv'
<1>1. /\ app.screen = "Analyzing" /\ Current = "Analyzing" /\ app.comparison = None /\ app.runtime = None
      /\ Current \notin RuntimeScreens
  <2>1. Requested("LoadPlan") /\ ScreenOf("LoadPlan") = "Analyzing" BY DEF LoadFinished, ScreenOf
  <2>2. "Analyzing" \notin RuntimeScreens BY DEF RuntimeScreens
  <2> QED BY <2>1, <2>2, InFlight
<1>2. CASE Finish(ShowError(app, "LoadPlan"))
  BY <1>1, <1>2, ShowErrorFits DEF Finish, ErrorReturns, PlanningScreens, RuntimeScreens
<1>3. ASSUME NEW plan \in SavedPlans,
             Finish(At([app EXCEPT !.persisted = plan,
                           !.compatibility = None, !.plan = None, !.session = None,
                           !.model_input = "", !.model_flow = "LoadedPlan",
                           !.plan_origin = "LoadedPlan"], "ModelInput", 0))
      PROVE  AppInv'
  <2>1. /\ DOMAIN app' = Fields /\ app'.screen = "ModelInput" /\ app'.menu_index = 0
        /\ app'.model_flow = "LoadedPlan" /\ app'.plan_origin = "LoadedPlan" /\ app'.model_input = ""
        /\ app'.session = None /\ app'.persisted = plan /\ app'.compatibility = None
        /\ \A f \in Fields \ {"screen", "menu_index", "model_flow", "plan_origin", "model_input", "session", "persisted",
                              "compatibility", "plan"} : app'[f] = app[f]
        /\ UNCHANGED config /\ action' = None
    BY <1>3 DEF AppInv, Finish, At, Fields
  <2>2. /\ app'.history = app.history /\ app'.selected = app.selected /\ app'.comparison = app.comparison
        /\ app'.calibration_index = app.calibration_index /\ app'.error_return = app.error_return
        /\ app'.user = app.user /\ app'.runtime = app.runtime
     BY <2>1 DEF Fields
  <2>3. Current' = "ModelInput" /\ app'.screen \notin Menus BY <2>1 DEF Current, Menus
  <2>4. Places' BY <2>1, <2>2, <2>3 DEF AppInv, Places, PlanningScreens, Busy
  <2>5. Held' BY <2>1, <2>2, NoneAssumption DEF AppInv, Held
  <2>6. CursorFits' BY <2>3 DEF CursorFits
  <2>7. ~Requested("ExportRun")' BY <2>1 DEF Requested
  <2>8. app'.calibration_index \in 0..(Levels - 1) BY <2>2 DEF AppInv, Selected
  <2>9. Current' \notin RuntimeScreens BY <2>3 DEF RuntimeScreens
  <2>10. app'.comparison = None /\ app'.runtime = None BY <1>1, <2>2
  <2>11. DOMAIN config' = ConfigFields BY <2>1 DEF AppInv
  <2>12. app'.menu_index \in Nat
    <3>1. app'.menu_index = 0 BY <2>1
    <3> QED BY <3>1
  <2>13. app'.screen \notin {"RunCompareSelect", "PlanValidation"} BY <2>1
  <2> QED BY <1>1, <2>1, <2>2, <2>4, <2>5, <2>6, <2>7, <2>8, <2>9, <2>10, <2>11, <2>12, <2>13, DropFits
<1> QED BY <1>2, <1>3 DEF LoadFinished

\* A path was checked.
LEMMA ModelPathFits == ASSUME AppInv, ModelPathValidationFinished PROVE AppInv'
<1>1. /\ app.screen = "Analyzing" /\ Current = "Analyzing" /\ app.comparison = None /\ app.runtime = None
      /\ Current \notin RuntimeScreens
  <2>1. Requested("ValidateModelPath") /\ ScreenOf("ValidateModelPath") = "Analyzing"
    BY DEF ModelPathValidationFinished, ScreenOf
  <2>2. "Analyzing" \notin RuntimeScreens BY DEF RuntimeScreens
  <2> QED BY <2>1, <2>2, InFlight
<1>2. CASE Finish(ShowError(app, "ModelInput"))
  BY <1>1, <1>2, ShowErrorFits DEF Finish, ErrorReturns, PlanningScreens, RuntimeScreens
<1>3. CASE app.model_flow = "NewPlan" /\ app' = At(app, "Preferences", 0) /\ action' = None /\ UNCHANGED config
  <2>1. app.plan_origin = "NewPlan" BY <1>3 DEF AppInv, Places
  <2>2. 0 < MenuItems("Preferences") BY Counts
  <2> QED BY <1>1, <1>3, <2>1, <2>2, MoveFits DEF Busy, RuntimeScreens
<1>4. CASE /\ app.model_flow = "LoadedPlan" /\ app' = At(app, "Analyzing", 0)
           /\ action' = [kind |-> "AnalyzeLoadedPlan"] /\ UNCHANGED config
  <2>1. /\ DOMAIN app' = Fields /\ app'.screen = "Analyzing" /\ app'.menu_index = 0
        /\ \A f \in Fields \ {"screen", "menu_index"} : app'[f] = app[f]
    BY <1>4 DEF AppInv, At, Fields
  <2>2. Moves BY <1>4, <2>1 DEF Moves, Fields
  <2>3. CursorFits' BY <2>1 DEF CursorFits, Menus
  <2>4. Current' = "Analyzing" /\ app.plan_origin = "LoadedPlan"
     BY <1>4, <2>1 DEF Current, AppInv, Places
  <2>5. app'.menu_index \in Nat
    <3>1. app'.menu_index = 0 BY <2>1
    <3> QED BY <3>1
  <2>6. /\ app'.error_return \in ErrorReturns /\ app'.model_input \in Models \cup {""}
        /\ app'.calibration_index \in 0..(Levels - 1) /\ app'.selected \in ToSet(app.history) \cup {None}
    BY <2>1 DEF Fields, AppInv, Places, Held, Selected, SelectionsExist
  <2>7. action' # None /\ action'.kind = "AnalyzeLoadedPlan"
    <3>1. action' \in Requests /\ action'.kind = "AnalyzeLoadedPlan" BY <1>4 DEF Requests
    <3> QED BY <3>1, NoneAssumption
  <2>8. app'.screen \notin {"RunCompareSelect", "PlanValidation"} /\ ScreenOf("AnalyzeLoadedPlan") = "Analyzing"
    BY <2>1 DEF ScreenOf
  <2>9. "Analyzing" \notin PlanningScreens BY DEF PlanningScreens
  <2>10. Fits BY <1>1, <2>1, <2>3, <2>4, <2>5, <2>6, <2>7, <2>8, <2>9 DEF Fits
  <2> QED BY <2>2, <2>10, MoveKeeps
<1> QED BY <1>2, <1>3, <1>4 DEF ModelPathValidationFinished

\* No menu is empty.
LEMMA MenusNotEmpty == (Len(app.history) \in Nat => \A s : MenuItems(s) > 0)'
BY ConfigAssumption, TuiAssumption DEF MenuItems, PreferenceCount, CustomTest

\* An action that made or replaced the session or the plan, without a runtime.
LEMMA PlanStepFits ==
  ASSUME AppInv, app.comparison = None, app.runtime = None, action' = None, UNCHANGED config,
         DOMAIN app' = Fields, app'.menu_index = 0,
         \A f \in Fields \ {"screen", "menu_index", "session", "compatibility", "plan",
                            "calibration_complete", "error_return"} : app'[f] = app[f],
         app'.screen \notin Busy \cup {"RunCompareSelect"},
         app'.error_return \in ErrorReturns,
         Current' \notin RuntimeScreens,
         Current' \in PlanningScreens => app.plan_origin = "NewPlan",
         app'.session # None => app'.session \in Sessions,
         app'.compatibility = "Incompatible" =>
             app.plan_origin = "LoadedPlan" /\ app'.plan.model # app'.session.model
  PROVE  AppInv'
<1>1. /\ app'.history = app.history /\ app'.selected = app.selected /\ app'.comparison = app.comparison
      /\ app'.calibration_index = app.calibration_index /\ app'.persisted = app.persisted
      /\ app'.user = app.user /\ app'.runtime = app.runtime /\ app'.model_flow = app.model_flow
      /\ app'.plan_origin = app.plan_origin /\ app'.model_input = app.model_input
   BY DEF Fields
<1>2. Places' BY <1>1 DEF AppInv, Places
<1>3. Held' BY <1>1 DEF AppInv, Held
<1>4. CursorFits'
  <2>1. Len(app'.history) \in Nat BY <1>1 DEF AppInv, Selected
  <2>2. PICK s : s = app'.screen OBVIOUS
  <2>3. MenuItems(s)' > 0 BY <2>1, MenusNotEmpty
  <2> QED BY <2>2, <2>3 DEF CursorFits
<1>5. ~Requested("ExportRun")' BY DEF Requested
<1>6. app'.calibration_index \in 0..(Levels - 1) BY <1>1 DEF AppInv, Selected
<1>7. DOMAIN config' = ConfigFields BY DEF AppInv
<1>8. app'.menu_index \in Nat OBVIOUS
<1>9. app'.screen # "RunCompareSelect" OBVIOUS
<1> QED BY <1>1, <1>2, <1>3, <1>4, <1>5, <1>6, <1>7, <1>8, <1>9, DropFits

\* An analysed model makes a session.
LEMMA NewSession ==
  ASSUME AppInv, NEW ram \in Texts
  PROVE  Session(app.model_input, ram) \in Sessions /\ Session(app.model_input, ram).model = app.model_input
BY DEF AppInv, Held, Session, Sessions, Texts

\* The model was analysed or not.
LEMMA AnalysisFits == ASSUME AppInv, AnalysisFinished PROVE AppInv'
<1>1. /\ app.screen = "Analyzing" /\ Current = "Analyzing" /\ app.comparison = None /\ app.runtime = None
      /\ Current \notin RuntimeScreens /\ app.plan_origin = "NewPlan"
  <2>1. Requested("Analyze") /\ ScreenOf("Analyze") = "Analyzing" BY DEF AnalysisFinished, ScreenOf
  <2>2. "Analyzing" \notin RuntimeScreens BY DEF RuntimeScreens
  <2> QED BY <2>1, <2>2, InFlight
<1>2. PICK result \in IF app.user = None THEN {Err("Input")} ELSE Analyze(app.model_input, app.user.ram) :
          Finish(IF result.ok THEN At([app EXCEPT !.session = result.value], "ModelInfo", 0)
                 ELSE ShowError(app, "Preferences"))
  BY DEF AnalysisFinished
<1>3. CASE ~result.ok
  BY <1>1, <1>2, <1>3, ShowErrorFits DEF Finish, ErrorReturns, PlanningScreens, RuntimeScreens
<1>4. CASE result.ok
  <2>1. app.user # None /\ result = Ok(Session(app.model_input, app.user.ram))
     BY <1>2, <1>4 DEF Err, Ok, Analyze
  <2>2. app.user.ram \in Texts BY <2>1 DEF AppInv, Held
  <2>3. result.value \in Sessions BY <2>1, <2>2, NewSession DEF Ok
  <2>4. /\ DOMAIN app' = Fields /\ app'.screen = "ModelInfo" /\ app'.menu_index = 0 /\ app'.session = result.value
        /\ \A f \in Fields \ {"screen", "menu_index", "session"} : app'[f] = app[f]
        /\ UNCHANGED config /\ action' = None
    BY <1>2, <1>4 DEF AppInv, Finish, At, Fields
  <2>5. Current' = "ModelInfo" /\ Current' \notin RuntimeScreens /\ app'.screen \notin Busy \cup {"RunCompareSelect"}
    BY <2>4 DEF Current, RuntimeScreens, Busy
  <2>6. app.compatibility # "Incompatible" BY <1>1 DEF AppInv, Held
  <2>7. app'.error_return \in ErrorReturns /\ app'.compatibility # "Incompatible"
    BY <2>4, <2>6 DEF AppInv, Places, Fields
  <2> QED BY <1>1, <2>3, <2>4, <2>5, <2>7, PlanStepFits
<1> QED BY <1>3, <1>4

\* The model of a loaded plan was analysed: another model than the
\* plan's leaves the plan incompatible.
LEMMA LoadedAnalysisFits == ASSUME AppInv, LoadedAnalysisFinished PROVE AppInv'
<1>1. /\ app.screen = "Analyzing" /\ Current = "Analyzing" /\ app.comparison = None /\ app.runtime = None
      /\ Current \notin RuntimeScreens /\ app.plan_origin = "LoadedPlan"
  <2>1. Requested("AnalyzeLoadedPlan") /\ ScreenOf("AnalyzeLoadedPlan") = "Analyzing"
    BY DEF LoadedAnalysisFinished, ScreenOf
  <2>2. "Analyzing" \notin RuntimeScreens BY DEF RuntimeScreens
  <2> QED BY <2>1, <2>2, InFlight
<1>2. PICK result \in IF app.persisted = None THEN {Err("Input")}
                     ELSE Analyze(app.model_input, app.persisted.ram) \cup {Err("Materialize")} :
          IF ~result.ok THEN Finish(ShowError(app, "ModelInput"))
          ELSE \E report \in Reports(result.value, app.persisted) :
                 Finish(At([app EXCEPT !.session = result.value, !.compatibility = report,
                               !.plan = [model |-> app.persisted.model, ram |-> app.persisted.ram,
                                         mode |-> app.persisted.mode],
                               !.plan_origin = "LoadedPlan"], "PlanCompatibility", 0))
  BY DEF LoadedAnalysisFinished
<1>3. CASE ~result.ok
  BY <1>1, <1>2, <1>3, ShowErrorFits DEF Finish, ErrorReturns, PlanningScreens, RuntimeScreens
<1>4. CASE result.ok
  <2>1. app.persisted # None /\ result = Ok(Session(app.model_input, app.persisted.ram))
    <3>1. \A stage : Err(stage).ok = FALSE BY DEF Err
    <3>2. app.persisted # None BY <1>2, <1>4, <3>1
    <3>3. \/ result = Ok(Session(app.model_input, app.persisted.ram))
          \/ \E stage \in AnalysisStages : result = Err(stage)
          \/ result = Err("Materialize")
      BY <1>2, <3>2 DEF Analyze
    <3> QED BY <1>4, <3>1, <3>2, <3>3
  <2>2. app.persisted.ram \in Texts BY <2>1 DEF AppInv, Held, Texts, RamValues
  <2>3. result.value \in Sessions BY <2>1, <2>2, NewSession DEF Ok
  <2> DEFINE plan == [model |-> app.persisted.model, ram |-> app.persisted.ram, mode |-> app.persisted.mode]
  <2>4. PICK report \in Reports(result.value, app.persisted) :
                 Finish(At([app EXCEPT !.session = result.value, !.compatibility = report,
                               !.plan = plan, !.plan_origin = "LoadedPlan"], "PlanCompatibility", 0))
     BY <1>2, <1>4
  <2>5. plan.model = app.persisted.model OBVIOUS
  <2>6. report = "Incompatible" => result.value.model # plan.model BY <2>4, <2>5 DEF Reports
  <2> HIDE DEF plan
  <2>7. /\ DOMAIN app' = Fields /\ app'.screen = "PlanCompatibility" /\ app'.menu_index = 0 /\ app'.session = result.value
        /\ app'.compatibility = report /\ app'.plan = plan /\ app'.plan_origin = "LoadedPlan"
        /\ \A f \in Fields \ {"screen", "menu_index", "session", "compatibility", "plan", "plan_origin"} : app'[f] = app[f]
        /\ UNCHANGED config /\ action' = None
    BY <2>4 DEF AppInv, Finish, At, Fields
  <2>8. /\ Current' = "PlanCompatibility" /\ Current' \notin RuntimeScreens \cup PlanningScreens
        /\ app'.screen \notin Busy \cup {"RunCompareSelect"}
    BY <2>7 DEF Current, RuntimeScreens, PlanningScreens, Busy
  <2>9. app'.error_return \in ErrorReturns
    BY <2>7 DEF AppInv, Places, Fields
  <2>10. \A f \in Fields \ {"screen", "menu_index", "session", "compatibility", "plan",
                            "calibration_complete", "error_return"} : app'[f] = app[f]
     BY <1>1, <2>7
  <2> QED BY <1>1, <2>3, <2>6, <2>7, <2>8, <2>9, <2>10, PlanStepFits
<1> QED BY <1>3, <1>4

\* The calibration ended.
LEMMA CalibrationFits == ASSUME AppInv, CalibrationFinished PROVE AppInv'
<1>1. /\ app.screen = "Calibrating" /\ Current = "Calibrating" /\ app.comparison = None /\ app.runtime = None
      /\ Current \notin RuntimeScreens /\ app.plan_origin = "NewPlan"
  <2>1. Requested("RunCalibration") /\ ScreenOf("RunCalibration") = "Calibrating"
    BY DEF CalibrationFinished, ScreenOf
  <2>2. "Calibrating" \notin RuntimeScreens BY DEF RuntimeScreens
  <2> QED BY <2>1, <2>2, InFlight
<1>2. CASE Finish(ShowError(app, "CalibrationSelect"))
  BY <1>1, <1>2, ShowErrorFits DEF Finish, ErrorReturns, PlanningScreens, RuntimeScreens
<1>3. CASE Finish([app EXCEPT !.calibration_complete = TRUE, !.screen = "Calibrating"])
  <2>1. /\ DOMAIN app' = Fields /\ app'.screen = "Calibrating"
        /\ \A f \in Fields \ {"screen", "calibration_complete"} : app'[f] = app[f]
        /\ UNCHANGED config /\ action' = None
    BY <1>3 DEF AppInv, Finish, Fields
  <2>2. Moves BY <2>1 DEF Moves, Fields
  <2>3. CursorFits' BY <2>1 DEF CursorFits, Menus
  <2>4. Current' = "Calibrating" /\ app'.screen \notin Busy BY <2>1 DEF Current, Busy
  <2>5. app'.menu_index \in Nat BY <2>1 DEF Fields, AppInv, Selected
  <2>6. /\ app'.error_return \in ErrorReturns /\ app'.model_input \in Models \cup {""}
        /\ app'.calibration_index \in 0..(Levels - 1) /\ app'.selected \in ToSet(app.history) \cup {None}
    BY <2>1 DEF Fields, AppInv, Places, Held, Selected, SelectionsExist
  <2>7. app'.screen \notin {"RunCompareSelect", "PlanValidation"} BY <2>1
  <2>8. Fits BY <1>1, <2>1, <2>3, <2>4, <2>5, <2>6, <2>7 DEF Fits
  <2> QED BY <2>2, <2>8, MoveKeeps
<1> QED BY <1>2, <1>3 DEF CalibrationFinished

\* A plan was made or not.
LEMMA PlanningFits == ASSUME AppInv, PlanningFinished PROVE AppInv'
<1>1. /\ app.screen = "Analyzing" /\ Current = "Analyzing" /\ app.comparison = None /\ app.runtime = None
      /\ Current \notin RuntimeScreens /\ app.plan_origin = "NewPlan"
  <2>1. Requested("CreatePlan") /\ ScreenOf("CreatePlan") = "Analyzing" BY DEF PlanningFinished, ScreenOf
  <2>2. "Analyzing" \notin RuntimeScreens BY DEF RuntimeScreens
  <2> QED BY <2>1, <2>2, InFlight
<1>2. PICK result \in IF app.user = None \/ app.session = None THEN {Err("Input")}
                     ELSE CreatePlan(app.session, app.user) :
          Finish(IF result.ok
                 THEN At([app EXCEPT !.plan = result.value, !.plan_origin = "NewPlan"], "PlanReview", 0)
                 ELSE ShowError(app, "CalibrationSelect"))
  BY Zenon DEF PlanningFinished
<1>3. CASE ~result.ok
  BY <1>1, <1>2, <1>3, ShowErrorFits DEF Finish, ErrorReturns, PlanningScreens, RuntimeScreens
<1>4. CASE result.ok
  <2>1. /\ DOMAIN app' = Fields /\ app'.screen = "PlanReview" /\ app'.menu_index = 0 /\ app'.plan_origin = "NewPlan"
        /\ \A f \in Fields \ {"screen", "menu_index", "plan", "plan_origin"} : app'[f] = app[f]
        /\ UNCHANGED config /\ action' = None
    BY <1>2, <1>4 DEF AppInv, Finish, At, Fields
  <2>2. /\ Current' = "PlanReview" /\ Current' \notin RuntimeScreens /\ app'.screen \notin Busy \cup {"RunCompareSelect"}
        /\ Current' \notin PlanningScreens
    BY <2>1 DEF Current, RuntimeScreens, Busy, PlanningScreens
  <2>3. app.compatibility # "Incompatible" BY <1>1 DEF AppInv, Held
  <2>4. app'.error_return \in ErrorReturns /\ app'.compatibility # "Incompatible" /\ app'.session = app.session
    BY <2>1, <2>3 DEF AppInv, Places, Fields
  <2>5. app'.session # None => app'.session \in Sessions BY <2>4 DEF AppInv, Held
  <2>6. \A f \in Fields \ {"screen", "menu_index", "session", "compatibility", "plan",
                            "calibration_complete", "error_return"} : app'[f] = app[f]
     BY <1>1, <2>1
  <2> QED BY <1>1, <2>1, <2>2, <2>4, <2>5, <2>6, PlanStepFits
<1> QED BY <1>3, <1>4

\* The plan was validated or not.
LEMMA PlanValidationFits == ASSUME AppInv, PlanValidationFinished PROVE AppInv'
<1>1. /\ app.screen = "PlanValidation" /\ Current = "PlanValidation" /\ app.comparison = None /\ app.runtime = None
      /\ Current \notin RuntimeScreens
  <2>1. Requested("ValidatePlan") /\ ScreenOf("ValidatePlan") = "PlanValidation"
    BY DEF PlanValidationFinished, ScreenOf
  <2>2. "PlanValidation" \notin RuntimeScreens BY DEF RuntimeScreens
  <2> QED BY <2>1, <2>2, InFlight
<1>2. CASE Finish(At(app, "PlanValid", 0))
  <2>1. MenuItems("PlanValid") > 0 BY DEF MenuItems
  <2> QED BY <1>1, <1>2, <2>1, MoveFits DEF Finish, Busy, RuntimeScreens, PlanningScreens
<1>3. CASE Finish([app EXCEPT !.screen = "PlanReview"])
  <2>1. app.menu_index = 0 BY <1>1 DEF AppInv, Selected
  <2>2. app.menu_index < MenuItems("PlanReview") BY <2>1, Items
  <2> QED BY <1>1, <1>3, <2>2, StayFits DEF Finish, Busy, RuntimeScreens, PlanningScreens
<1> QED BY <1>2, <1>3 DEF PlanValidationFinished

\* The plan was saved or not.
LEMMA SaveFits == ASSUME AppInv, SaveFinished PROVE AppInv'
<1>1. /\ app.screen = "SavePlan" /\ Current = "SavePlan" /\ app.comparison = None /\ app.runtime = None
      /\ Current \notin RuntimeScreens
  <2>1. Requested("SavePlan") /\ ScreenOf("SavePlan") = "SavePlan" BY DEF SaveFinished, ScreenOf
  <2>2. "SavePlan" \notin RuntimeScreens BY DEF RuntimeScreens
  <2> QED BY <2>1, <2>2, InFlight
<1>2. CASE Finish(At(app, "PlanValid", 0))
  <2>1. MenuItems("PlanValid") > 0 BY DEF MenuItems
  <2> QED BY <1>1, <1>2, <2>1, MoveFits DEF Finish, Busy, RuntimeScreens, PlanningScreens
<1>3. CASE Finish([app EXCEPT !.screen = "SavePlan"])
  BY <1>1, <1>3, StayFits DEF Finish, Busy, RuntimeScreens, PlanningScreens, Menus
<1> QED BY <1>2, <1>3 DEF SaveFinished

\* The run was exported or not.
LEMMA ExportFits == ASSUME AppInv, ExportFinished PROVE AppInv'
<1>1. /\ app.screen = "ExportPath" /\ Current = "ExportPath" /\ app.comparison = None
  <2>1. Requested("ExportRun") /\ ScreenOf("ExportRun") = "ExportPath" BY DEF ExportFinished, ScreenOf
  <2> QED BY <2>1, InFlight
<1>2. CASE Finish(AfterExport(app)) BY <1>1, <1>2, AfterExportFits DEF Finish
<1>3. CASE Finish([app EXCEPT !.screen = "ExportPath"])
  BY <1>1, <1>3, StayFits DEF Finish, Busy, RuntimeScreens, PlanningScreens, Menus
<1> QED BY <1>2, <1>3 DEF ExportFinished

\* What an activation returns and leaves of the session.
LEMMA ActivateResults ==
  ASSUME NEW session \in Sessions, NEW plan, NEW r \in ActivatePlan(session, plan)
  PROVE  /\ r.session \in Sessions /\ r.session # None /\ r.session.model = session.model
         /\ r.result.ok => r.result.value = plan /\ plan.model = session.model
<1> DEFINE taken == [session EXCEPT !.source = FALSE]
           built == {[result |-> Ok(plan), session |-> taken],
                     [result |-> Err("RuntimeConstruction"), session |-> taken]}
           source == IF session.source THEN built
                     ELSE {[result |-> Err("RuntimeSourceUnavailable"), session |-> session]}
<1>1. taken \in Sessions /\ taken.model = session.model BY DEF Sessions
<1>2. PICK c \in CompilePlan(session, plan) : r \in IF c.ok THEN source ELSE {[result |-> c, session |-> session]}
  BY DEF ActivatePlan
<1>3. None \notin Sessions BY NoneAssumption
<1>4. CASE ~c.ok
  <2>1. r = [result |-> c, session |-> session] BY <1>2, <1>4
  <2> QED BY <1>3, <1>4, <2>1
<1>5. CASE c.ok
  <2>1. plan.model = session.model
    <3>1. Err("PlanCompilation").ok = FALSE BY DEF Err
    <3> QED BY <1>2, <1>5, <3>1 DEF CompilePlan
  <2>2. \/ r = [result |-> Ok(plan), session |-> taken]
        \/ r = [result |-> Err("RuntimeConstruction"), session |-> taken]
        \/ r = [result |-> Err("RuntimeSourceUnavailable"), session |-> session]
    BY <1>2, <1>5
  <2>3. r.session \in {taken, session} /\ (r.result = Ok(plan) \/ \E stage : r.result = Err(stage))
    <3> HIDE DEF taken
    <3> QED BY <2>2
  <2>4. r.result.ok => r.result.value = plan
    <3>1. Ok(plan).value = plan BY DEF Ok
    <3>2. \A stage : Err(stage).ok = FALSE BY DEF Err
    <3> QED BY <2>3, <3>1, <3>2
  <2> HIDE DEF taken
  <2> QED BY <1>1, <1>3, <2>1, <2>3, <2>4
<1> QED BY <1>4, <1>5

\* The runtime was built, from the session's source and plan, or not.
LEMMA ActivationFits == ASSUME AppInv, RuntimeActivationFinished PROVE AppInv'
<1>1. /\ app.screen = "RuntimeActivation" /\ Current = "RuntimeActivation" /\ app.comparison = None /\ app.runtime = None
      /\ Current \notin RuntimeScreens
  <2>1. Requested("ActivateRuntime") /\ ScreenOf("ActivateRuntime") = "RuntimeActivation"
    BY DEF RuntimeActivationFinished, ScreenOf
  <2>2. "RuntimeActivation" \notin RuntimeScreens BY DEF RuntimeScreens
  <2> QED BY <2>1, <2>2, InFlight
<1>2. PICK r \in IF app.session = None \/ app.plan = None
                THEN {[result |-> Err("Input"), session |-> app.session]}
                ELSE ActivatePlan(app.session, app.plan) :
          IF r.result.ok
          THEN /\ app' = At([app EXCEPT !.session = r.session, !.runtime = r.result.value],
                          "ReviewConfig", 1)
               /\ action' = None /\ UNCHANGED config
          ELSE Finish(ShowError([app EXCEPT !.session = r.session], "PlanReview"))
  BY Zenon DEF RuntimeActivationFinished
<1>3. /\ r.session # None => r.session \in Sessions
      /\ app.session # None => r.session # None /\ r.session.model = app.session.model
      /\ app.session = None => r.session = app.session
      /\ r.result.ok => /\ app.session # None /\ r.result.value = app.plan
                        /\ app.plan # None /\ app.plan.model = app.session.model
  <2>1. CASE app.session = None \/ app.plan = None
    <3>1. r = [result |-> Err("Input"), session |-> app.session] BY <1>2, <2>1
    <3>2. r.session = app.session /\ r.result = Err("Input") BY <3>1
    <3>3. r.result.ok = FALSE BY <3>2 DEF Err
    <3>4. app.session # None => app.session \in Sessions BY DEF AppInv, Held
    <3> QED BY <3>2, <3>3, <3>4
  <2>2. CASE app.session # None /\ app.plan # None
    <3>1. app.session \in Sessions BY <2>2 DEF AppInv, Held
    <3> QED BY <1>2, <2>2, <3>1, ActivateResults
  <2> QED BY <2>1, <2>2
<1>4. CASE ~r.result.ok
  <2>1. /\ DOMAIN app' = Fields /\ app'.screen = "Error" /\ app'.menu_index = 0 /\ app'.session = r.session
        /\ app'.error_return = "PlanReview"
        /\ \A f \in Fields \ {"screen", "menu_index", "session", "error_return"} : app'[f] = app[f]
        /\ UNCHANGED config /\ action' = None
    BY <1>2, <1>4 DEF AppInv, Finish, ShowError, At, Fields
  <2>2. /\ Current' = "PlanReview" /\ Current' \notin RuntimeScreens \cup PlanningScreens
        /\ app'.screen \notin Busy \cup {"RunCompareSelect"} /\ app'.error_return \in ErrorReturns
    BY <2>1 DEF Current, RuntimeScreens, PlanningScreens, Busy, ErrorReturns
  <2>3. app'.compatibility = app.compatibility /\ app'.plan = app.plan BY <2>1 DEF Fields
  <2>4. app'.compatibility = "Incompatible" =>
             app.plan_origin = "LoadedPlan" /\ app'.plan.model # app'.session.model
    BY <1>3, <2>1, <2>3 DEF AppInv, Held
  <2> QED BY <1>1, <1>3, <2>1, <2>2, <2>4, PlanStepFits
<1>5. CASE r.result.ok
  <2>1. /\ DOMAIN app' = Fields /\ app'.screen = "ReviewConfig" /\ app'.menu_index = 1 /\ app'.session = r.session
        /\ app'.runtime = app.plan
        /\ \A f \in Fields \ {"screen", "menu_index", "session", "runtime"} : app'[f] = app[f]
        /\ UNCHANGED config /\ action' = None
    BY <1>2, <1>3, <1>5 DEF AppInv, At, Fields
  <2>2. /\ app'.history = app.history /\ app'.selected = app.selected /\ app'.comparison = app.comparison
        /\ app'.calibration_index = app.calibration_index /\ app'.error_return = app.error_return
        /\ app'.model_input = app.model_input /\ app'.user = app.user
        /\ app'.persisted = app.persisted /\ app'.compatibility = app.compatibility /\ app'.plan = app.plan
        /\ app'.model_flow = app.model_flow /\ app'.plan_origin = app.plan_origin
     BY <2>1 DEF Fields
  <2>3. /\ Current' = "ReviewConfig" /\ "ReviewConfig" \in RuntimeScreens /\ Current' \notin PlanningScreens
        /\ app'.screen \notin Busy /\ app'.screen \notin {"PlanValidation", "RunCompareSelect"}
    BY <2>1 DEF Current, RuntimeScreens, PlanningScreens, Busy
  <2>4. app.compatibility # "Incompatible" BY <1>3, <1>5 DEF AppInv, Held
  <2>5. Places' BY <2>1, <2>2, <2>3 DEF AppInv, Places
  <2>6. Held' BY <1>3, <2>1, <2>2, <2>4 DEF AppInv, Held
  <2>7. app'.history \in Seq(Nat) BY <2>2 DEF AppInv, Selected
  <2>8. \A k, j \in 1..Len(app'.history) : k < j => app'.history[k] < app'.history[j]
    BY <2>2, Zenon DEF AppInv, Selected
  <2>9. app'.calibration_index \in 0..(Levels - 1) /\ app'.comparison = None
    BY <1>1, <2>2 DEF AppInv, Selected
  <2>10. app'.menu_index \in Nat /\ CursorFits'
    <3>1. app'.menu_index = 1 /\ app'.screen = "ReviewConfig" BY <2>1
    <3>2. MenuItems("ReviewConfig")' = 3 BY DEF MenuItems
    <3>3. app'.menu_index \in Nat /\ app'.menu_index < 3 BY <3>1
    <3> QED BY <3>1, <3>2, <3>3 DEF CursorFits
  <2>11. Selected' BY <2>3, <2>7, <2>8, <2>9, <2>10 DEF Selected
  <2>12. app'.runtime # None /\ app'.session # None /\ app'.plan.model = app'.session.model
    BY <1>3, <1>5, <2>1, <2>2
  <2>13. RuntimeMatchesPlan' BY <2>1, <2>2, <2>3, <2>4, <2>12 DEF RuntimeMatchesPlan, Current
  <2>14. Cardinality(ToSet(app'.history)) = Len(app'.history) /\ app'.selected \in ToSet(app'.history) \cup {None}
    BY <2>2 DEF AppInv, SelectionsExist
  <2>15. ~Requested("ExportRun")' BY <2>1 DEF Requested
  <2>16. SelectionsExist' BY <2>3, <2>9, <2>10, <2>14, <2>15 DEF SelectionsExist, CursorFits
  <2>17. DOMAIN config' = ConfigFields BY <2>1 DEF AppInv
  <2> QED BY <2>1, <2>5, <2>6, <2>11, <2>13, <2>16, <2>17 DEF AppInv
<1> QED BY <1>4, <1>5

\* Runs in the order of their numbers.
Increasing(h) == /\ h \in Seq(Nat)
                 /\ \A i, j \in 1..Len(h) : i < j => h[i] < h[j]

\* Numbers that increase are as many as they are different.
LEMMA IncreasingCount ==
  ASSUME NEW h, Increasing(h) PROVE Cardinality(ToSet(h)) = Len(h)
<1> DEFINE n == Len(h)
           S == ToSet(h)
           f == [j \in 1..n |-> h[j]]
<1>1. /\ n \in Nat /\ \A j \in 1..n : h[j] \in Nat
      /\ \A j, k \in 1..n : h[j] = h[k] => j = k
  <2>1. n \in Nat /\ \A j \in 1..n : h[j] \in Nat BY DEF Increasing
  <2>2. ASSUME NEW j \in 1..n, NEW k \in 1..n, h[j] = h[k], j # k PROVE FALSE
    <3>1. j < k \/ k < j BY <2>1, <2>2
    <3>2. h[j] < h[k] \/ h[k] < h[j] BY <3>1 DEF Increasing
    <3> QED BY <2>1, <2>2, <3>2
  <2> QED BY <2>1, <2>2
<1>2. S = {h[j] : j \in 1..n} BY DEF Increasing, ToSet
<1> HIDE DEF n, S
<1>3. IsFiniteSet(1..n) /\ Cardinality(1..n) = n BY <1>1, FS_Interval
<1>4. f \in [1..n -> S] /\ \A j \in 1..n : f[j] = h[j] BY <1>2
<1> HIDE DEF f
<1>5. f \in Bijection(1..n, S)
  <2>1. \A j, k \in 1..n : f[j] = f[k] => j = k BY <1>1, <1>4
  <2>2. \A x \in S : \E j \in 1..n : f[j] = x BY <1>2, <1>4
  <2> QED BY <1>4, <2>1, <2>2 DEF Bijection, Injection, Surjection, IsInjective
<1>6. ExistsBijection(1..n, S) BY <1>5 DEF ExistsBijection
<1>7. Cardinality(S) = Cardinality(1..n) BY <1>3, <1>6, FS_Bijection
<1> QED BY <1>3, <1>7 DEF n, S

\* The next number is beyond all that are remembered.
LEMMA NextIsBeyond ==
  ASSUME NEW h, Increasing(h)
  PROVE  NextRunId(h) \in Nat /\ \A i \in 1..Len(h) : h[i] < NextRunId(h)
<1>1. CASE h = <<>>
  <2>1. NextRunId(h) = 1 BY <1>1 DEF NextRunId
  <2>2. Len(h) = 0 BY <1>1, NoRuns
  <2> QED BY <2>1, <2>2
<1>2. CASE h # <<>>
  <2>1. Len(h) \in Nat \ {0} BY <1>2, EmptySeq DEF Increasing
  <2> DEFINE last == h[Len(h)]
  <2>2. last \in Nat /\ \A i \in 1..Len(h) : h[i] \in Nat /\ h[i] <= last
    <3>1. Len(h) \in 1..Len(h) BY <2>1
    <3>2. \A i \in 1..Len(h) : h[i] \in Nat BY DEF Increasing
    <3>3. ASSUME NEW i \in 1..Len(h) PROVE h[i] <= last
      <4>1. CASE i = Len(h) BY <3>1, <3>2, <4>1
      <4>2. CASE i # Len(h)
        <5>1. i < Len(h) BY <2>1, <4>2
        <5>2. h[i] < last BY <3>1, <5>1 DEF Increasing
        <5> QED BY <3>1, <3>2, <5>2
      <4> QED BY <4>1, <4>2
    <3> QED BY <3>1, <3>2, <3>3
  <2>3. ToSet(h) = {h[i] : i \in 1..Len(h)} BY DEF ToSet, Increasing
  <2>4. last \in ToSet(h) /\ \A m \in ToSet(h) : m <= last
    <3>1. Len(h) \in 1..Len(h) BY <2>1
    <3> QED BY <2>2, <2>3, <3>1
  <2> DEFINE max == CHOOSE n \in ToSet(h) : \A m \in ToSet(h) : m <= n
  <2>5. max \in ToSet(h) /\ \A m \in ToSet(h) : m <= max
    <3> HIDE DEF last
    <3>1. \E n \in ToSet(h) : \A m \in ToSet(h) : m <= n BY <2>4
    <3> QED BY <3>1
  <2>6. NextRunId(h) = 1 + max BY <1>2 DEF NextRunId
  <2> HIDE DEF max
  <2>7. max \in Nat /\ \A i \in 1..Len(h) : h[i] \in Nat /\ h[i] <= max BY <2>2, <2>3, <2>5
  <2> QED BY <2>6, <2>7
<1> QED BY <1>1, <1>2

\* The list with the new run, without the oldest ones.
LEMMA RememberedIncreases ==
  ASSUME NEW h, Increasing(h), NEW id \in Nat, \A i \in 1..Len(h) : h[i] < id
  PROVE  Increasing(Remembered(h, id)) /\ id \in ToSet(Remembered(h, id))
<1> DEFINE all == Append(h, id)
           n == Len(h)
           k == 1 + (IF Len(all) > MaxHistory THEN Len(all) - MaxHistory ELSE 0)
           s == SubSeq(all, k, Len(all))
<1>1. /\ n \in Nat /\ all \in Seq(Nat) /\ Len(all) = n + 1
      /\ \A i \in 1..n : all[i] = h[i]
      /\ all[n + 1] = id
  BY DEF Increasing
<1>2. \A i, j \in 1..(n + 1) : i < j => all[i] < all[j]
  <2>1. ASSUME NEW i \in 1..(n + 1), NEW j \in 1..(n + 1), i < j PROVE all[i] < all[j]
    <3>1. i \in 1..n BY <1>1, <2>1
    <3>2. CASE j = n + 1 BY <1>1, <3>1, <3>2
    <3>3. CASE j \in 1..n
      <4>1. h[i] < h[j] BY <2>1, <3>1, <3>3 DEF Increasing
      <4> QED BY <1>1, <3>1, <3>3, <4>1
    <3> QED BY <1>1, <3>2, <3>3
  <2> QED BY <2>1
<1>3. k \in 1..(n + 1) BY <1>1, TuiAssumption
<1>4. Remembered(h, id) = s BY DEF Remembered
<1> HIDE DEF all, n, k
<1>5. /\ s \in Seq(Nat) /\ Len(s) = n + 2 - k
      /\ \A i \in 1..Len(s) : s[i] = all[i + k - 1]
  BY <1>1, <1>3
<1> HIDE DEF s
<1>6. \A i, j \in 1..Len(s) : i < j => s[i] < s[j]
  <2>1. ASSUME NEW i \in 1..Len(s), NEW j \in 1..Len(s), i < j PROVE s[i] < s[j]
    <3>1. i + k - 1 \in 1..(n + 1) /\ j + k - 1 \in 1..(n + 1) /\ i + k - 1 < j + k - 1
      BY <1>1, <1>3, <1>5, <2>1
    <3>2. all[i + k - 1] < all[j + k - 1] BY <1>2, <3>1
    <3> QED BY <1>5, <3>2
  <2> QED BY <2>1
<1>7. id \in ToSet(s)
  <2>1. Len(s) \in 1..Len(s) /\ Len(s) + k - 1 = n + 1 BY <1>1, <1>3, <1>5
  <2>2. s[Len(s)] = id BY <1>1, <1>5, <2>1
  <2>3. Len(s) \in DOMAIN s BY <1>5, <2>1
  <2> QED BY <2>2, <2>3 DEF ToSet
<1> QED BY <1>4, <1>5, <1>6, <1>7 DEF Increasing

\* A run ended: it is appended under a new number, and the oldest
\* runs go when there are too many.
LEMMA GenerationFits == ASSUME AppInv, GenerationFinished PROVE AppInv'
<1>1. /\ app.screen = "GenerationRunning" /\ Current = "GenerationRunning" /\ app.comparison = None
      /\ Current \in RuntimeScreens
  <2>1. Requested("GeneratePrompt") /\ ScreenOf("GeneratePrompt") = "GenerationRunning"
    BY DEF GenerationFinished, ScreenOf
  <2>2. "GenerationRunning" \in RuntimeScreens BY DEF RuntimeScreens
  <2> QED BY <2>1, <2>2, InFlight
<1>2. PICK result \in GeneratePrompt(app) :
          IF result.ok
          THEN Finish(At([app EXCEPT !.history = Remembered(app.history, result.value),
                                        !.selected = result.value], "GenerationResult", 0))
          ELSE Finish(ShowError(app, "GenerationInput"))
  BY Zenon DEF GenerationFinished
<1>3. CASE ~result.ok
  BY <1>1, <1>2, <1>3, ShowErrorFits DEF Finish, ErrorReturns, PlanningScreens, RuntimeScreens
<1>4. CASE result.ok
  <2>1. result = Ok(NextRunId(app.history))
    <3>1. Err("Input").ok = FALSE /\ Err("Generation").ok = FALSE BY DEF Err
    <3> QED BY <1>4, <3>1 DEF GeneratePrompt
  <2>2. result.value = NextRunId(app.history) BY <2>1 DEF Ok
  <2> DEFINE id == result.value
             h == Remembered(app.history, id)
  <2>3. Increasing(app.history) BY DEF AppInv, Selected, Increasing
  <2>4. id \in Nat /\ \A i \in 1..Len(app.history) : app.history[i] < id BY <2>2, <2>3, NextIsBeyond
  <2>5. Finish(At([app EXCEPT !.history = h, !.selected = id], "GenerationResult", 0)) BY <1>2, <1>4
  <2> HIDE DEF id
  <2>6. Increasing(h) /\ id \in ToSet(h) BY <2>3, <2>4, RememberedIncreases
  <2> HIDE DEF h
  <2>7. Cardinality(ToSet(h)) = Len(h) BY <2>6, IncreasingCount
  <2>8. /\ DOMAIN app' = Fields /\ app'.screen = "GenerationResult" /\ app'.menu_index = 0 /\ app'.history = h
        /\ app'.selected = id
        /\ \A f \in Fields \ {"screen", "menu_index", "history", "selected"} : app'[f] = app[f]
        /\ UNCHANGED config /\ action' = None
    BY <2>5 DEF AppInv, Finish, At, Fields
  <2>9. /\ app'.session = app.session /\ app'.runtime = app.runtime /\ app'.comparison = app.comparison
        /\ app'.calibration_index = app.calibration_index /\ app'.error_return = app.error_return
        /\ app'.model_input = app.model_input /\ app'.user = app.user
        /\ app'.persisted = app.persisted /\ app'.compatibility = app.compatibility /\ app'.plan = app.plan
        /\ app'.model_flow = app.model_flow /\ app'.plan_origin = app.plan_origin
     BY <2>8 DEF Fields
  <2>10. /\ Current' = "GenerationResult" /\ Current' \in RuntimeScreens /\ Current' \notin PlanningScreens
         /\ app'.screen \notin Busy /\ app'.screen \notin {"PlanValidation", "RunCompareSelect"}
    BY <2>8 DEF Current, RuntimeScreens, PlanningScreens, Busy
  <2>11. Places' BY <2>8, <2>9, <2>10 DEF AppInv, Places
  <2>12. Held' BY <2>8, <2>9 DEF AppInv, Held
  <2>13. app'.menu_index \in Nat /\ CursorFits'
    <3>1. app'.menu_index = 0 /\ app'.screen = "GenerationResult" BY <2>8
    <3>2. MenuItems("GenerationResult")' = 4 BY DEF MenuItems
    <3>3. app'.menu_index \in Nat /\ app'.menu_index < 4 BY <3>1
    <3> QED BY <3>1, <3>2, <3>3 DEF CursorFits
  <2>14. Increasing(app'.history) /\ app'.selected \in ToSet(app'.history)
         /\ Cardinality(ToSet(app'.history)) = Len(app'.history)
    BY <2>6, <2>7, <2>8
  <2>15. app'.calibration_index \in 0..(Levels - 1) /\ app'.comparison = None
    BY <1>1, <2>9 DEF AppInv, Selected
  <2>16. Selected' BY <2>10, <2>13, <2>14, <2>15 DEF Selected, Increasing
  <2>17. RuntimeMatchesPlan' BY <1>1, <2>9, <2>10 DEF AppInv, RuntimeMatchesPlan, Current
  <2>18. ~Requested("ExportRun")' BY <2>8 DEF Requested
  <2>19. SelectionsExist' BY <2>10, <2>13, <2>14, <2>15, <2>18 DEF SelectionsExist, CursorFits
  <2>20. DOMAIN config' = ConfigFields BY <2>8 DEF AppInv
  <2> QED BY <2>8, <2>11, <2>12, <2>16, <2>17, <2>19, <2>20 DEF AppInv
<1> QED BY <1>3, <1>4

\* The fields of the editors' record.
EditFields == {"preference", "tokens", "backup"}

\* The fourth part: the number of tokens.
TokensInv == DOMAIN edit = EditFields /\ Tokens /\ TokensAreThoseShown

\* Two configurations with the same numbers of tokens.
SameTokens(c, d) ==
    c.tokens_preset = d.tokens_preset /\ c.max_tokens = d.max_tokens /\ c.custom_tokens = d.custom_tokens

\* A step that is not about the tokens.
Quiet == /\ DOMAIN edit' = EditFields /\ edit'.tokens = FALSE
         /\ SameTokens(config', config) /\ ~Requested("GeneratePrompt")'

\* A quiet step keeps the fourth part.
LEMMA QuietKeeps == ASSUME TokensInv, ~edit.tokens, Quiet PROVE TokensInv'
<1>1. Tokens' BY DEF TokensInv, Tokens, Quiet, SameTokens
<1>2. TokensAreThoseShown' BY DEF TokensInv, TokensAreThoseShown, Quiet, SameTokens
<1> QED BY <1>1, <1>2 DEF TokensInv, Quiet

\* Three kinds of quiet steps.
LEMMA StepQuiet == ASSUME TokensInv, ~edit.tokens, UNCHANGED <<config, edit>>, action' = None
  PROVE TokensInv'
<1>1. edit.tokens = FALSE BY DEF TokensInv, Tokens
<1>2. Quiet BY <1>1 DEF Quiet, TokensInv, SameTokens, Requested
<1> QED BY <1>2, QuietKeeps

LEMMA RequestQuiet ==
  ASSUME TokensInv, ~edit.tokens, UNCHANGED <<config, edit>>, action'.kind # "GeneratePrompt"
    PROVE TokensInv'
<1>1. edit.tokens = FALSE BY DEF TokensInv, Tokens
<1>2. Quiet BY <1>1 DEF Quiet, TokensInv, SameTokens, Requested
<1> QED BY <1>2, QuietKeeps

LEMMA EditQuiet ==
  ASSUME TokensInv, ~edit.tokens, action' = None, NEW p \in BOOLEAN, edit' = [edit EXCEPT !.preference = p] \/ edit' = edit,
         SameTokens(config', config)
  PROVE  TokensInv'
<1>1. edit.tokens = FALSE BY DEF TokensInv, Tokens
<1>2. DOMAIN edit' = EditFields /\ edit'.tokens = FALSE BY <1>1 DEF TokensInv, EditFields
<1>3. Quiet BY <1>2 DEF Quiet, Requested
<1> QED BY <1>3, QuietKeeps

\* The editor is open on one screen only.
LEMMA NoEditor == ASSUME TokensInv, app.screen # "ReviewConfig" PROVE ~edit.tokens
BY DEF TokensInv, Tokens

\* The handlers that neither touch the settings nor the editors.
PlainHandlers ==
    \/ HandleLoadPlan \/ HandleModelInput \/ HandleCalibrationSelect \/ HandleCalibrating
    \/ HandlePlanValid \/ HandleSavePlan \/ HandleGenerationResult \/ HandleRunHistory
    \/ HandleRunDetail \/ HandleRunCompareSelect \/ HandleRunCompare
    \/ HandleExportPath \/ HandleError

\* They do not request a run.
LEMMA PlainQuiet == ASSUME PlainHandlers PROVE
   /\ app.screen # "ReviewConfig" /\ UNCHANGED <<config, edit>>
   /\ action' = None \/ action'.kind # "GeneratePrompt"
<1>1. CASE HandleLoadPlan BY <1>1 DEF HandleLoadPlan, On, Idle, Back, Step, Request
<1>2. CASE HandleModelInput
  <2>1. app.screen = "ModelInput" /\ action = None BY <1>2 DEF HandleModelInput, On, Idle
  <2>2. CASE \E a : Step(a) BY <2>1, <2>2 DEF Step
  <2>3. CASE \E a : Request(a, [kind |-> "ValidateModelPath"]) BY <2>1, <2>3 DEF Request
  <2> QED BY <1>2, <2>2, <2>3 DEF HandleModelInput, Back
<1>3. CASE HandleCalibrationSelect
  <2>1. app.screen = "CalibrationSelect" /\ action = None BY <1>3 DEF HandleCalibrationSelect, On, Idle
  <2>2. CASE Menu(Levels) \/ Back("ModelInfo", 0) BY <2>1, <2>2 DEF Menu, Back, Step
  <2>3. CASE \E a : Request(a, [kind |-> "CreatePlan"]) BY <2>1, <2>3 DEF Request
  <2>4. CASE \E a : Request(a, [kind |-> "RunCalibration"]) BY <2>1, <2>4 DEF Request
  <2> QED BY <1>3, <2>2, <2>3, <2>4 DEF HandleCalibrationSelect
<1>4. CASE HandleCalibrating BY <1>4 DEF HandleCalibrating, On, Idle, Back, Step, Request
<1>5. CASE HandlePlanValid BY <1>5 DEF HandlePlanValid, On, Idle, Back, Step, Request, Menu
<1>6. CASE HandleSavePlan BY <1>6 DEF HandleSavePlan, On, Idle, Back, Step, Request
<1>7. CASE HandleGenerationResult BY <1>7 DEF HandleGenerationResult, On, Idle, Back, Step, Request, Menu
<1>8. CASE HandleRunHistory BY <1>8 DEF HandleRunHistory, On, Idle, Back, Step, Request, Menu
<1>9. CASE HandleRunDetail BY <1>9 DEF HandleRunDetail, On, Idle, Back, Step, Request, Toggle
<1>10. CASE HandleRunCompareSelect BY <1>10 DEF HandleRunCompareSelect, On, Idle, Back, Step, Request, Menu
<1>11. CASE HandleRunCompare BY <1>11 DEF HandleRunCompare, On, Idle, Back, Step, Request
<1>12. CASE HandleExportPath BY <1>12 DEF HandleExportPath, On, Idle, Back, Step, Request
<1>13. CASE HandleError BY <1>13 DEF HandleError, On, Idle, Back, Step, Request
<1> QED BY <1>1, <1>2, <1>3, <1>4, <1>5, <1>6, <1>7, <1>8, <1>9, <1>10, <1>11, <1>12, <1>13 DEF PlainHandlers

\* So they keep the fourth part.
LEMMA PlainTokens == ASSUME TokensInv, PlainHandlers PROVE TokensInv'
BY PlainQuiet, StepQuiet, RequestQuiet, NoEditor

\* A new session satisfies it.
LEMMA FreshTokens == Fresh => TokensInv
<1> SUFFICES ASSUME Fresh PROVE TokensInv OBVIOUS
<1>1. edit = NoEdit /\ config = DefaultConfig /\ action = None BY DEF Fresh
<1>2. 1 \in DOMAIN TokensPresets BY ConfigAssumption
<1>3. /\ config.tokens_preset = 0 /\ config.max_tokens = TokensPresets[1] /\ config.custom_tokens = 0
   BY <1>1 DEF DefaultConfig
<1>4. TokensPresets[1] \in Nat BY <1>2, ConfigAssumption
<1>5. edit.tokens = FALSE /\ DOMAIN edit = EditFields BY <1>1 DEF NoEdit, EditFields
<1>6. CustomTokens \in Nat \ {0} BY ConfigAssumption
<1>7. Tokens
  <2>1. config.tokens_preset \in 0..CustomTokens
    <3>1. config.tokens_preset = 0 BY <1>3
    <3> QED BY <1>6, <3>1
  <2>2. config.max_tokens \in Nat BY <1>3, <1>4
  <2>3. config.custom_tokens \in Nat
    <3>1. config.custom_tokens = 0 BY <1>3
    <3> QED BY <3>1
  <2> QED BY <1>5, <2>1, <2>2, <2>3 DEF Tokens
<1>8. TokensAreThoseShown BY <1>1, <1>3, <1>5, <1>6 DEF TokensAreThoseShown, Requested
<1> QED BY <1>5, <1>7, <1>8 DEF TokensInv

\* So does the session after an exit.
LEMMA ExitTokens == ASSUME Exit PROVE TokensInv'
<1>1. Fresh' BY DEF Exit, Fresh
<1>2. (Fresh => TokensInv)' BY FreshTokens, PTL
<1> QED BY <1>1, <1>2

\* The welcome screen starts with the default settings.
LEMMA WelcomeTokens == ASSUME TokensInv, HandleWelcome PROVE TokensInv'
<1>1. CASE Exit BY <1>1, ExitTokens
<1>2. CASE ~Exit
  <2>1. app.screen = "Welcome" /\ UNCHANGED <<config, edit>> /\ action' = None
     BY <1>2 DEF HandleWelcome, On, Idle, Back, Step, Menu
  <2> QED BY <2>1, StepQuiet, NoEditor
<1> QED BY <1>1, <1>2

\* The memory settings are apart from the token settings.
LEMMA RamTokens ==
  ASSUME NEW c, DOMAIN c = ConfigFields
  PROVE  /\ \A i : SameTokens(WithRamPreset(c, i), c)
         /\ \A forward : SameTokens(CycleRamPreset(c, forward), c)
         /\ \A text : SameTokens(EditRam(c, text), c)
         /\ SameTokens(SyncRamFromInput(c), c)
         /\ \A m : SameTokens([c EXCEPT !.mode = m], c)
         /\ \A bad : SameTokens([c EXCEPT !.bad_texts = bad], c)
         /\ \A a : SameTokens(ConfigOfLoadedPlan(a, c), c)
         /\ SameTokens(c, c)
<1>1. \A i : SameTokens(WithRamPreset(c, i), c) BY DEF SameTokens, WithRamPreset, ConfigFields
<1>2. \A forward : SameTokens(CycleRamPreset(c, forward), c) BY <1>1 DEF CycleRamPreset
<1>3. \A text : SameTokens(EditRam(c, text), c) BY DEF SameTokens, EditRam, ConfigFields
<1>4. SameTokens(SyncRamFromInput(c), c) BY DEF SameTokens, SyncRamFromInput, ConfigFields
<1>5. \A m : SameTokens([c EXCEPT !.mode = m], c) BY DEF SameTokens, ConfigFields
<1>6. \A bad : SameTokens([c EXCEPT !.bad_texts = bad], c) BY DEF SameTokens, ConfigFields
<1>7. \A a : SameTokens(ConfigOfLoadedPlan(a, c), c) BY DEF SameTokens, ConfigOfLoadedPlan, ConfigFields
<1>8. SameTokens(c, c) BY DEF SameTokens
<1> QED BY <1>1, <1>2, <1>3, <1>4, <1>5, <1>6, <1>7, <1>8

\* The settings.
LEMMA PreferencesTokens == ASSUME AppInv, TokensInv, HandlePreferences PROVE TokensInv'
<1>1. app.screen = "Preferences" /\ action = None BY DEF HandlePreferences, On, Idle
<1>2. ~edit.tokens BY <1>1, NoEditor
<1>3. DOMAIN config = ConfigFields BY DEF AppInv
<1>4. CASE \E a : Step(a) BY <1>1, <1>2, <1>4, StepQuiet DEF Step
<1>5. ASSUME NEW forward \in BOOLEAN, ChangePreferenceValue(forward) PROVE TokensInv'
  <2>1. CASE EditPreferences(CycleRamPreset(config, forward), edit)
    <3>1. SameTokens(config', config) BY <1>3, <2>1, RamTokens DEF EditPreferences
    <3> QED BY <1>1, <1>2, <2>1, <3>1, EditQuiet DEF EditPreferences
  <2>2. CASE config' = [config EXCEPT !.mode = NextMode(config, forward)] /\ UNCHANGED <<edit, action>>
    <3>1. SameTokens(config', config) BY <1>3, <2>2, RamTokens
    <3> QED BY <1>1, <1>2, <2>2, <3>1, EditQuiet
  <2> QED BY <1>5, <2>1, <2>2 DEF ChangePreferenceValue
<1>6. CASE EditPreferences(config, [edit EXCEPT !.preference = TRUE])
  <2>1. SameTokens(config', config) BY <1>6 DEF EditPreferences, SameTokens
  <2> QED BY <1>1, <1>2, <1>6, <2>1, EditQuiet DEF EditPreferences
<1>7. CASE ContinueToAnalysis
  <2>1. UNCHANGED config /\ edit' = [edit EXCEPT !.preference = FALSE] /\ action'.kind = "Analyze"
    BY <1>7 DEF ContinueToAnalysis
  <2>2. DOMAIN edit' = EditFields /\ edit'.tokens = FALSE BY <1>2, <2>1 DEF TokensInv, EditFields, Tokens
  <2>3. Quiet BY <2>1, <2>2 DEF Quiet, SameTokens, Requested
  <2> QED BY <1>2, <2>3, QuietKeeps
<1> QED BY <1>4, <1>5, <1>6, <1>7 DEF HandlePreferences, Menu, Back

\* The editor of the settings.
LEMMA PreferenceEditTokens == ASSUME AppInv, TokensInv, HandlePreferenceEdit PROVE TokensInv'
<1>1. app.screen = "Preferences" /\ action = None BY DEF HandlePreferenceEdit, On, Idle
<1>2. ~edit.tokens BY <1>1, NoEditor
<1>3. DOMAIN config = ConfigFields BY DEF AppInv
<1>4. ASSUME NEW text \in RamTexts, EditPreferences(EditRam(config, text), edit) PROVE TokensInv'
  <2>1. SameTokens(config', config) BY <1>3, <1>4, RamTokens DEF EditPreferences
  <2> QED BY <1>1, <1>2, <1>4, <2>1, EditQuiet DEF EditPreferences
<1>5. ASSUME NEW bad, EditPreferences([config EXCEPT !.bad_texts = bad], edit) PROVE TokensInv'
  <2>1. SameTokens(config', config) BY <1>3, <1>5, RamTokens DEF EditPreferences
  <2> QED BY <1>1, <1>2, <1>5, <2>1, EditQuiet DEF EditPreferences
<1>6. CASE config' = SyncRamFromInput(config) /\ edit' = [edit EXCEPT !.preference = FALSE] /\ UNCHANGED action
  <2>1. SameTokens(config', config) BY <1>3, <1>6, RamTokens
  <2> QED BY <1>1, <1>2, <1>6, <2>1, EditQuiet
<1>7. ASSUME NEW text \in RamTexts, PreferenceField = "Ram", EditPreferences(EditRam(config, text), edit)
  PROVE TokensInv'
  BY <1>4, <1>7
<1>8. ASSUME NEW bad \in {{}, {PreferenceField}},
             EditPreferences([config EXCEPT !.bad_texts = (@ \ {PreferenceField}) \cup bad], edit)
      PROVE  TokensInv'
  BY <1>5, <1>8
<1> QED BY <1>6, <1>7, <1>8, Zenon DEF HandlePreferenceEdit

\* A test preset sets the preset and its number of tokens together.
LEMMA TestPresetTokens == ASSUME AppInv, TokensInv, HandleTestPreset PROVE TokensInv'
<1>1. app.screen = "TestPreset" /\ action = None BY DEF HandleTestPreset, On, Idle
<1>2. ~edit.tokens BY <1>1, NoEditor
<1>3. DOMAIN config = ConfigFields BY DEF AppInv
<1>4. CASE \E a : Step(a) BY <1>1, <1>2, <1>4, StepQuiet DEF Step
<1>5. ASSUME NEW i, i = IF app.menu_index < CustomTest THEN app.menu_index ELSE CustomTest,
             config' = ApplyTestPreset(config, i), UNCHANGED <<edit, action>>
      PROVE TokensInv'
  <2>1. CASE i = CustomTest
    <3>1. config' = config BY <1>5, <2>1 DEF ApplyTestPreset
    <3> QED BY <1>1, <1>2, <1>5, <3>1, StepQuiet
  <2>2. CASE i # CustomTest
    <3>1. app.menu_index \in Nat /\ CustomTest \in Nat BY ConfigAssumption DEF AppInv, Selected
    <3>2. i + 1 \in DOMAIN TestPresets BY <1>5, <2>2, <3>1, ConfigAssumption
    <3> DEFINE t == TestPresets[i + 1].tokens_preset
    <3>3. t \in 0..(CustomTokens - 1) BY <3>2, ConfigAssumption
    <3>4. t + 1 \in DOMAIN TokensPresets /\ CustomTokens \in Nat BY <3>3, ConfigAssumption
    <3>5. TokensPresets[t + 1] \in Nat BY <3>4, ConfigAssumption
    <3>6. PICK c : c = WithRamPreset(config, TestPresets[i + 1].ram_preset) OBVIOUS
    <3>7. DOMAIN c = ConfigFields /\ SameTokens(c, config)
      BY <1>3, <3>6, RamTokens DEF WithRamPreset, ConfigFields
    <3>8. config' = [c EXCEPT !.mode = TestPresets[i + 1].mode, !.tokens_preset = t,
                              !.max_tokens = TokensPresets[t + 1], !.bad_texts = {}]
      BY <1>5, <2>2, <3>6 DEF ApplyTestPreset
    <3> HIDE DEF t
    <3>9. /\ config'.tokens_preset = t /\ config'.max_tokens = TokensPresets[t + 1]
          /\ config'.custom_tokens = config.custom_tokens
      BY <3>7, <3>8 DEF ConfigFields, SameTokens
    <3>10. edit' = edit /\ action' = None BY <1>1, <1>5
    <3>11. t \in 0..CustomTokens /\ t # CustomTokens BY <3>3, <3>4
    <3>12. Tokens' BY <1>2, <3>5, <3>9, <3>10, <3>11 DEF TokensInv, Tokens
    <3>13. TokensAreThoseShown' BY <3>9, <3>10, <3>11 DEF TokensAreThoseShown, Requested
    <3> QED BY <3>10, <3>12, <3>13 DEF TokensInv
  <2> QED BY <2>1, <2>2
<1> QED BY <1>4, <1>5 DEF HandleTestPreset, Menu, Back

\* The screens that can go back to planning.
LEMMA PlanningTokens ==
  ASSUME AppInv, TokensInv, HandleModelInfo \/ HandlePlanReview \/ HandleLoadedPlanReview \/ HandlePlanCompatibility
  PROVE  TokensInv'
<1>1. app.screen # "ReviewConfig" /\ action = None
  BY DEF HandleModelInfo, HandlePlanReview, HandleLoadedPlanReview, HandlePlanCompatibility, On, Idle
<1>2. ~edit.tokens BY <1>1, NoEditor
<1>3. DOMAIN config = ConfigFields BY DEF AppInv
<1>4. CASE \E a : Step(a) BY <1>1, <1>2, <1>4, StepQuiet DEF Step
<1>5. CASE edit' = [edit EXCEPT !.preference = FALSE] /\ UNCHANGED <<config, action>>
  <2>1. SameTokens(config', config) BY <1>5 DEF SameTokens
  <2> QED BY <1>1, <1>2, <1>5, <2>1, EditQuiet
<1>6. CASE ValidateRequested BY <1>2, <1>6, RequestQuiet DEF ValidateRequested, Request
<1>7. CASE ToPlanning
  <2>1. SameTokens(config', config) BY <1>3, <1>7, RamTokens DEF ToPlanning
  <2> QED BY <1>1, <1>2, <1>7, <2>1, EditQuiet DEF ToPlanning
<1>8. CASE HandleModelInfo BY <1>4, <1>5, <1>8 DEF HandleModelInfo, Toggle
<1>9. CASE HandlePlanReview BY <1>4, <1>5, <1>6, <1>9 DEF HandlePlanReview, Toggle, Back
<1>10. CASE HandleLoadedPlanReview BY <1>4, <1>6, <1>7, <1>10 DEF HandleLoadedPlanReview, Toggle, Back
<1>11. CASE HandlePlanCompatibility BY <1>4, <1>7, <1>11 DEF HandlePlanCompatibility, Menu, Back
<1> QED BY <1>8, <1>9, <1>10, <1>11

\* A run is requested with the number shown, and with at least one token.
LEMMA GenerationInputTokens == ASSUME TokensInv, HandleGenerationInput PROVE TokensInv'
<1>1. app.screen = "GenerationInput" /\ action = None BY DEF HandleGenerationInput, On, Idle
<1>2. ~edit.tokens BY <1>1, NoEditor
<1>3. CASE \E a : Step(a) BY <1>1, <1>2, <1>3, StepQuiet DEF Step
<1>4. ASSUME config.max_tokens > 0, NEW a,
             Request(a, [kind |-> "GeneratePrompt", max_tokens |-> config.max_tokens])
      PROVE  TokensInv'
  <2>1. UNCHANGED <<config, edit>> /\ action'.max_tokens > 0 BY <1>4 DEF Request
  <2>2. Tokens' BY <1>2, <2>1 DEF TokensInv, Tokens
  <2>3. TokensAreThoseShown' BY <2>1 DEF TokensInv, TokensAreThoseShown
  <2> QED BY <2>1, <2>2, <2>3 DEF TokensInv
<1> QED BY <1>3, <1>4 DEF HandleGenerationInput, Back

\* The settings with other numbers of tokens.
TokensSet(d, i, u, v) == d.tokens_preset = i /\ d.max_tokens = u /\ d.custom_tokens = v

\* The editor closes, or stays closed, with the number the preset shows.
LEMMA ClosedFits ==
  ASSUME DOMAIN edit' = EditFields, edit'.tokens = FALSE, action' = None,
         NEW i \in 0..CustomTokens, NEW u \in Nat, NEW v \in Nat, TokensSet(config', i, u, v),
         u = IF i = CustomTokens THEN v ELSE TokensPresets[i + 1]
  PROVE  TokensInv'
BY DEF TokensInv, Tokens, TokensAreThoseShown, Requested, TokensSet

\* It is open, with the numbers to return to.
LEMMA OpenFits ==
  ASSUME DOMAIN edit' = EditFields, edit'.tokens = TRUE, action' = None,
         app'.screen = "ReviewConfig", edit'.backup[1] \in Nat, edit'.backup[2] = edit'.backup[1],
         NEW u \in Nat, NEW v \in Nat, TokensSet(config', CustomTokens, u, v)
  PROVE  TokensInv'
<1>1. CustomTokens \in 0..CustomTokens BY ConfigAssumption
<1> QED BY <1>1 DEF TokensInv, Tokens, TokensAreThoseShown, Requested, TokensSet

\* The presets are numbers.
LEMMA Presets == \A i \in 0..CustomTokens : i # CustomTokens => TokensPresets[i + 1] \in Nat
<1> SUFFICES ASSUME NEW i \in 0..CustomTokens, i # CustomTokens PROVE TokensPresets[i + 1] \in Nat OBVIOUS
<1>1. i + 1 \in DOMAIN TokensPresets BY ConfigAssumption
<1> QED BY <1>1, ConfigAssumption

\* Leaving the generation settings closes the editor.
LEMMA BackToPlanValidTokens ==
  ASSUME TokensInv, action = None, ~edit.tokens, BackToPlanValid PROVE TokensInv'
<1>1. UNCHANGED <<config, action>> /\ edit' = [edit EXCEPT !.tokens = FALSE, !.backup = None]
  BY DEF BackToPlanValid
<1>2. DOMAIN edit' = EditFields /\ edit'.tokens = FALSE BY <1>1 DEF TokensInv, EditFields
<1>3. Quiet BY <1>1, <1>2 DEF Quiet, SameTokens, Requested
<1> QED BY <1>3, QuietKeeps

\* The generation settings open the editor with the numbers to return to.
LEMMA ReviewConfigTokens == ASSUME AppInv, TokensInv, HandleReviewConfig PROVE TokensInv'
<1>1. app.screen = "ReviewConfig" /\ action = None /\ ~edit.tokens BY DEF HandleReviewConfig, On, Idle
<1>2. DOMAIN config = ConfigFields /\ DOMAIN edit = EditFields /\ edit.tokens = FALSE
  BY <1>1 DEF AppInv, TokensInv, Tokens
<1>3. /\ config.tokens_preset \in 0..CustomTokens /\ config.custom_tokens \in Nat /\ config.max_tokens \in Nat
      /\ config.max_tokens = IF config.tokens_preset = CustomTokens THEN config.custom_tokens
                              ELSE TokensPresets[config.tokens_preset + 1]
  BY <1>1 DEF TokensInv, Tokens, TokensAreThoseShown
<1>4. CASE \E a : Step(a) BY <1>1, <1>4, StepQuiet DEF Step
<1>5. ASSUME NEW forward \in BOOLEAN, EditPreferences(CycleMaxTokensPreset(config, forward), edit)
  PROVE TokensInv'
  <2> DEFINE i == Cycle(config.tokens_preset, CustomTokens + 1, forward)
             u == IF i = CustomTokens THEN config.custom_tokens ELSE TokensPresets[i + 1]
  <2>1. i \in 0..CustomTokens
    <3>0. CustomTokens \in Nat BY ConfigAssumption
    <3>1. CustomTokens + 1 \in Nat \ {0} /\ (CustomTokens + 1) - 1 = CustomTokens BY <3>0
    <3> QED BY <1>3, <3>1, CycleRange
  <2>2. u \in Nat BY <1>3, <2>1, Presets
  <2>3. config' = [config EXCEPT !.tokens_preset = i, !.max_tokens = u] /\ edit' = edit /\ action' = None
    BY <1>1, <1>5 DEF EditPreferences, CycleMaxTokensPreset
  <2>5. u = IF i = CustomTokens THEN config.custom_tokens ELSE TokensPresets[i + 1] OBVIOUS
  <2> HIDE DEF i, u
  <2>4. TokensSet(config', i, u, config.custom_tokens) BY <1>2, <2>3 DEF TokensSet, ConfigFields
  <2> QED BY <1>2, <1>3, <2>1, <2>2, <2>3, <2>4, <2>5, ClosedFits
<1>6. CASE /\ config.tokens_preset = CustomTokens
           /\ EditPreferences(StartCustomMaxTokensEdit(config),
                [edit EXCEPT !.tokens = TRUE, !.backup = <<config.custom_tokens, config.max_tokens>>])
  <2>1. config.max_tokens = config.custom_tokens BY <1>3, <1>6
  <2>2. config' = config
     BY <1>3, <1>6, <2>1 DEF EditPreferences, StartCustomMaxTokensEdit
  <2> DEFINE b == <<config.custom_tokens, config.max_tokens>>
  <2>3. b[1] = config.custom_tokens /\ b[2] = config.max_tokens OBVIOUS
  <2>4. edit' = [edit EXCEPT !.tokens = TRUE, !.backup = b] /\ app' = app /\ action' = None
     BY <1>1, <1>6 DEF EditPreferences
  <2> HIDE DEF b
  <2>5. DOMAIN edit' = EditFields /\ edit'.tokens = TRUE /\ edit'.backup = b BY <1>2, <2>4 DEF EditFields
  <2>6. TokensSet(config', CustomTokens, config.max_tokens, config.custom_tokens)
     BY <1>6, <2>2 DEF TokensSet
  <2> QED BY <1>1, <1>3, <2>1, <2>3, <2>4, <2>5, <2>6, OpenFits
<1>7. CASE BackToPlanValid BY <1>1, <1>7, BackToPlanValidTokens
<1> QED BY <1>4, <1>5, <1>6, <1>7 DEF HandleReviewConfig, Menu, Back

\* The editor restores both numbers when it is cancelled and commits both otherwise.
LEMMA MaxTokensEditTokens == ASSUME AppInv, TokensInv, HandleMaxTokensEdit PROVE TokensInv'
<1>1. app.screen = "ReviewConfig" /\ action = None /\ edit.tokens BY DEF HandleMaxTokensEdit, On, Idle
<1>2. DOMAIN config = ConfigFields /\ DOMAIN edit = EditFields /\ edit.tokens = TRUE
  BY <1>1 DEF AppInv, TokensInv, Tokens
<1>3. /\ config.tokens_preset = CustomTokens /\ config.custom_tokens \in Nat /\ config.max_tokens \in Nat
      /\ edit.backup[1] \in Nat /\ edit.backup[2] = edit.backup[1]
  BY <1>1 DEF TokensInv, Tokens
<1>4. CustomTokens \in 0..CustomTokens BY ConfigAssumption
\* Typing: the editor stays open.
<1>5. ASSUME NEW u \in Nat, EditPreferences([config EXCEPT !.custom_tokens = u, !.max_tokens = u], edit)
  PROVE TokensInv'
  <2>1. TokensSet(config', CustomTokens, u, u)
    BY <1>2, <1>3, <1>5 DEF EditPreferences, TokensSet, ConfigFields
  <2>2. app' = app /\ edit' = edit /\ action' = None BY <1>1, <1>5 DEF EditPreferences
  <2> QED BY <1>1, <1>2, <1>3, <2>1, <2>2, OpenFits
<1>6. ASSUME NEW digit \in Digits, EditPreferences(EditCustomMaxTokensCharacter(config, digit, MaxMaxTokens), edit)
      PROVE  TokensInv'
  <2> DEFINE v == 10 * config.custom_tokens + digit
  <2>1. v \in Nat
    <3>1. digit \in Nat BY ConfigAssumption
    <3> QED BY <1>3, <3>1
  <2>2. \/ EditPreferences(config, edit)
        \/ EditPreferences([config EXCEPT !.custom_tokens = v, !.max_tokens = v], edit)
    BY <1>6 DEF EditCustomMaxTokensCharacter
  <2> HIDE DEF v
  <2>3. CASE EditPreferences(config, edit)
    <3>1. TokensSet(config', CustomTokens, config.max_tokens, config.custom_tokens)
      BY <1>3, <2>3 DEF EditPreferences, TokensSet
    <3>2. app' = app /\ edit' = edit /\ action' = None BY <1>1, <2>3 DEF EditPreferences
    <3> QED BY <1>1, <1>2, <1>3, <3>1, <3>2, OpenFits
  <2> QED BY <1>5, <2>1, <2>2, <2>3
<1>7. CASE EditPreferences(EditCustomMaxTokensBackspace(config), edit)
  <2> DEFINE v == config.custom_tokens \div 10
  <2>1. v \in Nat BY <1>3
  <2>2. EditPreferences([config EXCEPT !.custom_tokens = v, !.max_tokens = v], edit)
    BY <1>7 DEF EditCustomMaxTokensBackspace
  <2> HIDE DEF v
  <2> QED BY <1>5, <2>1, <2>2
<1>8. CASE EditPreferences([config EXCEPT !.custom_tokens = edit.backup[1], !.max_tokens = edit.backup[2]],
                           [edit EXCEPT !.tokens = FALSE, !.backup = None])
  <2>1. TokensSet(config', CustomTokens, edit.backup[2], edit.backup[1])
    BY <1>2, <1>3, <1>8 DEF EditPreferences, TokensSet, ConfigFields
  <2>2. DOMAIN edit' = EditFields /\ edit'.tokens = FALSE /\ action' = None
    BY <1>1, <1>2, <1>8 DEF EditPreferences, EditFields
  <2> QED BY <1>3, <1>4, <2>1, <2>2, ClosedFits
<1>9. CASE /\ config' = CommitCustomMaxTokens(config)
           /\ edit' = [edit EXCEPT !.tokens = FALSE, !.backup = None] /\ UNCHANGED action
  <2>1. TokensSet(config', CustomTokens, config.custom_tokens, config.custom_tokens)
    BY <1>2, <1>3, <1>9 DEF CommitCustomMaxTokens, TokensSet, ConfigFields
  <2>2. DOMAIN edit' = EditFields /\ edit'.tokens = FALSE /\ action' = None
    BY <1>1, <1>2, <1>9 DEF EditFields
  <2> QED BY <1>3, <1>4, <2>1, <2>2, ClosedFits
<1> QED BY <1>6, <1>7, <1>8, <1>9 DEF HandleMaxTokensEdit

\* No action that ends changes the number of tokens.
LEMMA ExecuteTokens == ASSUME AppInv, TokensInv, ExecuteAction PROVE TokensInv'
<1>1. action # None
  BY DEF ExecuteAction, LoadFinished, ModelPathValidationFinished, AnalysisFinished,
         LoadedAnalysisFinished, CalibrationFinished, PlanningFinished, PlanValidationFinished,
         RuntimeActivationFinished, GenerationFinished, SaveFinished, ExportFinished, Requested
<1>2. ~edit.tokens
  <2>1. app.screen = ScreenOf(action.kind) BY <1>1 DEF AppInv, Places
  <2>2. ScreenOf(action.kind) # "ReviewConfig" BY DEF ScreenOf
  <2> QED BY <2>1, <2>2, NoEditor
<1>3. CASE \E a : Finish(a) BY <1>2, <1>3, StepQuiet DEF Finish
<1>4. CASE edit' = [edit EXCEPT !.preference = FALSE] /\ action' = None /\ UNCHANGED config
  <2>1. SameTokens(config', config) BY <1>4 DEF SameTokens
  <2> QED BY <1>2, <1>4, <2>1, EditQuiet
<1>5. CASE action' = [kind |-> "AnalyzeLoadedPlan"] /\ UNCHANGED <<config, edit>>
  BY <1>2, <1>5, RequestQuiet
<1>6. CASE edit' = [edit EXCEPT !.tokens = FALSE, !.backup = None] /\ action' = None /\ UNCHANGED config
  <2>1. DOMAIN edit' = EditFields /\ edit'.tokens = FALSE BY <1>6 DEF TokensInv, EditFields
  <2>2. Quiet BY <1>6, <2>1 DEF Quiet, SameTokens, Requested
  <2> QED BY <1>2, <2>2, QuietKeeps
<1>7. CASE LoadFinished BY <1>3, <1>7 DEF LoadFinished
<1>8. CASE ModelPathValidationFinished BY <1>3, <1>4, <1>5, <1>8 DEF ModelPathValidationFinished
<1>9. CASE AnalysisFinished BY <1>3, <1>9 DEF AnalysisFinished
<1>10. CASE LoadedAnalysisFinished BY <1>3, <1>10 DEF LoadedAnalysisFinished
<1>11. CASE CalibrationFinished BY <1>3, <1>11 DEF CalibrationFinished
<1>12. CASE PlanningFinished BY <1>3, <1>12 DEF PlanningFinished
<1>13. CASE PlanValidationFinished BY <1>3, <1>13 DEF PlanValidationFinished
<1>14. CASE RuntimeActivationFinished BY <1>3, <1>6, <1>14 DEF RuntimeActivationFinished
<1>15. CASE GenerationFinished BY <1>3, <1>15 DEF GenerationFinished
<1>16. CASE SaveFinished BY <1>3, <1>16 DEF SaveFinished
<1>17. CASE ExportFinished BY <1>3, <1>17 DEF ExportFinished
<1> QED BY <1>7, <1>8, <1>9, <1>10, <1>11, <1>12, <1>13, <1>14, <1>15, <1>16, <1>17 DEF ExecuteAction

\* The inductive invariant.
IInv == AppInv /\ TokensInv

\* It holds initially ...
LEMMA InitFits == Init => IInv
<1>1. Init => Fresh BY DEF Init, Fresh
<1> QED BY <1>1, FreshFits, FreshTokens DEF IInv

\* ... and every key and every ended action keeps it.
LEMMA NextFits == IInv /\ [Next]_vars => IInv'
<1> SUFFICES ASSUME IInv, [Next]_vars PROVE IInv' OBVIOUS
<1>0. AppInv /\ TokensInv BY DEF IInv
<1>1. CASE Handle
  <2>1. CASE HandleWelcome BY <1>0, <2>1, WelcomeFits, WelcomeTokens DEF IInv
  <2>2. CASE PlainHandlers
    <3>1. AppInv'
      BY <1>0, <2>2, LoadPlanFits, ModelInputFits, CalibrationSelectFits, CalibratingFits, PlanValidFits,
         SavePlanFits, GenerationResultFits, RunHistoryFits, RunDetailFits, RunCompareSelectFits, RunCompareFits,
         ExportPathFits, ErrorFits DEF PlainHandlers
    <3> QED BY <1>0, <2>2, <3>1, PlainTokens DEF IInv
  <2>3. CASE HandlePreferences BY <1>0, <2>3, PreferencesFits, PreferencesTokens DEF IInv
  <2>4. CASE HandlePreferenceEdit BY <1>0, <2>4, PreferenceEditFits, PreferenceEditTokens DEF IInv
  <2>5. CASE HandleTestPreset BY <1>0, <2>5, TestPresetFits, TestPresetTokens DEF IInv
  <2>6. CASE HandleModelInfo BY <1>0, <2>6, ModelInfoFits, PlanningTokens DEF IInv
  <2>7. CASE HandlePlanReview BY <1>0, <2>7, PlanReviewFits, PlanningTokens DEF IInv
  <2>8. CASE HandleLoadedPlanReview BY <1>0, <2>8, LoadedPlanReviewFits, PlanningTokens DEF IInv
  <2>9. CASE HandlePlanCompatibility BY <1>0, <2>9, PlanCompatibilityFits, PlanningTokens DEF IInv
  <2>10. CASE HandleReviewConfig BY <1>0, <2>10, ReviewConfigFits, ReviewConfigTokens DEF IInv
  <2>11. CASE HandleMaxTokensEdit BY <1>0, <2>11, MaxTokensEditFits, MaxTokensEditTokens DEF IInv
  <2>12. CASE HandleGenerationInput
    BY <1>0, <2>12, GenerationInputFits, GenerationInputTokens DEF IInv, TokensInv
  <2>13. CASE Quit BY <2>13, ExitFits, ExitTokens DEF IInv, Quit
  <2> QED BY <1>1, <2>1, <2>2, <2>3, <2>4, <2>5, <2>6, <2>7, <2>8, <2>9, <2>10, <2>11, <2>12, <2>13
        DEF Handle, PlainHandlers
<1>2. CASE ExecuteAction
  <2>1. AppInv'
    BY <1>0, <1>2, LoadFits, ModelPathFits, AnalysisFits, LoadedAnalysisFits, CalibrationFits, PlanningFits,
       PlanValidationFits, ActivationFits, GenerationFits, SaveFits, ExportFits DEF ExecuteAction
  <2> QED BY <1>0, <1>2, <2>1, ExecuteTokens DEF IInv
<1>3. CASE TerminalFails BY <1>3, ExitFits, ExitTokens DEF IInv, TerminalFails
<1>4. CASE UNCHANGED vars
  <2>1. UNCHANGED <<app, config, edit, action>> BY <1>4 DEF vars
  <2>2. AppInv'
    <3>1. Places' BY <1>0, <2>1 DEF AppInv, Places, Current
    <3>2. Held' BY <1>0, <2>1 DEF AppInv, Held
    <3>3. Selected' BY <1>0, <2>1, Zenon DEF AppInv, Selected
    <3>4. RuntimeMatchesPlan' BY <1>0, <2>1, Zenon DEF AppInv, RuntimeMatchesPlan
    <3>5. SelectionsExist'
      BY <1>0, <2>1, Zenon DEF AppInv, SelectionsExist, Requested, MenuItems, PreferenceCount
    <3> QED BY <1>0, <2>1, <3>1, <3>2, <3>3, <3>4, <3>5 DEF AppInv
  <2>3. TokensInv' BY <1>0, <2>1 DEF TokensInv, Tokens, TokensAreThoseShown, Requested
  <2> QED BY <2>2, <2>3 DEF IInv
<1> QED BY <1>1, <1>2, <1>3, <1>4 DEF Next

\* The inductive invariant holds: the interface is on a screen that fits the action in
\* flight, and the session, the cursor, the selections and the editors fit the screen
\* (app.rs, handle and execute_action).
THEOREM AppInvariant == Spec => []IInv
BY InitFits, NextFits, PTL DEF Spec

\* What the user sees is what there is, for every number of models, presets and runs:
\* a runtime exists exactly on the runtime screens and is that of the plan and of the
\* model in the session, the cursor and the selected runs exist, and the number of
\* tokens requested is the one the preset shows (app.rs, the screen handlers,
\* activate_plan, remember_run and the token editor).
THEOREM ScreenMatchesSessionTheorem == Spec => []ScreenMatchesSession
<1>1. IInv => ScreenMatchesSession BY DEF IInv, AppInv, TokensInv, ScreenMatchesSession
<1> QED BY <1>1, AppInvariant, PTL

\* A screen that ignores every key always has an action in flight whose end will replace
\* it (app.rs, the last case of handle, execute_action).
THEOREM NeverStuckTheorem == Spec => []NeverStuck
<1>1. IInv => NeverStuck BY DEF IInv, AppInv, Places, NeverStuck
<1> QED BY <1>1, AppInvariant, PTL
=============================================================================
