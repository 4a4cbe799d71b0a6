--------------------------- MODULE PredictionRuns ---------------------------
(***************************************************************************)
(* Runs of the program with prediction on (crates/ramforge-cli/src/main.rs,*)
(* the residency run), one after the other over one profile file and one   *)
(* history file, for a model that may be replaced between runs.  A run may *)
(* die between any two steps.                                              *)
(***************************************************************************)
EXTENDS Prediction

CONSTANTS
    Models,     \* [identity, inventory] pairs
    Configs,    \* valid prediction configurations
    Situations, \* [current, hard, reserve, admitted]: what admission measured
    Traces,     \* traces of an execution
    Histories,  \* histories left by earlier runs
    MaxRuns     \* bound on the number of runs

ASSUME ConfigsAssumption == \A config \in Configs : ValidConfig(config)

VARIABLES
    model,  \* the model on disk
    disk,   \* the profile file and the history file
    run,    \* the run in progress
    runs    \* how many were started

predictionVars == <<model, disk, run, runs>>

Idle == [phase |-> "idle"]

PredictionStart(models, histories) ==
    /\ model \in models
    /\ disk \in [profile : {NoFile}, history : histories]
    /\ run = Idle
    /\ runs = 0

PredictionInit == PredictionStart(Models, {NoFile} \cup Histories)

\* A file is loaded if the run asks for it; one that does not load ends the run.
\* load_profile: a profile of this very model, validated as when it was saved.
ProfileLoads(file) == file # NoFile /\ ValidFor(file, model.identity) /\ Persistable(file)

\* load_prediction_history
HistoryLoads(file) == file # NoFile /\ file.identity = model.identity

StartRun(config, with_profile, with_history) ==
    /\ run = Idle
    /\ runs < MaxRuns
    /\ with_profile => ProfileLoads(disk.profile)
    /\ with_history => HistoryLoads(disk.history)
    /\ run' = [phase |-> "loaded", config |-> config,
               profile |-> IF with_profile THEN disk.profile ELSE NoFile,
               history |-> IF with_history THEN disk.history ELSE NoFile]
    /\ runs' = runs + 1
    /\ UNCHANGED <<model, disk>>

\* predict_from_profile, record_predictions and plan_predictions.
MakePlan(s) ==
    /\ run.phase = "loaded"
    /\ LET predictions == Predict(run.config, run.profile, model.inventory, run.history)
           history == IF run.history = NoFile THEN NewHistory(model.identity) ELSE run.history
       IN run' = [phase |-> "planned", config |-> run.config, situation |-> s,
                  predictions |-> predictions,
                  history |-> WithPredictions(history, predictions),
                  plan |-> PlanPredictions(run.config, predictions, model.inventory,
                                           s.current, s.hard, s.reserve, s.admitted)]
    /\ UNCHANGED <<model, disk, runs>>

\* execute_staging: one native call for all of it, if there is any.
Stage(staging) ==
    /\ run.phase = "planned"
    /\ StagedKeys(run.plan) = {} => staging = [accepted_bytes |-> 0, error |-> FALSE]
    /\ run' = [run EXCEPT !.phase = "staged"] @@ [staging |-> staging]
    /\ UNCHANGED <<model, disk, runs>>

StagingOutcomes(plan) ==
    {[accepted_bytes |-> bytes, error |-> FALSE] : bytes \in {0, RequestedBytes(plan)}}
        \cup {[accepted_bytes |-> 0, error |-> TRUE]}

\* The generation ran and was traced.
Observe(events, complete) ==
    /\ run.phase = "staged"
    /\ run' = [run EXCEPT !.phase = "observed"]
                @@ [observed |-> UpdatedFromTrace(NewProfile(model.identity), events, complete)]
    /\ UNCHANGED <<model, disk, runs>>

\* save_json_file, where asked for: an incomplete profile is an error that
\* ends the run.
SaveProfile(asked) ==
    /\ run.phase = "observed"
    /\ IF asked /\ ~Persistable(run.observed)
       THEN run' = Idle
       ELSE run' = [run EXCEPT !.phase = "saved"]
    /\ disk' = IF asked /\ Persistable(run.observed)
               THEN [disk EXCEPT !.profile = run.observed] ELSE disk
    /\ UNCHANGED <<model, runs>>

\* Mutant: the feedback is recorded, the evaluation is not.
ScoreWithoutEvaluation ==
    /\ run.phase = "saved"
    /\ run' = [run EXCEPT !.phase = "scored",
                          !.history = WithFeedback(@, run.predictions, run.observed, run.plan)]
    /\ UNCHANGED <<model, disk, runs>>

\* evaluate_predictions, record_feedback and record_evaluation, on a valid
\* profile of this run only.
Score ==
    /\ run.phase = "saved"
    /\ run' = [run EXCEPT
                 !.phase = "scored",
                 !.history = IF ~ValidFor(run.observed, model.identity) THEN @
                             ELSE WithEvaluation(
                                     WithFeedback(@, run.predictions, run.observed, run.plan),
                                     run.predictions, run.observed, model.inventory, run.plan,
                                     run.staging, run.config.lookahead)]
    /\ UNCHANGED <<model, disk, runs>>

\* save writes a temporary file and renames it over the old one.
FinishRun(save) ==
    /\ run.phase = "scored"
    /\ disk' = IF save THEN [disk EXCEPT !.history = run.history] ELSE disk
    /\ run' = Idle
    /\ UNCHANGED <<model, runs>>

Die ==
    /\ run # Idle
    /\ run' = Idle
    /\ UNCHANGED <<model, disk, runs>>

ReplaceModel ==
    /\ run = Idle
    /\ runs < MaxRuns
    /\ model' \in Models \ {model}
    /\ UNCHANGED <<disk, run, runs>>

PredictionNext ==
    \/ \E config \in Configs, p, h \in BOOLEAN : StartRun(config, p, h)
    \/ \E s \in Situations : MakePlan(s)
    \/ run.phase = "planned" /\ \E staging \in StagingOutcomes(run.plan) : Stage(staging)
    \/ \E events \in Traces, complete \in BOOLEAN : Observe(events, complete)
    \/ \E asked \in BOOLEAN : SaveProfile(asked)
    \/ Score
    \/ \E save \in BOOLEAN : FinishRun(save)
    \/ Die
    \/ ReplaceModel

PredictionSpec == PredictionInit /\ [][PredictionNext]_predictionVars
-----------------------------------------------------------------------------
SumOver(S, F(_)) == MapThenSumSet(F, S)

AddsUp(h) ==
    /\ \A f \in DOMAIN NewRecord :
          h.all[f] = SumOver(DOMAIN h.records, LAMBDA n : h.records[n][f])
    /\ \A n \in DOMAIN h.records :
          /\ h.records[n].hits + h.records[n].misses <= h.records[n].predictions
          /\ h.records[n].wasted_bytes <= h.records[n].staged_bytes
          /\ h.records[n].misses = 0 => h.records[n].wasted_bytes = 0
    /\ SumOver(Classes, LAMBDA c : h.buckets[c].predictions) = h.all.hits + h.all.misses
    /\ SumOver(Classes, LAMBDA c : h.buckets[c].hits) = h.all.hits
    /\ h.accepted = h.followed + h.not_followed
    /\ h.accepted <= h.all.staged

(***************************************************************************)
(* The history file adds up after any runs, whichever were cut short, used *)
(* an incomplete profile, failed to stage or were not saved: totals are    *)
(* the sums over tensors, no tensor was scored more often than predicted,  *)
(* and the three ways in which a scored prediction is counted agree.  What *)
(* the next run makes of its confidences rests on these counters.          *)
(***************************************************************************)
HistoryAddsUp == disk.history # NoFile => AddsUp(disk.history)

\* The bytes of the pages of the staged tensors.
StagedPages(plan) ==
    UNION {{model.inventory[i].mapping} \X (model.inventory[i].start..(model.inventory[i].end - 1)) :
              i \in StagedKeys(plan)}

(***************************************************************************)
(* A plan asks for each page once, and for no more than its parts allow:   *)
(* what is staged fits the window and what the hard limit leaves, and what *)
(* is prefetched fits the speculative budget cut down to that.             *)
(***************************************************************************)
StagingBytesBounded ==
    run.phase \in {"planned", "staged"} =>
        LET budget == StageBudget(run.config, run.situation.current, run.situation.hard,
                                  run.situation.reserve)
        IN /\ RequestedBytes(run.plan) = Cardinality(StagedPages(run.plan))
           /\ run.plan.stage_bytes <= budget
           /\ run.plan.prefetch_bytes <= Smaller(run.config.speculative, budget)

(***************************************************************************)
(* README.md calls --prediction-window the "strict predicted page-byte     *)
(* staging window", of which the speculative budget is a portion (the help *)
(* text of --prediction-speculative): all that a plan asks for fits it.    *)
(***************************************************************************)
StagingWithinWindow ==
    run.phase = "planned" => RequestedBytes(run.plan) <= run.config.window

\* The numbers of the predictor add up, those of the plan in hand and those it
\* learns from (plan_predictions, PredictionHistory).
PredictionsAddUp == HistoryAddsUp /\ StagingBytesBounded
=============================================================================
