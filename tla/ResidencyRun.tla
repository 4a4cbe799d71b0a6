---------------------------- MODULE ResidencyRun ----------------------------
(***************************************************************************)
(* One inference under a residency policy: the caller of the residency     *)
(* manager in crates/ramforge-cli/src/main.rs (run_forgecore_inference and *)
(* decode_with_residency).  It binds the manager to the loaded model,      *)
(* plans with every file-backed tensor required, decodes the prompt and    *)
(* one token at a time in one context, drops the context, observes the     *)
(* model again, plans once more and applies that plan.                     *)
(***************************************************************************)
EXTENDS ResidencyManager

CONSTANT MaxDecodes   \* bound: the decodes of a run

ASSUME DecodesAssumption == MaxDecodes \in Nat \ {0}

VARIABLES
    pc,       \* where the run is
    decodes   \* decodes completed

rvars == <<vars, pc, decodes>>

Goto(there) == pc' = there /\ UNCHANGED decodes

RunInit ==
    /\ Init
    /\ pc = "bind"
    /\ decodes = 0

Bind == pc = "bind" /\ BindNativeModel /\ Goto("observe")

ObserveLoaded == pc = "observe" /\ ObserveNativeLifetime /\ Goto("plan")

PlanBefore ==
    /\ pc = "plan"
    /\ \E observed \in Measurements : PlanWithProfile(observed, FileBackedKeys)
    /\ Goto("begin")

Begin == pc = "begin" /\ BeginOperation /\ Goto("open")

Open == pc = "open" /\ OpenContext /\ Goto("decode")

\* The context could not be opened or the prompt not be prepared: the run
\* returns the error.
OpenFails == pc = "open" /\ UNCHANGED vars /\ Goto("done")

Decode ==
    /\ pc = "decode" /\ decodes < MaxDecodes
    /\ BeginDecode /\ Goto("decoding")

DecodeReturns ==
    /\ pc = "decoding"
    /\ FinishDecode
    /\ decodes' = decodes + 1
    /\ pc' = "decode"

\* The error leaves the function: the session is dropped with it, and
\* nothing is released.
DecodeFails == pc = "decoding" /\ FailDecode /\ Goto("abort")

DropAfterFailure == pc = "abort" /\ DropContext /\ Goto("done")

\* Mutant: the session is kept and the model not observed again.
DropSessionUnobserved ==
    pc = "decode" /\ decodes > 0 /\ UNCHANGED vars /\ Goto("plan_after")

\* The end token, or the last token asked for, ends the generation; the
\* session is synchronized and dropped.
DropSession == pc = "decode" /\ decodes > 0 /\ DropContext /\ Goto("observe_after")

ObserveAfter == pc = "observe_after" /\ ObserveNativeLifetime /\ Goto("plan_after")

PlanAfter ==
    /\ pc = "plan_after"
    /\ \E observed \in Measurements : PlanWithProfile(observed, {})
    /\ Goto("apply")

\* The plan is applied when the policy applies plans and it selects anything;
\* an error other than the native release's own is returned.
Apply ==
    /\ pc = "apply"
    /\ policy.mode \in ApplyingModes /\ last_plan.selected # {}
    /\ ApplyLastPlan
    /\ Goto("done")

ApplyNothing ==
    /\ pc = "apply"
    /\ policy.mode \notin ApplyingModes \/ last_plan.selected = {}
    /\ UNCHANGED vars
    /\ Goto("done")

RunNext ==
    \/ Bind \/ ObserveLoaded \/ PlanBefore \/ Begin \/ Open \/ OpenFails
    \/ Decode \/ DecodeReturns \/ DecodeFails \/ DropAfterFailure \/ DropSession
    \/ ObserveAfter \/ PlanAfter \/ Apply \/ ApplyNothing

RunSpec == RunInit /\ [][RunNext]_rvars /\ WF_rvars(RunNext)

-----------------------------------------------------------------------------
\* The pages of a tensor are only released when no native context is open,
\* although the manager acts on an observation made earlier and keeps the
\* one made before the operation until the next.
NoReleaseWithContextOpen == [][Releases => ~context]_rvars

\* Every tensor handed to the native release has been promoted by its
\* tracker, in order, through Owned, ReleaseEligible and ReleaseRequested.
OnlyEligibleReleased ==
    [][Releases => \A i \in last_plan.selected : lifetimes[i] = "ReleaseRequested"]_rvars

\* Nothing the operation will read is planned for release before it: until
\* the plan made after the operation, no tensor leaves the state Owned.
NothingSelectedBeforeOperation ==
    pc \in {"begin", "open", "decode", "decoding", "abort", "observe_after", "plan_after"} =>
        \A i \in DOMAIN inventory : lifetimes[i] = "Owned"

\* The manager never refuses a call of the run: each one finds the lifecycle
\* in a state that allows it, whatever failed before, so that the run always
\* ends.
RunReturns == <>(pc = "done")
=============================================================================
