-------------------------- MODULE ResidencyManager --------------------------
(***************************************************************************)
(* The residency manager (crates/ramforge-runtime/src/residency_engine.rs, *)
(* struct ResidencyManager) with the lifetime tracker of each tensor       *)
(* (resource_lifetime.rs): the calls a caller may make, in any order the   *)
(* lifecycle accepts, on a manager bound to a native model whose contexts  *)
(* open and close.  A call that returns an error without changing the      *)
(* manager is not a step, except apply_last_plan, whose refusals are       *)
(* recorded in `outcome'.                                                  *)
(***************************************************************************)
EXTENDS ResidencyPlanner

CONSTANTS
    Inventories,   \* the inventories a refresh may bring: sequences of tensors
    Policies,      \* the valid policies
    Measurements,  \* observed process sizes, or NoValue
    MaxGeneration  \* bound: the number of inventories a manager sees

ASSUME ManagerAssumption ==
    /\ \A p \in Policies : p.mode \in Modes /\ ValidPolicy(p)
    /\ MaxGeneration \in Nat \ {0}

VARIABLES
    inventory,     \* the tensors of the current generation
    generation,    \* the generation their keys carry
    policy,
    state,         \* the lifecycle
    bound,         \* native_model_instance is set
    quiescent,     \* native_quiescent: what the last observation said
    attempted,     \* tensors released in this generation
    last_plan,     \* the generation and the tensors it selected, or NoPlan
    lifetimes,     \* the lifetime tracker of each tensor
    outcome,       \* what the last apply_last_plan returned
    context,       \* a native context is open
    decoding       \* a native decode is in flight

mvars == <<inventory, generation, policy, state, bound, quiescent, attempted,
           last_plan, lifetimes, outcome>>
vars == <<mvars, context, decoding>>

NoPlan == [generation |-> 0, selected |-> {}]

LifecycleStates == {"ModelReady", "PreparingOperation", "Executing", "Synchronizing",
                    "SafeBoundary", "Planning", "Applying", "Failed"}

LifetimeStates == {"Discovered", "Owned", "ReleaseEligible", "ReleaseRequested",
                   "ReleaseAccepted", "Reconciled", "ReleaseFailed"}

Outcomes == {"none", "Ok", "Noop", "ObserveOnly", "NoPlan", "SynchronizationMissing",
             "Lifecycle", "StalePlan", "Release"}

TypeOK ==
    /\ inventory \in Inventories
    /\ generation \in 1..MaxGeneration
    /\ policy \in Policies
    /\ state \in LifecycleStates
    /\ bound \in BOOLEAN /\ quiescent \in BOOLEAN
    /\ attempted \subseteq DOMAIN inventory
    /\ last_plan \in [generation : 0..MaxGeneration, selected : SUBSET DOMAIN inventory]
    /\ lifetimes \in [DOMAIN inventory -> LifetimeStates]
    /\ outcome \in Outcomes
    /\ context \in BOOLEAN /\ decoding \in BOOLEAN

-----------------------------------------------------------------------------
(* The lifecycle and the lifetime trackers.  ShuttingDown is left out: no  *)
(* code enters it.  The tracker's states that need an event no code sends  *)
(* (ContextReferenced, ExecutionSubmitted and so on) are left out too.     *)

\* Mutant: no second planning from a safe boundary.
LegalOnce ==
    {<<"ModelReady", "PreparingOperation">>, <<"ModelReady", "Planning">>,
     <<"PreparingOperation", "Executing">>, <<"Executing", "Synchronizing">>,
     <<"Synchronizing", "SafeBoundary">>, <<"SafeBoundary", "Executing">>,
     <<"SafeBoundary", "PreparingOperation">>, <<"Failed", "SafeBoundary">>}

Legal ==
    {<<"ModelReady", "PreparingOperation">>, <<"ModelReady", "Planning">>,
     <<"PreparingOperation", "Executing">>, <<"PreparingOperation", "Planning">>,
     <<"PreparingOperation", "SafeBoundary">>, <<"Executing", "Synchronizing">>,
     <<"Synchronizing", "SafeBoundary">>, <<"SafeBoundary", "Executing">>,
     <<"SafeBoundary", "Planning">>, <<"SafeBoundary", "PreparingOperation">>,
     <<"Planning", "Applying">>, <<"Planning", "SafeBoundary">>,
     <<"Applying", "SafeBoundary">>, <<"Failed", "SafeBoundary">>}

Transition(to) ==
    /\ <<state, to>> \in Legal
    /\ state' = to

\* ResourceLifetime::apply: the state after an event, the same state when the
\* event is refused (every caller ignores the refusal).
After(lifetime, event) ==
    CASE <<lifetime, event>> = <<"Discovered", "ModelBound">> -> "Owned"
      [] <<lifetime, event>> = <<"Owned", "OperationBoundarySynchronized">> -> "ReleaseEligible"
      [] <<lifetime, event>> = <<"ReleaseEligible", "ReleaseSelected">> -> "ReleaseRequested"
      [] <<lifetime, event>> = <<"ReleaseRequested", "NativeAccepted">> -> "ReleaseAccepted"
      [] <<lifetime, event>> = <<"ReleaseRequested", "NativeFailure">> -> "ReleaseFailed"
      [] <<lifetime, event>> = <<"ReleaseAccepted", "ReconciliationComplete">> -> "Reconciled"
      [] OTHER -> lifetime

\* The trackers after an event is applied to those in S.
Applied(trackers, S, event) ==
    [i \in DOMAIN trackers |-> IF i \in S THEN After(trackers[i], event) ELSE trackers[i]]

\* plan_with_profile: a tensor that was selected is promoted, up to the
\* request when the policy applies plans.
Promoted(trackers, S, mode) ==
    LET eligible == Applied(trackers, S, "OperationBoundarySynchronized")
    IN  IF mode \in ApplyingModes THEN Applied(eligible, S, "ReleaseSelected") ELSE eligible

NewTrackers(inv, is_bound) ==
    [i \in DOMAIN inv |-> IF is_bound THEN After("Discovered", "ModelBound") ELSE "Discovered"]

-----------------------------------------------------------------------------
Init ==
    /\ inventory \in Inventories
    /\ generation = 1
    /\ policy \in Policies
    /\ state = "ModelReady"
    /\ bound = FALSE
    /\ quiescent = FALSE
    /\ attempted = {}
    /\ last_plan = NoPlan
    /\ lifetimes = NewTrackers(inventory, FALSE)
    /\ outcome = "none"
    /\ context = FALSE
    /\ decoding = FALSE

\* Mutant: the trackers are not told of the binding.
BindNativeModelUntracked ==
    /\ bound' = TRUE
    /\ UNCHANGED <<inventory, generation, policy, state, quiescent, attempted, last_plan,
                   lifetimes, outcome, context, decoding>>

\* Binding to the same instance with the supported contract; another instance
\* or contract is refused.
BindNativeModel ==
    /\ bound' = TRUE
    /\ lifetimes' = Applied(lifetimes, DOMAIN inventory, "ModelBound")
    /\ UNCHANGED <<inventory, generation, policy, state, quiescent, attempted, last_plan,
                   outcome, context, decoding>>

\* The native model is quiescent when it has no open and no running context.
ObserveNativeLifetime ==
    /\ quiescent' = (~context /\ ~decoding)
    /\ UNCHANGED <<inventory, generation, policy, state, bound, attempted, last_plan,
                   lifetimes, outcome, context, decoding>>

BeginOperation ==
    /\ Transition("PreparingOperation")
    /\ UNCHANGED <<inventory, generation, policy, bound, quiescent, attempted, last_plan,
                   lifetimes, outcome, context, decoding>>

\* decode_with_residency: begin_decode, then the native decode runs.
BeginDecode ==
    /\ context
    /\ Transition("Executing")
    /\ decoding' = TRUE
    /\ UNCHANGED <<inventory, generation, policy, bound, quiescent, attempted, last_plan,
                   lifetimes, outcome, context>>

\* The decode returned logits and was synchronized; finish_decode goes through
\* Synchronizing to SafeBoundary.
FinishDecode ==
    /\ decoding
    /\ <<state, "Synchronizing">> \in Legal
    /\ state' = "SafeBoundary"
    /\ decoding' = FALSE
    /\ UNCHANGED <<inventory, generation, policy, bound, quiescent, attempted, last_plan,
                   lifetimes, outcome, context>>

\* The decode returned an error: the caller marks the operation failed.
FailDecode ==
    /\ decoding
    /\ decoding' = FALSE
    /\ state' = "Failed"
    /\ UNCHANGED <<inventory, generation, policy, bound, quiescent, attempted, last_plan,
                   lifetimes, outcome, context>>

Recover ==
    /\ Transition("SafeBoundary")
    /\ UNCHANGED <<inventory, generation, policy, bound, quiescent, attempted, last_plan,
                   lifetimes, outcome, context, decoding>>

PlanWithProfile(observed, required) ==
    /\ <<state, "Planning">> \in Legal
    /\ LET candidates == Candidates(inventory, policy, bound => quiescent, required, attempted)
           selected == Selected(inventory, policy, observed, <<>>, candidates)
       IN  /\ last_plan' = [generation |-> generation, selected |-> selected]
           /\ lifetimes' = IF bound /\ quiescent THEN Promoted(lifetimes, selected, policy.mode)
                                                 ELSE lifetimes
    /\ state' = "SafeBoundary"
    /\ UNCHANGED <<inventory, generation, policy, bound, quiescent, attempted, outcome,
                   context, decoding>>

\* What apply_last_plan returns before it has called the native release.
Refusal ==
    CASE policy.mode = "Observe" -> "ObserveOnly"
      [] policy.mode = "Off" -> "NoPlan"
      [] policy.mode \in ApplyingModes /\ bound /\ ~quiescent -> "SynchronizationMissing"
      [] policy.mode \in ApplyingModes /\ (bound => quiescent) ->
           IF last_plan = NoPlan THEN "NoPlan"
           ELSE IF last_plan.selected = {} THEN "Noop"
           ELSE IF state # "SafeBoundary" THEN "Lifecycle"
           ELSE IF \/ last_plan.generation # generation
                   \/ \E i \in last_plan.selected : i \notin DOMAIN inventory
                   \/ \E i \in last_plan.selected : PageBytes(inventory[i]) = 0
           THEN "StalePlan"
           ELSE "none"

ApplyRefused ==
    /\ Refusal # "none"
    /\ outcome' = Refusal
    /\ state' = IF Refusal = "StalePlan" THEN "Failed" ELSE state
    /\ UNCHANGED <<inventory, generation, policy, bound, quiescent, attempted, last_plan,
                   lifetimes, context, decoding>>

\* ReleaseSubmitted, NativeAccepted and ReconciliationComplete, in order.
Reconciled(trackers, S) ==
    Applied(Applied(Applied(trackers, S, "ReleaseSubmitted"), S, "NativeAccepted"),
            S, "ReconciliationComplete")

ApplyAccepted ==
    /\ Refusal = "none"
    /\ attempted' = attempted \cup last_plan.selected
    /\ lifetimes' = Reconciled(lifetimes, last_plan.selected)
    /\ outcome' = "Ok"
    /\ UNCHANGED <<inventory, generation, policy, state, bound, quiescent, last_plan,
                   context, decoding>>

ApplyFails ==
    /\ Refusal = "none"
    /\ lifetimes' = Applied(lifetimes, last_plan.selected, "NativeFailure")
    /\ state' = "Failed"
    /\ outcome' = "Release"
    /\ UNCHANGED <<inventory, generation, policy, bound, quiescent, attempted, last_plan,
                   context, decoding>>

ApplyLastPlan == ApplyRefused \/ ApplyAccepted \/ ApplyFails

\* Mutant: the plan of the old inventory is kept.
RefreshKeepingPlan(inv) ==
    /\ state \in {"SafeBoundary", "ModelReady"}
    /\ generation < MaxGeneration
    /\ generation' = generation + 1
    /\ inventory' = inv
    /\ lifetimes' = NewTrackers(inv, bound)
    /\ attempted' = {}
    /\ UNCHANGED <<policy, state, bound, quiescent, last_plan, outcome, context, decoding>>

Refresh(inv) ==
    /\ state \in {"SafeBoundary", "ModelReady"}
    /\ generation < MaxGeneration
    /\ generation' = generation + 1
    /\ inventory' = inv
    /\ lifetimes' = NewTrackers(inv, bound)
    /\ attempted' = {}
    /\ last_plan' = NoPlan
    /\ UNCHANGED <<policy, state, bound, quiescent, outcome, context, decoding>>

\* The native model's contexts (external): a session opens one and drops it
\* when no decode runs.
OpenContext ==
    /\ ~context
    /\ context' = TRUE
    /\ UNCHANGED <<mvars, decoding>>

DropContext ==
    /\ context /\ ~decoding
    /\ context' = FALSE
    /\ UNCHANGED <<mvars, decoding>>

FileBackedKeys == {i \in DOMAIN inventory : inventory[i].file_backed}

Next ==
    \/ BindNativeModel \/ ObserveNativeLifetime
    \/ BeginOperation \/ BeginDecode \/ FinishDecode \/ FailDecode \/ Recover
    \/ \E observed \in Measurements, required \in {{}, FileBackedKeys} :
          PlanWithProfile(observed, required)
    \/ ApplyLastPlan
    \/ \E inv \in Inventories : Refresh(inv)
    \/ OpenContext \/ DropContext

Spec == Init /\ [][Next]_vars

-----------------------------------------------------------------------------
\* A native release: what the manager hands to the release callback.
Releases == ApplyAccepted \/ ApplyFails

\* A release is never requested while a native decode is in flight, whatever
\* the caller does between begin_decode and the end of the decode
\* (apply_last_plan's SafeBoundary check with the lifecycle's transitions).
NoReleaseDuringDecode == [][Releases => ~decoding]_vars

\* A plan is applied to the inventory it was made for: the StalePlan error
\* of apply_last_plan cannot occur, since refresh discards the plan.
PlansNeverStale == outcome # "StalePlan"

\* A tracker that says the pages were released and reconciled is right: the
\* tensor was handed to an accepted native release in this generation, and
\* the planner will not select it again (attempted).
ReconciledMeansReleased ==
    \A i \in DOMAIN inventory : lifetimes[i] \in {"ReleaseAccepted", "Reconciled"}
                                    => i \in attempted

\* What the tracker's tests call terminal: once the native release of a
\* tensor has failed, no later release of it is accepted in this generation.
ReleaseFailureIsTerminal ==
    [][ApplyAccepted => \A i \in last_plan.selected : lifetimes[i] # "ReleaseFailed"]_vars

=============================================================================
