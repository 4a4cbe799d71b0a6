----------------------------- MODULE RunProofs ------------------------------
(***************************************************************************)
(* The runs that compose other components, for every value of their        *)
(* constants.  One inference under a residency policy is a behaviour of    *)
(* the residency manager, whose safety properties hold for every inventory,*)
(* policy and number of generations; the order of the run's calls gives    *)
(* what the manager alone does not promise.  A forgeCORE run keeps its     *)
(* context and its request for every registry, command line, vocabulary,   *)
(* context length and behaviour of the native library.  In the life of a   *)
(* plan, for every environment and user, a calibration ends in time, what  *)
(* is compiled fits the machine, a file gives back what was saved or       *)
(* nothing, and what is said of a loaded plan is true.                     *)
(***************************************************************************)
EXTENDS ResidencyRun, ForgeCoreRun, PlanLifecycle,
        SequenceTheorems, WellFoundedInduction, FiniteSetTheorems, TLAPS
-----------------------------------------------------------------------------
(* The residency manager and the run it manages.                           *)
\* While a decode is in flight the lifecycle is in Executing, which no call
\* but the end of the decode leaves.
DecodeExecutes == decoding => state = "Executing"

\* A plan that is kept was made for the current inventory, from tensors that
\* have pages.
PlanCurrent ==
    last_plan # NoPlan =>
        /\ last_plan.generation = generation
        /\ \A i \in last_plan.selected : i \in DOMAIN inventory /\ PageBytes(inventory[i]) # 0

IInv == TypeOK /\ DecodeExecutes /\ PlanCurrent /\ PlansNeverStale /\ ReconciledMeansReleased

-----------------------------------------------------------------------------
(* The planner and the trackers, as far as the manager depends on them.    *)

\* A plan selects tensors of the inventory that have pages.
LEMMA SelectedHavePages ==
    ASSUME NEW inv, NEW p, NEW open, NEW required, NEW tried, NEW observed, NEW reuse
    PROVE  LET S == Selected(inv, p, observed, reuse, Candidates(inv, p, open, required, tried))
           IN  /\ S \subseteq DOMAIN inv \ (required \cup tried)
               /\ \A i \in S : inv[i].file_backed /\ PageBytes(inv[i]) # 0
<1> DEFINE C == Candidates(inv, p, open, required, tried)
<1>1. Selected(inv, p, observed, reuse, C) \subseteq C
  BY DEF Selected
<1>2. C \subseteq DOMAIN inv \ (required \cup tried)
  BY DEF Candidates
<1>3. \A i \in C : inv[i].file_backed /\ PageBytes(inv[i]) > 0
  BY DEF Candidates
<1>4. \A i \in C : inv[i].file_backed /\ PageBytes(inv[i]) # 0
  BY <1>3
<1> QED BY <1>1, <1>2, <1>4

\* An event takes a tracker from a state to a state.
LEMMA AfterType ==
    ASSUME NEW lifetime \in LifetimeStates, NEW event
    PROVE  After(lifetime, event) \in LifetimeStates
  BY DEF After, LifetimeStates

LEMMA AppliedType ==
    ASSUME NEW S, NEW trackers \in [S -> LifetimeStates], NEW T, NEW event
    PROVE  Applied(trackers, T, event) \in [S -> LifetimeStates]
  BY AfterType DEF Applied

\* Only an accepted native release makes a tracker say so, and only those
\* of the tensors it was applied to.
LEMMA AcceptedOnlyByNative ==
    ASSUME NEW S, NEW trackers \in [S -> LifetimeStates], NEW T, NEW event, NEW i \in S,
           event # "NativeAccepted" \/ i \notin T,
           Applied(trackers, T, event)[i] \in {"ReleaseAccepted", "Reconciled"}
    PROVE  trackers[i] \in {"ReleaseAccepted", "Reconciled"}
  BY DEF Applied, After, LifetimeStates

-----------------------------------------------------------------------------
USE ManagerAssumption

LEMMA InitIInv == Init => IInv
<1> SUFFICES ASSUME Init PROVE IInv
  OBVIOUS
<1> USE DEF Init, NoPlan
<1>1. lifetimes \in [DOMAIN inventory -> LifetimeStates]
  BY DEF NewTrackers, LifetimeStates
<1>2. generation \in 1..MaxGeneration /\ last_plan \in [generation : 0..MaxGeneration, selected : SUBSET DOMAIN inventory]
  OBVIOUS
<1>3. TypeOK
  BY <1>1, <1>2, Zenon DEF TypeOK, LifecycleStates, Outcomes
<1>4. DecodeExecutes /\ PlanCurrent /\ PlansNeverStale
  BY DEF DecodeExecutes, PlanCurrent, PlansNeverStale
<1>5. ReconciledMeansReleased
  BY DEF ReconciledMeansReleased, NewTrackers
<1> QED BY <1>3, <1>4, <1>5 DEF IInv
\* The calls that move the lifecycle, the observation or the native context
\* and leave plan, trackers and inventory alone.
Quiet == \/ ObserveNativeLifetime \/ BeginOperation \/ BeginDecode \/ FinishDecode
         \/ FailDecode \/ Recover \/ OpenContext \/ DropContext

Plans == \E observed \in Measurements, required \in {{}, FileBackedKeys} :
            PlanWithProfile(observed, required)

Refreshes == \E inv \in Inventories : Refresh(inv)

LEMMA NextCases ==
    [Next]_vars => \/ Quiet \/ BindNativeModel \/ Plans \/ ApplyRefused \/ ApplyAccepted
                   \/ ApplyFails \/ Refreshes \/ UNCHANGED vars
  BY Zenon DEF Next, Quiet, Plans, Refreshes, ApplyLastPlan

LEMMA QuietKeeps ==
    Quiet => UNCHANGED <<inventory, generation, policy, bound, attempted, last_plan,
                         lifetimes, outcome>>
  BY Zenon DEF Quiet, ObserveNativeLifetime, BeginOperation, BeginDecode, FinishDecode,
               FailDecode, Recover, OpenContext, DropContext, mvars

\* What the manager answers is one of its answers.
LEMMA RefusalType == TypeOK => Refusal \in Outcomes \cup {"none"}
<1> SUFFICES ASSUME TypeOK PROVE Refusal \in Outcomes \cup {"none"}
  OBVIOUS
<1>1. policy.mode \in Modes
  BY DEF TypeOK
<1>2. bound \in BOOLEAN /\ quiescent \in BOOLEAN
  BY DEF TypeOK
<1> QED BY <1>1, <1>2 DEF Refusal, Outcomes, Modes, ApplyingModes

\* The native release is called, and a plan found stale, only at a safe
\* boundary.
LEMMA ReleaseAtBoundary ==
    TypeOK /\ Refusal \in {"none", "StalePlan"} => state = "SafeBoundary"
<1> SUFFICES ASSUME TypeOK, Refusal \in {"none", "StalePlan"} PROVE state = "SafeBoundary"
  OBVIOUS
<1>1. policy.mode \in Modes /\ bound \in BOOLEAN /\ quiescent \in BOOLEAN
  BY DEF TypeOK
<1> QED BY <1>1 DEF Refusal, Modes, ApplyingModes

\* A plan keeps its selection within the inventory, and the trackers typed.
LEMMA PlanMakes ==
    ASSUME TypeOK, Plans
    PROVE  /\ UNCHANGED <<inventory, generation, policy, bound, quiescent, attempted, outcome,
                          context, decoding>>
           /\ state' = "SafeBoundary"
           /\ last_plan'.generation = generation
           /\ last_plan' \in [generation : 0..MaxGeneration, selected : SUBSET DOMAIN inventory]
           /\ \A i \in last_plan'.selected : PageBytes(inventory[i]) # 0
           /\ \/ lifetimes' = lifetimes
              \/ lifetimes' = Promoted(lifetimes, last_plan'.selected, policy.mode)
<1>1. PICK observed \in Measurements, required \in {{}, FileBackedKeys} :
         PlanWithProfile(observed, required)
  BY DEF Plans
<1> DEFINE C == Candidates(inventory, policy, bound => quiescent, required, attempted)
           S == Selected(inventory, policy, observed, <<>>, C)
<1>2. S \subseteq DOMAIN inventory /\ \A i \in S : PageBytes(inventory[i]) # 0
  BY SelectedHavePages
<1>3. /\ last_plan' = [generation |-> generation, selected |-> S]
      /\ lifetimes' = IF bound /\ quiescent THEN Promoted(lifetimes, S, policy.mode)
                                            ELSE lifetimes
      /\ state' = "SafeBoundary"
      /\ UNCHANGED <<inventory, generation, policy, bound, quiescent, attempted, outcome,
                     context, decoding>>
  BY <1>1, Zenon DEF PlanWithProfile
<1> HIDE DEF S
<1>4. last_plan'.generation = generation /\ last_plan'.selected = S
  BY <1>3
<1>5. generation \in 0..MaxGeneration
  BY DEF TypeOK
<1>6. last_plan' \in [generation : 0..MaxGeneration, selected : SUBSET DOMAIN inventory]
  BY <1>2, <1>3, <1>5
<1> QED BY <1>2, <1>3, <1>4, <1>6

LEMMA TypeStep == TypeOK /\ [Next]_vars => TypeOK'
<1> SUFFICES ASSUME TypeOK, [Next]_vars PROVE TypeOK'
  OBVIOUS
<1>1. CASE Quiet
  <2>1. state' \in LifecycleStates
    BY <1>1 DEF TypeOK, Quiet, ObserveNativeLifetime, BeginOperation, BeginDecode, FinishDecode,
                FailDecode, Recover, OpenContext, DropContext, mvars, Transition, LifecycleStates
  <2>2. quiescent' \in BOOLEAN /\ context' \in BOOLEAN /\ decoding' \in BOOLEAN
    BY <1>1, Zenon
       DEF TypeOK, Quiet, ObserveNativeLifetime, BeginOperation, BeginDecode, FinishDecode,
           FailDecode, Recover, OpenContext, DropContext, mvars
  <2> QED BY <1>1, <2>1, <2>2, QuietKeeps, Zenon DEF TypeOK
<1>2. CASE BindNativeModel
  <2>1. lifetimes' \in [DOMAIN inventory -> LifetimeStates]
    BY <1>2, AppliedType DEF BindNativeModel, TypeOK
  <2> QED BY <1>2, <2>1, Zenon DEF TypeOK, BindNativeModel
<1>3. CASE Plans
  <2>1. lifetimes' \in [DOMAIN inventory -> LifetimeStates]
    BY <1>3, PlanMakes, AppliedType DEF Promoted, TypeOK
  <2>2. "SafeBoundary" \in LifecycleStates
    BY DEF LifecycleStates
  <2> QED BY <1>3, PlanMakes, <2>1, <2>2, Zenon DEF TypeOK
<1>4. CASE ApplyRefused
  <2>1. outcome' \in Outcomes
    BY <1>4, RefusalType DEF ApplyRefused
  <2>2. state' \in LifecycleStates
    BY <1>4 DEF ApplyRefused, TypeOK, LifecycleStates
  <2> QED BY <1>4, <2>1, <2>2, Zenon DEF ApplyRefused, TypeOK
<1>5. CASE ApplyAccepted
  <2>1. lifetimes' \in [DOMAIN inventory -> LifetimeStates]
    BY <1>5, AppliedType DEF ApplyAccepted, Reconciled, TypeOK
  <2>2. attempted' \subseteq DOMAIN inventory
    BY <1>5 DEF ApplyAccepted, TypeOK
  <2>3. outcome' \in Outcomes
    BY <1>5 DEF ApplyAccepted, Outcomes
  <2> QED BY <1>5, <2>1, <2>2, <2>3, Zenon DEF ApplyAccepted, TypeOK
<1>6. CASE ApplyFails
  <2>1. lifetimes' \in [DOMAIN inventory -> LifetimeStates]
    BY <1>6, AppliedType DEF ApplyFails, TypeOK
  <2>2. outcome' \in Outcomes /\ state' \in LifecycleStates
    BY <1>6 DEF ApplyFails, Outcomes, LifecycleStates
  <2> QED BY <1>6, <2>1, <2>2, Zenon DEF ApplyFails, TypeOK
<1>7. CASE Refreshes
  <2> PICK inv \in Inventories : Refresh(inv)
    BY <1>7 DEF Refreshes
  <2>1. generation' \in 1..MaxGeneration
    BY DEF Refresh, TypeOK
  <2>2. lifetimes' \in [DOMAIN inventory' -> LifetimeStates]
    BY DEF Refresh, NewTrackers, After, LifetimeStates
  <2>3. last_plan' \in [generation : 0..MaxGeneration, selected : SUBSET DOMAIN inventory']
    BY DEF Refresh, NoPlan
  <2> QED BY <2>1, <2>2, <2>3, Zenon DEF Refresh, TypeOK
<1>8. CASE UNCHANGED vars
  BY <1>8, Zenon DEF TypeOK, vars, mvars
<1> QED BY <1>1, <1>2, <1>3, <1>4, <1>5, <1>6, <1>7, <1>8, NextCases

\* No call but the end of a decode is accepted in Executing.
LEMMA DecodeStep == TypeOK /\ DecodeExecutes /\ [Next]_vars => DecodeExecutes'
<1> SUFFICES ASSUME TypeOK, DecodeExecutes, [Next]_vars PROVE DecodeExecutes'
  OBVIOUS
<1> USE DEF DecodeExecutes
<1>1. CASE Quiet
  BY <1>1 DEF Quiet, ObserveNativeLifetime, BeginOperation, BeginDecode, FinishDecode,
              FailDecode, Recover, OpenContext, DropContext, mvars, Transition, Legal
<1>2. CASE BindNativeModel
  BY <1>2 DEF BindNativeModel
<1>3. CASE Plans
  <2>1. <<state, "Planning">> \in Legal
    BY <1>3, Zenon DEF Plans, PlanWithProfile
  <2>2. state # "Executing"
    BY <2>1 DEF Legal
  <2> QED BY <1>3, <2>2, PlanMakes
<1>4. CASE ApplyRefused
  BY <1>4, ReleaseAtBoundary DEF ApplyRefused
<1>5. CASE ApplyAccepted \/ ApplyFails
  BY <1>5, ReleaseAtBoundary DEF ApplyAccepted, ApplyFails
<1>6. CASE Refreshes
  BY <1>6 DEF Refreshes, Refresh
<1>7. CASE UNCHANGED vars
  BY <1>7 DEF vars, mvars
<1> QED BY <1>1, <1>2, <1>3, <1>4, <1>5, <1>6, <1>7, NextCases

\* refresh discards the plan with the inventory it was made for.
LEMMA PlanStep ==
    TypeOK /\ PlanCurrent /\ PlansNeverStale /\ [Next]_vars => (PlanCurrent /\ PlansNeverStale)'
<1> SUFFICES ASSUME TypeOK, PlanCurrent, PlansNeverStale, [Next]_vars
             PROVE  (PlanCurrent /\ PlansNeverStale)'
  OBVIOUS
<1> USE DEF PlanCurrent, PlansNeverStale
<1>1. CASE Quiet
  BY <1>1, QuietKeeps
<1>2. CASE BindNativeModel
  BY <1>2 DEF BindNativeModel
<1>3. CASE Plans
  BY <1>3, PlanMakes
<1>4. CASE ApplyRefused
  <2>1. Refusal # "StalePlan"
    <3>1. policy.mode \in Modes /\ bound \in BOOLEAN /\ quiescent \in BOOLEAN
      BY DEF TypeOK
    <3> QED BY <3>1 DEF Refusal, Modes, ApplyingModes
  <2> QED BY <1>4, <2>1 DEF ApplyRefused
<1>5. CASE ApplyAccepted \/ ApplyFails
  BY <1>5 DEF ApplyAccepted, ApplyFails
<1>6. CASE Refreshes
  BY <1>6 DEF Refreshes, Refresh
<1>7. CASE UNCHANGED vars
  BY <1>7 DEF vars, mvars
<1> QED BY <1>1, <1>2, <1>3, <1>4, <1>5, <1>6, <1>7, NextCases

\* A tracker reaches ReleaseAccepted only with its tensor recorded as tried.
LEMMA ReconciledStep ==
    TypeOK /\ ReconciledMeansReleased /\ [Next]_vars => ReconciledMeansReleased'
<1> SUFFICES ASSUME TypeOK, ReconciledMeansReleased, [Next]_vars
             PROVE  ReconciledMeansReleased'
  OBVIOUS
<1> DEFINE Released == {"ReleaseAccepted", "Reconciled"}
<1>0. lifetimes \in [DOMAIN inventory -> LifetimeStates]
  BY DEF TypeOK
<1>1. CASE Quiet \/ ApplyRefused \/ UNCHANGED vars
  <2>1. UNCHANGED <<inventory, attempted, lifetimes>>
    BY <1>1, QuietKeeps DEF ApplyRefused, vars, mvars
  <2> QED BY <2>1 DEF ReconciledMeansReleased
<1>2. CASE BindNativeModel
  <2>1. \A i \in DOMAIN inventory : lifetimes'[i] \in Released => lifetimes[i] \in Released
    BY <1>0, <1>2, AcceptedOnlyByNative DEF BindNativeModel
  <2> QED BY <1>2, <2>1 DEF BindNativeModel, ReconciledMeansReleased
<1>3. CASE Plans
  <2> DEFINE T == last_plan'.selected
             eligible == Applied(lifetimes, T, "OperationBoundarySynchronized")
             requested == Applied(eligible, T, "ReleaseSelected")
  <2>1. eligible \in [DOMAIN inventory -> LifetimeStates]
    BY <1>0, AppliedType
  <2>2. \A i \in DOMAIN inventory : eligible[i] \in Released => lifetimes[i] \in Released
    BY <1>0, AcceptedOnlyByNative
  <2>3. \A i \in DOMAIN inventory : requested[i] \in Released => eligible[i] \in Released
    <3> HIDE DEF eligible
    <3> QED BY <2>1, AcceptedOnlyByNative
  <2>4. lifetimes' \in {lifetimes, eligible, requested}
    BY <1>3, PlanMakes DEF Promoted
  <2>5. \A i \in DOMAIN inventory : lifetimes'[i] \in Released => lifetimes[i] \in Released
    <3> HIDE DEF eligible, requested
    <3> QED BY <2>2, <2>3, <2>4
  <2>6. UNCHANGED <<inventory, attempted>>
    BY <1>3, PlanMakes
  <2> QED BY <2>5, <2>6 DEF ReconciledMeansReleased
<1>4. CASE ApplyAccepted
  <2> DEFINE T == last_plan.selected
             submitted == Applied(lifetimes, T, "ReleaseSubmitted")
             accepted == Applied(submitted, T, "NativeAccepted")
             done == Applied(accepted, T, "ReconciliationComplete")
  <2>1. /\ submitted \in [DOMAIN inventory -> LifetimeStates]
        /\ accepted \in [DOMAIN inventory -> LifetimeStates]
    BY <1>0, AppliedType
  <2>2. \A i \in DOMAIN inventory : submitted[i] \in Released => lifetimes[i] \in Released
    BY <1>0, AcceptedOnlyByNative
  <2>3. \A i \in DOMAIN inventory \ T : accepted[i] \in Released => submitted[i] \in Released
    <3> HIDE DEF submitted
    <3> QED BY <2>1, AcceptedOnlyByNative
  <2>4. \A i \in DOMAIN inventory : done[i] \in Released => accepted[i] \in Released
    <3> HIDE DEF accepted
    <3> QED BY <2>1, AcceptedOnlyByNative
  <2>5. lifetimes' = done
    BY <1>4 DEF ApplyAccepted, Reconciled
  <2>6. attempted' = attempted \cup T /\ inventory' = inventory
    BY <1>4 DEF ApplyAccepted
  <2> HIDE DEF submitted, accepted, done
  <2> QED BY <2>2, <2>3, <2>4, <2>5, <2>6 DEF ReconciledMeansReleased
<1>5. CASE ApplyFails
  <2>1. \A i \in DOMAIN inventory : lifetimes'[i] \in Released => lifetimes[i] \in Released
    BY <1>0, <1>5, AcceptedOnlyByNative DEF ApplyFails
  <2> QED BY <1>5, <2>1 DEF ApplyFails, ReconciledMeansReleased
<1>6. CASE Refreshes
  BY <1>6 DEF Refreshes, Refresh, NewTrackers, After, ReconciledMeansReleased
<1> QED BY <1>1, <1>2, <1>3, <1>4, <1>5, <1>6, NextCases

\* The inductive invariant holds in every reachable state.
THEOREM Invariance == Spec => []IInv
<1>1. IInv /\ [Next]_vars => IInv'
  BY TypeStep, DecodeStep, PlanStep, ReconciledStep DEF IInv
<1> QED BY InitIInv, <1>1, PTL DEF Spec

\* A plan is never applied to another inventory than the one it was made
\* for: the StalePlan error of apply_last_plan is unreachable.
THEOREM PlansNeverStaleTheorem == Spec => []PlansNeverStale
<1>1. IInv => PlansNeverStale
  BY DEF IInv
<1> QED BY <1>1, Invariance, PTL

\* A tracker that says the pages were released is right.
THEOREM ReconciledTheorem == Spec => []ReconciledMeansReleased
<1>1. IInv => ReconciledMeansReleased
  BY DEF IInv
<1> QED BY <1>1, Invariance, PTL

\* The native release is never called while a decode is in flight.
THEOREM NoReleaseTheorem == Spec => NoReleaseDuringDecode
<1>1. IInv /\ [Next]_vars => [Releases => ~decoding]_vars
  BY ReleaseAtBoundary DEF IInv, DecodeExecutes, Releases, ApplyAccepted, ApplyFails
<1> QED BY <1>1, Invariance, PTL DEF Spec, NoReleaseDuringDecode

-----------------------------------------------------------------------------
(* The managed run.                                                        *)


\* The places before the plan that follows the operation, once bound.
Before == {"observe", "plan", "begin", "open", "decode", "decoding", "abort",
           "observe_after", "plan_after"}

\* A context is open only between its opening and the end of the session.
ContextPhases ==
    /\ context => pc \in {"decode", "decoding", "abort"}
    /\ decoding => pc = "decoding"

\* Until the plan after the operation every tensor is owned and no plan has
\* selected anything.
OwnedPhases ==
    /\ pc = "bind" => \A i \in DOMAIN inventory : lifetimes[i] = "Discovered"
    /\ pc \in Before => \A i \in DOMAIN inventory : lifetimes[i] = "Owned"
    /\ pc \in {"bind"} \cup Before => last_plan.selected = {}

\* The second plan is made on an observation of the model without contexts,
\* and promotes what it selects.
SelectedPhases ==
    /\ pc # "bind" => bound = TRUE
    /\ pc \in {"plan_after", "apply"} => quiescent = TRUE
    /\ pc = "apply" /\ policy.mode \in ApplyingModes =>
          \A i \in last_plan.selected : lifetimes[i] = "ReleaseRequested"

RunInv ==
    /\ IInv
    /\ pc \in {"bind", "apply", "done"} \cup Before
    /\ ContextPhases /\ OwnedPhases /\ SelectedPhases

-----------------------------------------------------------------------------
\* Each step of the run is a call of the manager, or leaves it alone.
LEMMA RunStepIsManagerStep == [RunNext]_rvars => [Next]_vars
<1> SUFFICES ASSUME [RunNext]_rvars PROVE [Next]_vars
  OBVIOUS
<1>1. CASE Bind \/ ObserveLoaded \/ Begin \/ Open \/ OpenFails
  BY <1>1, Zenon DEF Bind, ObserveLoaded, Begin, Open, OpenFails, Next
<1>2. CASE PlanBefore \/ PlanAfter
  BY <1>2, Zenon DEF PlanBefore, PlanAfter, Next
<1>3. CASE Decode \/ DecodeReturns \/ DecodeFails \/ DropAfterFailure \/ DropSession
  BY <1>3, Zenon DEF Decode, DecodeReturns, DecodeFails, DropAfterFailure, DropSession, Next
<1>4. CASE ObserveAfter \/ Apply \/ ApplyNothing
  BY <1>4, Zenon DEF ObserveAfter, Apply, ApplyNothing, Next
<1>5. CASE UNCHANGED rvars
  BY <1>5, Zenon DEF rvars
<1> QED BY <1>1, <1>2, <1>3, <1>4, <1>5, Zenon DEF RunNext

\* A plan with every file-backed tensor required selects nothing.
LEMMA RequiredMeansUnselected ==
    ASSUME NEW observed, PlanWithProfile(observed, FileBackedKeys)
    PROVE  /\ last_plan'.selected = {}
           /\ \A i \in DOMAIN lifetimes : lifetimes'[i] = lifetimes[i]
           /\ UNCHANGED <<inventory, policy, bound, quiescent, context, decoding>>
<1> DEFINE C == Candidates(inventory, policy, bound => quiescent, FileBackedKeys, attempted)
           S == Selected(inventory, policy, observed, <<>>, C)
<1>1. /\ S \subseteq DOMAIN inventory \ (FileBackedKeys \cup attempted)
      /\ \A i \in S : inventory[i].file_backed
  BY SelectedHavePages
<1>2. S = {}
  <2> HIDE DEF S
  <2> QED BY <1>1, Zenon DEF FileBackedKeys
<1>3. /\ last_plan' = [generation |-> generation, selected |-> S]
      /\ lifetimes' = IF bound /\ quiescent THEN Promoted(lifetimes, S, policy.mode)
                                            ELSE lifetimes
      /\ UNCHANGED <<inventory, policy, bound, quiescent, context, decoding>>
  BY Zenon DEF PlanWithProfile
<1> HIDE DEF S
<1>4. \A i \in DOMAIN lifetimes : Promoted(lifetimes, S, policy.mode)[i] = lifetimes[i]
  BY <1>2 DEF Promoted, Applied
<1> QED BY <1>2, <1>3, <1>4

\* A plan made on a quiescent, bound model promotes the owned tensors it
\* selects.
LEMMA SelectedArePromoted ==
    ASSUME NEW observed, TypeOK, PlanWithProfile(observed, {}), bound = TRUE, quiescent = TRUE,
           \A i \in DOMAIN inventory : lifetimes[i] = "Owned"
    PROVE  /\ UNCHANGED <<inventory, policy, bound, quiescent, context, decoding>>
           /\ policy.mode \in ApplyingModes =>
                 \A i \in last_plan'.selected : lifetimes'[i] = "ReleaseRequested"
<1> DEFINE C == Candidates(inventory, policy, bound => quiescent, {}, attempted)
           S == Selected(inventory, policy, observed, <<>>, C)
<1>1. S \subseteq DOMAIN inventory
  BY SelectedHavePages
<1>2. /\ last_plan' = [generation |-> generation, selected |-> S]
      /\ lifetimes' = IF bound /\ quiescent THEN Promoted(lifetimes, S, policy.mode)
                                            ELSE lifetimes
      /\ UNCHANGED <<inventory, policy, bound, quiescent, context, decoding>>
  BY Zenon DEF PlanWithProfile
<1> HIDE DEF S
<1>3. last_plan'.selected = S /\ lifetimes' = Promoted(lifetimes, S, policy.mode)
  BY <1>2
<1>4. DOMAIN lifetimes = DOMAIN inventory
  BY DEF TypeOK
<1>5. policy.mode \in ApplyingModes =>
         \A i \in S : Promoted(lifetimes, S, policy.mode)[i] = "ReleaseRequested"
  BY <1>1, <1>4 DEF Promoted, Applied, After
<1> QED BY <1>2, <1>3, <1>5

-----------------------------------------------------------------------------
LEMMA RunInitInv == RunInit => RunInv
<1> SUFFICES ASSUME RunInit PROVE RunInv
  OBVIOUS
<1>1. IInv
  BY InitIInv DEF RunInit
<1>2. ContextPhases /\ SelectedPhases
  BY DEF RunInit, Init, ContextPhases, SelectedPhases
<1>3. OwnedPhases
  BY DEF RunInit, Init, OwnedPhases, Before, NewTrackers, NoPlan
<1> QED BY <1>1, <1>2, <1>3 DEF RunInit, RunInv

\* Every step of the run keeps its phases.
LEMMA RunPhaseStep ==
    ASSUME RunInv, RunNext, IInv'
    PROVE  RunInv'
<1> DEFINE Phases == /\ pc \in {"bind", "apply", "done"} \cup Before
                     /\ ContextPhases /\ OwnedPhases /\ SelectedPhases
<1>0. Phases /\ TypeOK /\ DOMAIN lifetimes = DOMAIN inventory
  BY DEF RunInv, IInv, TypeOK
<1> SUFFICES Phases'
  BY DEF RunInv
<1> USE DEF ContextPhases, OwnedPhases, SelectedPhases, Before, Goto
<1>1. CASE Bind
  BY <1>0, <1>1 DEF Bind, BindNativeModel, Applied, After
<1>2. CASE ObserveLoaded
  BY <1>0, <1>2 DEF ObserveLoaded, ObserveNativeLifetime
<1>3. CASE PlanBefore
  <2> PICK observed \in Measurements : PlanWithProfile(observed, FileBackedKeys)
    BY <1>3 DEF PlanBefore
  <2> QED BY <1>0, <1>3, RequiredMeansUnselected DEF PlanBefore
<1>4. CASE Begin
  BY <1>0, <1>4 DEF Begin, BeginOperation
<1>5. CASE Open \/ OpenFails
  BY <1>0, <1>5 DEF Open, OpenFails, OpenContext, vars, mvars
<1>6. CASE Decode
  BY <1>0, <1>6 DEF Decode, BeginDecode
<1>7. CASE DecodeReturns \/ DecodeFails
  BY <1>0, <1>7 DEF DecodeReturns, DecodeFails, FinishDecode, FailDecode
<1>8. CASE DropAfterFailure \/ DropSession
  BY <1>0, <1>8 DEF DropAfterFailure, DropSession, DropContext, mvars
<1>9. CASE ObserveAfter
  <2>1. context = FALSE /\ decoding = FALSE
    BY <1>0, <1>9 DEF ObserveAfter, TypeOK
  <2>2. quiescent' = TRUE
    BY <1>9, <2>1 DEF ObserveAfter, ObserveNativeLifetime
  <2> QED BY <1>0, <1>9, <2>2 DEF ObserveAfter, ObserveNativeLifetime
<1>10. CASE PlanAfter
  <2> PICK observed \in Measurements : PlanWithProfile(observed, {})
    BY <1>10 DEF PlanAfter
  <2> QED BY <1>0, <1>10, SelectedArePromoted DEF PlanAfter
<1>11. CASE Apply
  <2>1. UNCHANGED <<bound, context, decoding>>
    BY <1>11, Zenon DEF Apply, ApplyLastPlan, ApplyRefused, ApplyAccepted, ApplyFails
  <2>2. pc = "apply" /\ pc' = "done"
    BY <1>11 DEF Apply
  <2> QED BY <1>0, <2>1, <2>2
<1>12. CASE ApplyNothing
  BY <1>0, <1>12 DEF ApplyNothing, vars, mvars
<1> QED BY <1>1, <1>2, <1>3, <1>4, <1>5, <1>6, <1>7, <1>8, <1>9, <1>10, <1>11, <1>12
        DEF RunNext

\* The inductive invariant of the run.
THEOREM RunInvariance == RunSpec => []RunInv
<1>1. RunInv /\ [RunNext]_rvars => RunInv'
  <2> SUFFICES ASSUME RunInv, [RunNext]_rvars PROVE RunInv'
    OBVIOUS
  <2>1. IInv'
    BY RunStepIsManagerStep, TypeStep, DecodeStep, PlanStep, ReconciledStep DEF RunInv, IInv
  <2>2. CASE RunNext
    BY <2>1, <2>2, RunPhaseStep
  <2>3. CASE UNCHANGED rvars
    BY <2>1, <2>3 DEF RunInv, rvars, vars, mvars, ContextPhases, OwnedPhases, SelectedPhases
  <2> QED BY <2>2, <2>3
<1> QED BY RunInitInv, <1>1, PTL DEF RunSpec

\* A run is a behaviour of the manager: whatever is proved of every order of
\* calls holds of the order main.rs makes them in.
THEOREM RunImplementsManager == RunSpec => Spec
<1>1. RunInit => Init
  BY DEF RunInit
<1> QED BY <1>1, RunStepIsManagerStep, PTL DEF RunSpec, Spec

\* Where the native release can be called: at the end of the run, on a plan
\* that selects something under a policy that applies plans.
LEMMA ReleasePlace ==
    ASSUME RunInv, RunNext, Releases
    PROVE  pc = "apply" /\ policy.mode \in ApplyingModes
<1>1. Refusal = "none"
  BY DEF Releases, ApplyAccepted, ApplyFails
<1>2. policy.mode \in Modes /\ bound \in BOOLEAN /\ quiescent \in BOOLEAN
  BY ManagerAssumption DEF RunInv, IInv, TypeOK
<1>3. policy.mode \in ApplyingModes /\ last_plan.selected # {}
  BY <1>1, <1>2 DEF Refusal, Modes, ApplyingModes
<1>4. pc # "done"
  BY DEF RunNext, Bind, ObserveLoaded, PlanBefore, Begin, Open, OpenFails, Decode, DecodeReturns,
         DecodeFails, DropAfterFailure, DropSession, ObserveAfter, PlanAfter, Apply, ApplyNothing
<1> QED BY <1>3, <1>4 DEF RunInv, OwnedPhases

\* Pages are released only when no native context is open.
THEOREM NoReleaseWithContextTheorem == RunSpec => NoReleaseWithContextOpen
<1>1. RunInv /\ [RunNext]_rvars => [Releases => ~context]_rvars
  BY ReleasePlace DEF RunInv, ContextPhases
<1> QED BY <1>1, RunInvariance, PTL DEF RunSpec, NoReleaseWithContextOpen

\* Every released tensor was promoted by its tracker first.
THEOREM OnlyEligibleTheorem == RunSpec => OnlyEligibleReleased
<1>1. RunInv /\ [RunNext]_rvars =>
         [Releases => \A i \in last_plan.selected : lifetimes[i] = "ReleaseRequested"]_rvars
  BY ReleasePlace DEF RunInv, SelectedPhases
<1> QED BY <1>1, RunInvariance, PTL DEF RunSpec, OnlyEligibleReleased

\* Nothing is selected before the operation that reads it.
THEOREM NothingSelectedTheorem == RunSpec => []NothingSelectedBeforeOperation
<1>1. RunInv => NothingSelectedBeforeOperation
  BY DEF RunInv, OwnedPhases, Before, NothingSelectedBeforeOperation
<1> QED BY <1>1, RunInvariance, PTL

-----------------------------------------------------------------------------
(* The forgeCORE run.                                                      *)
Phases == {"start", "load", "open", "prompt", "loop", "sampled", "decode", "done", "failed"}

ForgeTypes ==
  /\ request \in Requests
  /\ phase \in Phases
  /\ window \in Nat
  /\ inputs \in Seq(Nat)
  /\ outputs \in Seq(Nat)
  /\ kv \in Seq(Nat)

\* Before the prompt is decoded the native context is empty.
NothingDecoded ==
  /\ phase \in {"start", "load", "open", "prompt"} => kv = <<>> /\ outputs = <<>>
  /\ phase = "prompt" => Len(inputs) <= window

\* From then on the sequence fits the context, and a token that was sampled
\* has a position left.
SequenceFits ==
  /\ phase \in {"loop", "sampled", "decode", "done"} => CurrentLength <= window
  /\ phase = "sampled" => CurrentLength < window
  /\ phase \in {"sampled", "decode"} => drawn \in Nat /\ Len(outputs) < request.max

\* Between Record and DecodeNext the context lacks exactly the drawn token.
DrawnTokenPending ==
  phase = "decode" => /\ Append(kv, drawn) = inputs \o outputs
                      /\ Len(kv) = CurrentLength - 1

\* The loop is entered anew only while tokens are left to generate, unless
\* none were asked for, which the reason then says already.
LoopHasTokensLeft ==
  phase = "loop" => \/ Len(outputs) < request.max
                    \/ Len(outputs) = request.max /\ stopReason = "max_tokens"

ForgeInv ==
  /\ ForgeTypes
  /\ NothingDecoded /\ SequenceFits /\ DrawnTokenPending /\ LoopHasTokensLeft
  /\ ContextHoldsSequence /\ StopReasonTrue

-----------------------------------------------------------------------------
(* Sequences.                                                              *)

\* Appending to the end of a concatenation appends to its second part.
LEMMA AppendToConcat ==
  ASSUME NEW s \in Seq(Nat), NEW t \in Seq(Nat), NEW e \in Nat
  PROVE  /\ Append(s \o t, e) = s \o Append(t, e)
         /\ s \o t \in Seq(Nat)
         /\ Len(s \o t) = Len(s) + Len(t)
<1>1. Append(s \o t, e) = s \o Append(t, e)
  <2>1. <<e>> \in Seq(Nat) /\ s \o t \in Seq(Nat)
    OBVIOUS
  <2>2. (s \o t) \o <<e>> = s \o (t \o <<e>>)
    BY <2>1, ConcatAssociative
  <2>3. Append(t, e) = t \o <<e>>
    BY AppendIsConcat
  <2>4. Append(s \o t, e) = (s \o t) \o <<e>>
    BY <2>1, AppendIsConcat
  <2>5. QED
    BY <2>2, <2>3, <2>4
<1>2. s \o t \in Seq(Nat)
  OBVIOUS
<1>3. Len(s \o t) = Len(s) + Len(t)
  OBVIOUS
<1>4. QED
  BY <1>1, <1>2, <1>3

\* The front of a sequence that ends in e is what e was appended to.
LEMMA FrontOfAppend ==
  ASSUME NEW s \in Seq(Nat), NEW e \in Nat
  PROVE  Front(Append(s, e)) = s
BY DEF Front

\* What Front and Last cut apart belongs together.
LEMMA FrontAndLast ==
  ASSUME NEW S, NEW s \in Seq(S), s # <<>>
  PROVE  s = Append(Front(s), Last(s))
BY DEF Front, Last

\* What Head and Tail cut apart belongs together.
LEMMA HeadAndTail ==
  ASSUME NEW S, NEW s \in Seq(S), s # <<>>
  PROVE  s = <<Head(s)>> \o Tail(s) /\ Tail(s) \in Seq(S)
OBVIOUS

-----------------------------------------------------------------------------
(* The steps.                                                              *)

\* A run starts with nothing decoded.
LEMMA ForgeInitInv == ForgeInit => ForgeInv
BY RequestsAssumption
   DEF ForgeInit, ForgeStart, ForgeInv, ForgeTypes, NothingDecoded, SequenceFits,
       DrawnTokenPending, LoopHasTokensLeft, ContextHoldsSequence, StopReasonTrue, Phases

\* A failed run says nothing more.
LEMMA FailKeepsInv == ForgeInv /\ FailRun => ForgeInv'
BY DEF FailRun, runInputs, ForgeInv, ForgeTypes, NothingDecoded, SequenceFits,
       DrawnTokenPending, LoopHasTokensLeft, ContextHoldsSequence, StopReasonTrue, Phases

\* The prompt the run decodes is a sequence of token ids.
LEMMA PromptTyped == ForgeTypes /\ PromptTokens # <<>> => PromptTokens \in Seq(Nat)
<1>1. ForgeTypes => request.prompt \in Seq(Nat) /\ request.bos \in Nat \cup {NoToken}
  BY RequestsAssumption DEF ForgeTypes
<1>2. QED
  BY <1>1 DEF PromptTokens

\* The context length is a number.
LEMMA ContextLengthTyped == ForgeTypes => ContextLength \in Nat
BY RequestsAssumption DEF ForgeTypes, ContextLength

LEMMA ForgeNextInv == ForgeInv /\ [ForgeNext]_forgeVars => ForgeInv'
<1> SUFFICES ASSUME ForgeInv, [ForgeNext]_forgeVars PROVE ForgeInv'
  OBVIOUS
<1>0. ForgeTypes /\ request.max \in Nat
  BY RequestsAssumption DEF ForgeInv, ForgeTypes
<1>1. CASE FailRun
  BY <1>1, FailKeepsInv
<1>2. CASE Start /\ ~FailRun
  <2>1. /\ phase = "start" /\ phase' = "load"
        /\ UNCHANGED <<runInputs, device, window, inputs, outputs, kv, logits, drawn, stopReason>>
    BY <1>2 DEF Start
  <2>2. QED
    BY <2>1 DEF runInputs, ForgeInv, ForgeTypes, NothingDecoded, SequenceFits,
       DrawnTokenPending, LoopHasTokensLeft, ContextHoldsSequence, StopReasonTrue, Phases
<1>3. CASE LoadModel /\ ~FailRun
  <2>1. /\ phase = "load" /\ phase' = "open"
        /\ UNCHANGED <<runInputs, window, inputs, outputs, kv, logits, drawn, stopReason>>
    BY <1>3 DEF LoadModel
  <2>2. QED
    BY <2>1 DEF runInputs, ForgeInv, ForgeTypes, NothingDecoded, SequenceFits,
       DrawnTokenPending, LoopHasTokensLeft, ContextHoldsSequence, StopReasonTrue, Phases
<1>4. CASE OpenRunContext /\ ~FailRun
  <2>1. /\ phase = "open" /\ phase' = "prompt"
        /\ PromptTokens # <<>> /\ Len(PromptTokens) <= ContextLength
        /\ window' = ContextLength /\ inputs' = PromptTokens
        /\ UNCHANGED <<runInputs, device, outputs, kv, logits, drawn, stopReason>>
    BY <1>4 DEF OpenRunContext
  <2>2. inputs' \in Seq(Nat) /\ window' \in Nat
    BY <1>0, <2>1, PromptTyped, ContextLengthTyped
  <2>3. QED
    BY <2>1, <2>2 DEF runInputs, ForgeInv, ForgeTypes, NothingDecoded, SequenceFits,
       DrawnTokenPending, LoopHasTokensLeft, ContextHoldsSequence, StopReasonTrue, Phases
<1>5. CASE DecodePrompt /\ ~FailRun
  <2>1. /\ phase = "prompt" /\ phase' = "loop"
        /\ NativeDecodes(inputs, 0)
        /\ kv' = kv \o inputs
        /\ logits' = 0 + Len(inputs) - 1
        /\ stopReason' = IF request.max = 0 THEN "max_tokens" ELSE "context_length"
        /\ UNCHANGED <<request, devices, eos, device, window, inputs, outputs, drawn>>
    BY <1>5 DEF DecodePrompt, DecodeTokens, runInputs
  <2>2. kv = <<>> /\ outputs = <<>> /\ Len(inputs) <= window
    BY <2>1 DEF ForgeInv, NothingDecoded
  <2>3. /\ kv' = inputs /\ inputs' \o outputs' = inputs
        /\ Len(inputs) \in Nat /\ Len(outputs') = 0 /\ window \in Nat
    BY <1>0, <2>1, <2>2, ConcatEmptySeq DEF ForgeTypes
  <2>4. ForgeTypes' /\ NothingDecoded' /\ SequenceFits' /\ DrawnTokenPending'
    BY <1>0, <2>1, <2>2, <2>3
       DEF ForgeTypes, NothingDecoded, SequenceFits, DrawnTokenPending, Phases, CurrentLength
  <2>5. LoopHasTokensLeft' /\ StopReasonTrue'
    BY <1>0, <2>1, <2>3 DEF LoopHasTokensLeft, StopReasonTrue
  <2>6. ContextHoldsSequence'
    BY <2>1, <2>3 DEF ContextHoldsSequence
  <2>7. QED
    BY <2>4, <2>5, <2>6 DEF ForgeInv
<1>6. CASE Sample
  <2>1. /\ phase = "loop" /\ phase' \in {"done", "sampled"}
        /\ UNCHANGED <<request, devices, eos, device, window, inputs, outputs, kv, logits>>
    BY <1>6 DEF Sample, runInputs
  <2>2. /\ kv = inputs \o outputs /\ logits = Len(kv) - 1 /\ CurrentLength <= window
        /\ CurrentLength \in Nat /\ Len(outputs) \in Nat /\ window \in Nat
    BY <1>0, <2>1 DEF ForgeInv, ContextHoldsSequence, SequenceFits, CurrentLength, ForgeTypes
  <2>3. CurrentLength' = CurrentLength
    BY <2>1 DEF CurrentLength
  <2>4. ForgeTypes' /\ NothingDecoded' /\ DrawnTokenPending' /\ LoopHasTokensLeft'
    BY <1>0, <2>1 DEF ForgeTypes, NothingDecoded, DrawnTokenPending, LoopHasTokensLeft, Phases
  <2>5. SequenceFits'
    <3>1. phase' = "sampled" =>
            /\ drawn' \in Tokens /\ Len(outputs) < request.max /\ CurrentLength < window
      BY <1>6, <2>1, <2>2 DEF Sample, ContextFull
    <3>2. QED
      BY <2>1, <2>2, <2>3, <3>1, RequestsAssumption DEF SequenceFits
  <2>6. ContextHoldsSequence'
    BY <2>1, <2>2 DEF ContextHoldsSequence
  <2>7. StopReasonTrue'
    BY <1>0, <1>6, <2>1, <2>2, <2>3
       DEF Sample, ContextFull, StopReasonTrue, ForgeInv, LoopHasTokensLeft
  <2>8. QED
    BY <2>4, <2>5, <2>6, <2>7 DEF ForgeInv
<1>7. CASE Record /\ ~FailRun
  <2>1. /\ phase = "sampled" /\ outputs' = Append(outputs, drawn)
        /\ IF Len(outputs') >= request.max
           THEN stopReason' = "max_tokens" /\ phase' = "done"
           ELSE phase' = "decode" /\ UNCHANGED stopReason
        /\ UNCHANGED <<request, devices, eos, device, window, inputs, kv, logits, drawn>>
    BY <1>7 DEF Record, runInputs
  <2>2. /\ kv = inputs \o outputs /\ CurrentLength < window /\ window \in Nat
        /\ drawn \in Nat /\ Len(outputs) < request.max
        /\ inputs \in Seq(Nat) /\ outputs \in Seq(Nat) /\ kv \in Seq(Nat)
    BY <1>0, <2>1 DEF ForgeInv, ContextHoldsSequence, SequenceFits, ForgeTypes
  <2>3. /\ Append(kv, drawn) = inputs \o outputs' /\ outputs' \in Seq(Nat)
        /\ Len(kv) = CurrentLength /\ Len(outputs') = Len(outputs) + 1
        /\ CurrentLength' = CurrentLength + 1 /\ CurrentLength \in Nat /\ Len(outputs) \in Nat
    <3>1. Append(kv, drawn) = inputs \o outputs' /\ Len(kv) = CurrentLength
      BY <2>1, <2>2, AppendToConcat DEF CurrentLength
    <3>2. outputs' \in Seq(Nat) /\ Len(outputs') = Len(outputs) + 1
      BY <2>1, <2>2
    <3>3. Len(outputs) \in Nat /\ CurrentLength \in Nat
      BY <2>2 DEF CurrentLength
    <3>4. CurrentLength' = CurrentLength + 1
      BY <2>1, <2>2, <3>2, <3>3 DEF CurrentLength
    <3>5. QED
      BY <3>1, <3>2, <3>3, <3>4
  <2>4. phase' \in {"done", "decode"}
    BY <2>1
  <2>5. ForgeTypes' /\ NothingDecoded' /\ SequenceFits' /\ LoopHasTokensLeft'
    BY <1>0, <2>1, <2>2, <2>3, <2>4
       DEF ForgeTypes, NothingDecoded, SequenceFits, LoopHasTokensLeft, Phases
  <2>6. DrawnTokenPending'
    BY <1>0, <2>1, <2>2, <2>3 DEF DrawnTokenPending
  <2>7. ContextHoldsSequence'
    <3>1. Front(inputs \o outputs') = kv
      BY <2>2, <2>3, FrontOfAppend
    <3>2. <<drawn>> # <<>> /\ Len(<<drawn>>) = 1 /\ NextPosition' = CurrentLength
      BY <2>3 DEF NextPosition
    <3>3. QED
      BY <2>1, <2>2, <2>3, <2>4, <3>1, <3>2 DEF ContextHoldsSequence, NativeDecodes
  <2>8. StopReasonTrue'
    BY <1>0, <2>1, <2>2, <2>3 DEF StopReasonTrue
  <2>9. QED
    BY <2>5, <2>6, <2>7, <2>8 DEF ForgeInv
<1>8. CASE DecodeNext /\ ~FailRun
  <2>1. /\ phase = "decode" /\ phase' = "loop"
        /\ NativeDecodes(<<drawn>>, NextPosition)
        /\ kv' = kv \o <<drawn>>
        /\ logits' = NextPosition + Len(<<drawn>>) - 1
        /\ UNCHANGED <<request, devices, eos, device, window, inputs, outputs, drawn, stopReason>>
    BY <1>8 DEF DecodeNext, DecodeTokens, runInputs
  <2>2. /\ Append(kv, drawn) = inputs \o outputs /\ Len(kv) = CurrentLength - 1
        /\ drawn \in Nat /\ Len(outputs) < request.max /\ CurrentLength <= window
        /\ kv \in Seq(Nat)
    BY <1>0, <2>1 DEF ForgeInv, DrawnTokenPending, SequenceFits, ForgeTypes
  <2>3. kv' = Append(kv, drawn) /\ Len(<<drawn>>) = 1
    <3>1. Append(kv, drawn) = kv \o <<drawn>>
      BY <2>2, AppendIsConcat
    <3>2. QED
      BY <2>1, <3>1
  <2>4. /\ kv' = inputs \o outputs /\ kv' \in Seq(Nat) /\ Len(kv') = Len(kv) + 1
        /\ Len(kv) \in Nat /\ CurrentLength' = CurrentLength
        /\ Len(inputs) \in Nat /\ Len(outputs) \in Nat
    <3>1. kv' \in Seq(Nat) /\ Len(kv') = Len(kv) + 1 /\ Len(kv) \in Nat
      <4>1. /\ Append(kv, drawn) \in Seq(Nat) /\ Len(Append(kv, drawn)) = Len(kv) + 1
            /\ Len(kv) \in Nat
        <5>1. kv \in Seq(Nat) /\ drawn \in Nat
          BY <2>2
        <5>2. QED
          BY <5>1, AppendProperties
      <4>2. QED
        BY <2>3, <4>1
    <3>2. CurrentLength' = CurrentLength /\ Len(inputs) \in Nat /\ Len(outputs) \in Nat
      BY <1>0, <2>1 DEF CurrentLength, ForgeTypes
    <3>3. QED
      BY <2>2, <2>3, <3>1, <3>2
  <2>5. logits' = Len(kv') - 1
    BY <2>1, <2>2, <2>3, <2>4 DEF NextPosition, CurrentLength
  <2>6. ForgeTypes' /\ NothingDecoded' /\ SequenceFits' /\ DrawnTokenPending'
    BY <1>0, <2>1, <2>2, <2>4
       DEF ForgeTypes, NothingDecoded, SequenceFits, DrawnTokenPending, Phases
  <2>7. LoopHasTokensLeft' /\ StopReasonTrue'
    BY <2>1, <2>2 DEF LoopHasTokensLeft, StopReasonTrue
  <2>8. ContextHoldsSequence'
    BY <2>1, <2>4, <2>5 DEF ContextHoldsSequence
  <2>9. QED
    BY <2>6, <2>7, <2>8 DEF ForgeInv
<1>9. CASE UNCHANGED forgeVars
  BY <1>9 DEF forgeVars, ForgeInv, ForgeTypes, NothingDecoded, SequenceFits, CurrentLength,
     DrawnTokenPending, LoopHasTokensLeft, ContextHoldsSequence, StopReasonTrue, NativeDecodes,
     NextPosition
<1>10. QED
  BY <1>1, <1>2, <1>3, <1>4, <1>5, <1>6, <1>7, <1>8, <1>9 DEF ForgeNext

\* The invariant holds of every run.
LEMMA ForgeSpecInv == ForgeSpec => []ForgeInv
BY ForgeInitInv, ForgeNextInv, PTL DEF ForgeSpec

\* A selection that is parsed from the text and matches a CPU device is one of
\* the device's names.
LEMMA MatchesMeansNamed ==
  ASSUME NEW S, NEW text \in Seq(S) \ {<<>>}, NEW d, d.kind = Cpu,
         Matches(d, ParseSelection(text)), ParseSelection(text) # InvalidSyntax
  PROVE  text \in NamesOf(d)
<1> DEFINE rest == Tail(text)
<1>1. text = <<Head(text)>> \o rest /\ rest \in Seq(S)
  BY HeadAndTail
<1>2. CASE text \in {<<"cpu">>, <<"CPU">>}
  BY <1>2 DEF NamesOf
<1>3. CASE text \notin {<<"cpu">>, <<"CPU">>} /\ Head(text) = "id" /\ rest # <<>>
  <2>1. ParseSelection(text) = [by |-> "ById", id |-> rest]
    BY <1>3 DEF ParseSelection
  <2>2. d.id = rest
    BY <2>1 DEF Matches
  <2>3. QED
    BY <1>1, <1>3, <2>2 DEF NamesOf
<1>4. CASE /\ text \notin {<<"cpu">>, <<"CPU">>} /\ Head(text) # "id"
           /\ Head(text) = "backend" /\ rest # <<>>
  <2>1. ParseSelection(text) =
          [by |-> "BackendIndex", backend |-> Front(rest), index |-> Last(rest)]
    BY <1>4 DEF ParseSelection
  <2>2. d.backend = Front(rest) /\ d.registryIndex = Last(rest)
    BY <2>1 DEF Matches
  <2>3. rest = Append(Front(rest), Last(rest))
    BY <1>1, <1>4, FrontAndLast
  <2>4. QED
    BY <1>1, <1>4, <2>2, <2>3 DEF NamesOf
<1>5. CASE /\ text \notin {<<"cpu">>, <<"CPU">>}
           /\ ~(Head(text) = "id" /\ rest # <<>>)
           /\ ~(Head(text) = "backend" /\ rest # <<>>)
  BY <1>5 DEF ParseSelection
<1>6. QED
  BY <1>2, <1>3, <1>4, <1>5

\* Where the device comes from: a parsed selection and the load.
SelectionParsed == phase # "start" /\ phase # "failed" => ParseSelection(request.text) # InvalidSyntax

-----------------------------------------------------------------------------
(***************************************************************************)
(* The native context always holds the sequence so far, each token once at *)
(* its own position, and no decode is asked for a position it cannot take, *)
(* for any prompt, context length, sampler and failure of the library.     *)
(***************************************************************************)
THEOREM ContextHoldsSequenceTheorem == ForgeSpec => []ContextHoldsSequence
<1>1. ForgeInv => ContextHoldsSequence
  BY DEF ForgeInv
<1>2. QED
  BY <1>1, ForgeSpecInv, PTL

(***************************************************************************)
(* A run does what its command line asks: it runs on the device that is    *)
(* named, whatever the registry holds, and the reason it prints for its    *)
(* end is the true one.                                                    *)
(***************************************************************************)
THEOREM RunAsAskedTheorem == ForgeSpec => []RunAsAsked
<1> DEFINE Inv == ForgeInv /\ SelectionParsed /\ RunsWhereAsked
<1>1. ForgeInit => Inv
  BY ForgeInitInv DEF ForgeInit, ForgeStart, SelectionParsed, RunsWhereAsked
<1>2. Inv /\ [ForgeNext]_forgeVars => Inv'
  <2> SUFFICES ASSUME Inv, [ForgeNext]_forgeVars PROVE Inv'
    OBVIOUS
  <2>1. ForgeInv'
    BY ForgeNextInv
  <2>2. /\ request' = request
        /\ SelectionParsed'
    BY DEF ForgeNext, Start, LoadModel, OpenRunContext, DecodePrompt, Sample, Record, DecodeNext,
       FailRun, runInputs, forgeVars, SelectionParsed
  <2>3. RunsWhereAsked'
    <3>1. CASE device' = device
      BY <2>2, <3>1 DEF RunsWhereAsked, NamesOf
    <3>2. CASE device' # device
      <4>1. /\ LoadModel /\ phase = "load"
            /\ device' \in Select(devices, ParseSelection(request.text)) /\ device'.kind = Cpu
        BY <3>2 DEF ForgeNext, Start, LoadModel, OpenRunContext, DecodePrompt, Sample, Record,
           DecodeNext, FailRun, forgeVars
      <4>2. Matches(device', ParseSelection(request.text))
        BY <4>1 DEF Select
      <4>3. ParseSelection(request.text) # InvalidSyntax
        BY <4>1 DEF SelectionParsed
      <4> DEFINE text == request.text
                 n == Len(text)
                 S == {text[i] : i \in 1..n}
      <4>4. text \in Seq(S) \ {<<>>}
        <5>1. n \in Nat \ {0} /\ text = [i \in 1..n |-> text[i]]
          BY RequestsAssumption DEF ForgeInv, ForgeTypes
        <5>2. text \in [1..n -> S]
          BY <5>1
        <5>3. text # <<>>
          BY <5>1
        <5> HIDE DEF text, S, n
        <5>4. QED
          BY <5>1, <5>2, <5>3
      <4>5. request.text \in NamesOf(device')
        <5> HIDE DEF S
        <5>1. QED
          BY <4>1, <4>2, <4>3, <4>4, MatchesMeansNamed
      <4>6. QED
        BY <2>2, <4>5 DEF RunsWhereAsked, NamesOf
    <3>3. QED
      BY <3>1, <3>2
  <2>4. QED
    BY <2>1, <2>2, <2>3
<1>3. Inv => RunAsAsked
  BY DEF ForgeInv, RunAsAsked
<1>4. QED
  BY <1>1, <1>2, <1>3, PTL DEF ForgeSpec

-----------------------------------------------------------------------------
(* The life of a plan: checks made in order, and the least of a set.       *)

(* Every set of numbers has a least one: the initial segments of the       *)
(* numbers, strictly included in each other, are well founded.             *)
LEMMA LeastNumber ==
    ASSUME NEW T, T \subseteq Nat, T # {}
    PROVE  \E m \in T : \A k \in T : m <= k
<1> DEFINE R == StrictSubsetOrdering(Nat)
           initials == {1..k : k \in T}
<1>1. IsWellFoundedOn(R, FiniteSubsetsOf(Nat))
  BY FS_StrictSubsetOrderingWellFounded
<1>2. \A k \in T : IsFiniteSet(1..k) /\ 1..k \subseteq Nat
  BY FS_Interval
<1>3. initials \subseteq FiniteSubsetsOf(Nat) /\ initials # {}
  BY <1>2 DEF FiniteSubsetsOf
<1>4. \A j, k \in T : j < k => <<1..j, 1..k>> \in R
  <2>1. ASSUME NEW j \in T, NEW k \in T, j < k PROVE 1..j \subseteq 1..k /\ 1..j # 1..k
    <3>1. k \in 1..k /\ k \notin 1..j
      BY <2>1
    <3>2. QED
      BY <2>1, <3>1
  <2>2. QED
    BY <1>2, <2>1 DEF StrictSubsetOrdering
<1> HIDE DEF R, initials
<1>5. PICK s \in initials : \A r \in initials : ~(<<r, s>> \in R)
  BY <1>1, <1>3, WFMin
<1>6. PICK m \in T : s = 1..m
  BY <1>5 DEF initials
<1>7. \A k \in T : 1..k \in initials
  BY DEF initials
<1>8. \A k \in T : ~(k < m)
  BY <1>4, <1>5, <1>6, <1>7
<1>9. QED
  BY <1>8
\* If checks in order find nothing, each of them found nothing.
LEMMA NothingFails ==
    ASSUME NEW n \in Nat, NEW checks, DOMAIN checks = 1..n,
           \A i \in 1..n : checks[i][2] # None,
           FirstError(checks) = None
    PROVE  \A i \in 1..n : ~checks[i][1]
<1> DEFINE failing == {i \in DOMAIN checks : checks[i][1]}
<1> SUFFICES failing = {}
  OBVIOUS
<1>1. SUFFICES ASSUME failing # {} PROVE FALSE
  OBVIOUS
<1>2. PICK m \in failing : \A k \in failing : m <= k
  <2>1. failing \subseteq Nat
    OBVIOUS
  <2> HIDE DEF failing
  <2> QED BY <1>1, <2>1, LeastNumber
<1>3. Min(failing) \in failing
  <2> HIDE DEF failing
  <2> QED BY <1>2 DEF Min
<1>4. FirstError(checks) = checks[Min(failing)][2]
  BY <1>1 DEF FirstError
<1> QED BY <1>3, <1>4

\* A list of checks whose errors are not nothing, and one that finds nothing.
Checks(list) ==
    /\ list \in Seq({list[i] : i \in DOMAIN list})
    /\ \A i \in DOMAIN list : list[i][2] # None
NoneFails(list) == \A i \in DOMAIN list : ~list[i][1]

\* A function on the first numbers is the sequence of its values.
LEMMA OwnValues ==
    ASSUME NEW n \in Nat, NEW f, f = [i \in 1..n |-> f[i]]
    PROVE  f \in Seq({f[i] : i \in DOMAIN f})
<1> DEFINE S == {f[i] : i \in DOMAIN f}
<1>1. DOMAIN f = 1..n
  OBVIOUS
<1>2. \A i \in 1..n : f[i] \in S
  BY <1>1
<1> HIDE DEF S
<1>3. f \in [1..n -> S]
  BY <1>1, <1>2
<1>4. f \in Seq(S)
  BY <1>3, SeqDef, Zenon
<1> QED BY <1>4 DEF S

LEMMA NoErrorNoneFails ==
    ASSUME NEW list, Checks(list), FirstError(list) = None
    PROVE  NoneFails(list)
<1>1. PICK n \in Nat : DOMAIN list = 1..n
  <2> DEFINE S == {list[i] : i \in DOMAIN list}
  <2>1. list \in Seq(S)
    BY DEF Checks
  <2> HIDE DEF S
  <2>2. DOMAIN list = 1..Len(list) /\ Len(list) \in Nat
    BY <2>1
  <2> QED BY <2>2
<1>2. \A i \in 1..n : ~list[i][1]
  BY <1>1, NothingFails DEF Checks
<1> QED BY <1>1, <1>2 DEF NoneFails

\* Checks made one list after the other.
LEMMA JoinedChecks ==
    ASSUME NEW a, NEW b, Checks(a), Checks(b)
    PROVE  Checks(a \o b) /\ (NoneFails(a \o b) => NoneFails(a) /\ NoneFails(b))
<1> DEFINE A == {a[i] : i \in DOMAIN a}
           B == {b[i] : i \in DOMAIN b}
           c == a \o b
<1>1. a \in Seq(A) /\ b \in Seq(B)
  BY DEF Checks
<1> HIDE DEF A, B
<1>2. a \in Seq(A \cup B) /\ b \in Seq(A \cup B)
  BY <1>1, SeqMonotonic
<1>3. /\ c \in Seq(A \cup B) /\ Len(c) = Len(a) + Len(b)
      /\ \A i \in 1..(Len(a) + Len(b)) : c[i] = IF i <= Len(a) THEN a[i] ELSE b[i - Len(a)]
  BY <1>2, ConcatProperties
<1>4. /\ Len(a) \in Nat /\ DOMAIN a = 1..Len(a) /\ Len(b) \in Nat /\ DOMAIN b = 1..Len(b)
  BY <1>2
<1> HIDE DEF c
<1>5. DOMAIN c = 1..(Len(a) + Len(b))
  BY <1>3
<1>6. \A i \in DOMAIN a : i \in DOMAIN c /\ c[i] = a[i]
  BY <1>3, <1>4, <1>5
<1>7. \A i \in DOMAIN b : i + Len(a) \in DOMAIN c /\ c[i + Len(a)] = b[i]
  <2> TAKE i \in DOMAIN b
  <2>1. i \in 1..Len(b) /\ i + Len(a) \in 1..(Len(a) + Len(b)) /\ ~(i + Len(a) <= Len(a))
          /\ (i + Len(a)) - Len(a) = i
    BY <1>4
  <2> QED BY <1>3, <1>5, <2>1
<1>8. \A i \in DOMAIN c : (\E j \in DOMAIN a : c[i] = a[j]) \/ (\E j \in DOMAIN b : c[i] = b[j])
  <2> TAKE i \in DOMAIN c
  <2>1. CASE i <= Len(a)
    BY <1>3, <1>4, <1>5, <2>1
  <2>2. CASE ~(i <= Len(a))
    <3>1. i - Len(a) \in 1..Len(b) /\ c[i] = b[i - Len(a)]
      BY <1>3, <1>4, <1>5, <2>2
    <3> QED BY <1>4, <3>1
  <2> QED BY <2>1, <2>2
<1>9. \A i \in DOMAIN c : c[i][2] # None
  BY <1>8 DEF Checks
<1>10. c \in Seq({c[i] : i \in DOMAIN c})
  <2>1. c = [i \in 1..Len(c) |-> c[i]] /\ Len(c) \in Nat
    BY <1>3
  <2> QED BY <2>1, OwnValues
<1>11. NoneFails(c) => NoneFails(a) /\ NoneFails(b)
  BY <1>6, <1>7 DEF NoneFails
<1> QED BY <1>9, <1>10, <1>11 DEF Checks, c

LEMMA ListOfChecks ==
    ASSUME NEW n \in Nat, NEW list, list = [i \in 1..n |-> list[i]],
           \A i \in 1..n : list[i][2] # None
    PROVE  Checks(list)
<1>1. DOMAIN list = 1..n
  OBVIOUS
<1>2. list \in Seq({list[i] : i \in DOMAIN list})
  BY OwnValues
<1> QED BY <1>1, <1>2 DEF Checks

-----------------------------------------------------------------------------
\* The tasks of a calibration at a level.
TasksOf(level, limits) ==
    {CpuTask(level, limits), StorageTask(level, limits), MemoryTask(level, limits)}
        \cup {QuantizedTask(level, format, limits) : format \in {"Q4K", "Q8_0", "Q4_0"}}

\* They have the time of a task and a kind.
LEMMA TasksTimed ==
    ASSUME NEW level, NEW limits, NEW t \in TasksOf(level, limits)
    PROVE  t.time = limits.task /\ t.kind \in DOMAIN Kinds
  BY DEF TasksOf, CpuTask, StorageTask, MemoryTask, QuantizedTask, Task, Kinds

LEMMA ConcatIn ==
    ASSUME NEW S, NEW s \in Seq(S), NEW t \in Seq(S)
    PROVE  s \o t \in Seq(S)
  BY ConcatProperties

LEMMA TasksListed ==
    ASSUME NEW level, NEW model, NEW limits
    PROVE  Tasks(level, model, limits) \in Seq(TasksOf(level, limits))
<1> DEFINE S == TasksOf(level, limits)
           formats == RelevantQuantizations(model)
           F == {"Q4K", "Q8_0", "Q4_0"}
           count(from, to) == Max({0, Min({to, Len(formats)}) - from + 1})
           decode(from, to) == [i \in 1..count(from, to) |->
                                   QuantizedTask(level, formats[from + i - 1], limits)]
<1>1. formats \in Seq(F)
  <2> DEFINE only(format) == IF format \in model.formats THEN <<format>> ELSE <<>>
  <2>1. only("Q4K") \in Seq(F) /\ only("Q8_0") \in Seq(F) /\ only("Q4_0") \in Seq(F)
    <3>1. ASSUME NEW f \in F PROVE only(f) \in Seq(F)
      <4> HIDE DEF F
      <4>1. <<f>> \in Seq(F) /\ <<>> \in Seq(F)
        OBVIOUS
      <4> QED BY <4>1
    <3> HIDE DEF only
    <3> QED BY <3>1
  <2>2. formats = only("Q4K") \o only("Q8_0") \o only("Q4_0")
    BY DEF RelevantQuantizations
  <2> HIDE DEF only, F, formats
  <2>3. only("Q4K") \o only("Q8_0") \in Seq(F)
    BY <2>1, ConcatIn
  <2> QED BY <2>1, <2>2, <2>3, ConcatIn
<1>2. ASSUME NEW from \in 1..2, NEW to \in Nat PROVE decode(from, to) \in Seq(S)
  <2>1. PICK l \in Nat : l = Len(formats) /\ DOMAIN formats = 1..l
    BY <1>1
  <2>2. PICK m \in Nat : m = Min({to, l}) /\ m <= l
    BY DEF Min
  <2>3. PICK n \in Nat : n = Max({0, m - from + 1}) /\ (n = 0 \/ n = m - from + 1)
    BY <2>2 DEF Max
  <2>4. count(from, to) = n
    BY <2>1, <2>2, <2>3
  <2>5. \A i \in 1..n : formats[from + i - 1] \in F
    BY <1>1, <2>1, <2>2, <2>3
  <2>6. \A i \in 1..n : QuantizedTask(level, formats[from + i - 1], limits) \in S
    BY <2>5 DEF TasksOf
  <2> HIDE DEF count, formats, S
  <2> QED BY <2>4, <2>6
<1>3. CpuTask(level, limits) \in S /\ StorageTask(level, limits) \in S /\ MemoryTask(level, limits) \in S
  BY DEF TasksOf
<1>4. decode(1, 1) \in Seq(S) /\ decode(2, 3) \in Seq(S)
  <2> HIDE DEF decode
  <2> QED BY <1>2
<1>5. Tasks(level, model, limits) =
        (IF level = 0 THEN <<>> ELSE <<CpuTask(level, limits), StorageTask(level, limits)>>)
        \o (IF level < 2 THEN <<>> ELSE <<MemoryTask(level, limits)>> \o decode(1, 1))
        \o (IF level < 3 THEN <<>> ELSE decode(2, 3))
  BY DEF Tasks
<1> DEFINE cpu == IF level = 0 THEN <<>> ELSE <<CpuTask(level, limits), StorageTask(level, limits)>>
           memory == <<MemoryTask(level, limits)>> \o decode(1, 1)
           two == IF level < 2 THEN <<>> ELSE memory
           three == IF level < 3 THEN <<>> ELSE decode(2, 3)
<1> HIDE DEF S, decode
<1>6. cpu \in Seq(S) /\ <<MemoryTask(level, limits)>> \in Seq(S)
  BY <1>3
<1>7. memory \in Seq(S)
  <2> DEFINE m == <<MemoryTask(level, limits)>>
  <2> HIDE DEF m
  <2>1. m \in Seq(S)
    BY <1>6 DEF m
  <2>2. m \o decode(1, 1) \in Seq(S)
    BY <2>1, <1>4, ConcatIn
  <2> QED BY <2>2 DEF m
<1> HIDE DEF memory
<1>8. two \in Seq(S) /\ three \in Seq(S)
  BY <1>4, <1>7
<1>9. Tasks(level, model, limits) = cpu \o two \o three
  BY <1>5 DEF memory
<1> HIDE DEF cpu, two, three
<1>10. cpu \o two \in Seq(S)
  BY <1>6, <1>8, ConcatIn
<1>11. Tasks(level, model, limits) \in Seq(S)
  BY <1>8, <1>9, <1>10, ConcatIn
<1> QED BY <1>11 DEF S

\* The fields of a run that its time depends on.
RunShape(run) == {"phase", "plan", "at", "elapsed", "spent"} \subseteq DOMAIN run

\* The tasks of a plan each have the time that its limits give to a task.
PlanTimed(plan_) ==
    /\ plan_.limits.total \in Nat /\ plan_.limits.task \in 1..plan_.limits.total
    /\ plan_.tasks \in Seq(TasksOf(plan_.level, plan_.limits))

\* What may have been used of the time: between tasks, while a task is set up,
\* which had its whole time left, and while it is measured, which it leaves
\* when its time is spent.
TimeInv ==
    CalibrationRuns =>
        LET limits == cal.plan.limits
        IN  /\ RunShape(cal) /\ PlanTimed(cal.plan)
            /\ cal.elapsed \in Nat /\ cal.spent \in Nat /\ cal.at \in Nat \ {0}
            /\ cal.phase = "next" => cal.elapsed < limits.total + 2 * MaxSampleTime /\ cal.spent = 0
            /\ cal.phase # "next" => cal.at <= Len(cal.plan.tasks)
            /\ cal.phase = "setup" => cal.elapsed + limits.task <= limits.total /\ cal.spent = 0
            /\ cal.phase = "measuring" =>
                  /\ cal.elapsed + limits.task <= limits.total + MaxSampleTime + cal.spent
                  /\ cal.spent < limits.task

\* A plan that is built has valid limits.
LEMMA BuiltTimed ==
    ASSUME NEW user, NEW ctx, Build(user, ctx, Conservative(user)).ok
    PROVE  LET built == Build(user, ctx, Conservative(user)).value
           IN  PlanTimed(built)
<1> DEFINE limits == Conservative(user)
           tasks == Tasks(user.level, ctx.model, limits)
           checks == BuildErrors(user, ctx, limits, tasks)
<1>1. /\ FirstError(checks) = None
      /\ Build(user, ctx, limits).value =
           [level |-> user.level, machine |-> ctx.machine.id, model |-> ctx.model.id,
            storage |-> ctx.storage.id, limits |-> limits, tasks |-> tasks]
  <2> DEFINE value == [level |-> user.level, machine |-> ctx.machine.id, model |-> ctx.model.id,
                       storage |-> ctx.storage.id, limits |-> limits, tasks |-> tasks]
  <2>1. Build(user, ctx, limits) =
          IF FirstError(checks) # None THEN Err(FirstError(checks)) ELSE Ok(value)
    BY DEF Build
  <2> HIDE DEF limits, checks, tasks, value
  <2>2. Build(user, ctx, limits).ok
    BY DEF limits
  <2>3. FirstError(checks) = None
    BY <2>1, <2>2 DEF Err
  <2> QED BY <2>1, <2>3 DEF Ok, value
<1>2. checks = [i \in 1..7 |-> checks[i]] /\ DOMAIN checks = 1..7
  BY DEF BuildErrors
<1>3. /\ checks[1][2] = "UserProfile" /\ checks[2][2] = "MachineProfile"
      /\ checks[3][2] = "invalid calibration limits"
      /\ checks[4][2] = "storage file size does not match model profile"
      /\ checks[5][2] = "available machine RAM is unknown"
      /\ checks[6][2] = "calibration memory exceeds available machine RAM"
      /\ checks[7][2] = "unbounded task resources"
      /\ checks[3][1] = (~LimitsValid(limits, user))
  BY DEF BuildErrors
<1>4. LimitsValid(limits, user)
  <2> HIDE DEF limits, tasks, checks
  <2>1. \A i \in 1..7 : checks[i][2] # None
    <3> TAKE i \in 1..7
    <3>1. i = 1 \/ i = 2 \/ i = 3 \/ i = 4 \/ i = 5 \/ i = 6 \/ i = 7
      OBVIOUS
    <3> QED BY <1>3, <3>1, BuildErrorsAssumption
  <2>2. NoneFails(checks)
    BY <1>1, <1>2, <2>1, ListOfChecks, NoErrorNoneFails
  <2>3. ~checks[3][1]
    BY <1>2, <2>2 DEF NoneFails
  <2> QED BY <1>3, <2>3
<1>5. limits.total \in Nat /\ limits.task \in 1..limits.total
  BY <1>4, CalibrationAssumption DEF LimitsValid, Conservative
<1>6. tasks \in Seq(TasksOf(user.level, limits))
  BY TasksListed
<1> HIDE DEF limits, tasks
<1> QED BY <1>1, <1>5, <1>6 DEF PlanTimed, limits

\* A run starts with all of its time.
LEMMA BeginTimed ==
    ASSUME NEW user, NEW ctx, BeginCalibration(user, ctx)
    PROVE  TimeInv'
<1> DEFINE built == Build(user, ctx, Conservative(user))
<1>1. CASE ~(built.ok /\ user.level > 0)
  BY <1>1 DEF BeginCalibration, TimeInv, CalibrationRuns
<1>2. CASE built.ok /\ user.level > 0
  <2>1. PlanTimed(built.value)
    BY <1>2, BuiltTimed
  <2>2. cal' = [phase |-> "next", plan |-> built.value, ctx |-> ctx, caps |-> Derive(ctx),
                ram |-> user.ram, at |-> 1, elapsed |-> 0, charged |-> 0,
                spent |-> 0, warmed |-> 0, units |-> 0, samples |-> <<>>, observations |-> <<>>]
    BY <1>2 DEF BeginCalibration
  <2>3. built.value.limits.total \in Nat \ {0}
    BY <2>1 DEF PlanTimed
  <2> HIDE DEF built
  <2> QED BY <2>1, <2>2, <2>3, CalibrationAssumption DEF TimeInv, RunShape, CalibrationRuns
<1> QED BY <1>1, <1>2

\* The task at hand has the time of a task.
LEMMA CurrentTimed ==
    ASSUME TimeInv, CalibrationRuns, cal.at <= Len(cal.plan.tasks)
    PROVE  CurrentTask.time = cal.plan.limits.task /\ CurrentTask.kind \in DOMAIN Kinds
<1>1. CurrentTask \in TasksOf(cal.plan.level, cal.plan.limits)
  <2>1. cal.at \in Nat \ {0} /\ cal.plan.tasks \in Seq(TasksOf(cal.plan.level, cal.plan.limits))
    BY DEF TimeInv, PlanTimed
  <2>2. cal.at \in DOMAIN cal.plan.tasks
    BY <2>1
  <2> QED BY <2>1, <2>2 DEF CurrentTask
<1>2. \A limits : cal.plan.limits = limits => CurrentTask.time = limits.task
  BY <1>1, TasksTimed
<1> QED BY <1>1, <1>2, TasksTimed

\* What a recorded observation leaves of a run.
LEMMA ObservedRun ==
    ASSUME NEW run, NEW observation, RunShape(run)
    PROVE  LET next == Observed(run, observation)
           IN  /\ RunShape(next) /\ next.phase = "next" /\ next.plan = run.plan
               /\ next.at = run.at + 1 /\ next.elapsed = run.elapsed /\ next.spent = 0
  BY DEF Observed, RunShape

\* A task left behind leaves a run between tasks.
LEMMA ObservedTimed ==
    ASSUME NEW run, NEW observation, RunShape(run), PlanTimed(run.plan),
           run.elapsed \in Nat, run.at \in Nat \ {0},
           run.elapsed < run.plan.limits.total + 2 * MaxSampleTime,
           cal' = Observed(run, observation)
    PROVE  TimeInv'
<1>1. /\ RunShape(cal') /\ cal'.phase = "next" /\ cal'.plan = run.plan
      /\ cal'.at = run.at + 1 /\ cal'.elapsed = run.elapsed /\ cal'.spent = 0
  BY ObservedRun
<1> QED BY <1>1 DEF TimeInv

\* Only a task whose whole time is left is begun.
LEMMA OnlyWithTime ==
    ASSUME TimeInv, CalibrationRuns, cal.at <= Len(cal.plan.tasks),
           NotExecuted(CurrentTask, cal) = None
    PROVE  cal.elapsed + cal.plan.limits.task <= cal.plan.limits.total
<1> DEFINE skipped == NotMeasured([kind |-> CurrentTask.kind], "Skipped", "TimeLimitReached")
<1>1. skipped # None
  BY CurrentTimed, CalibrationAssumption
<1>2. NotMeasured(CurrentTask, "Skipped", "TimeLimitReached") = skipped
  BY DEF NotMeasured
<1>3. TimeLeft(cal, CurrentTask)
  BY <1>1, <1>2 DEF NotExecuted
<1>4. cal.elapsed \in Nat /\ cal.plan.limits.total \in Nat /\ cal.plan.limits.task \in Nat
  BY DEF TimeInv, PlanTimed
<1> QED BY <1>3, <1>4, CurrentTimed DEF TimeLeft

LEMMA NextTaskTimed ==
    ASSUME TimeInv, NextTask
    PROVE  TimeInv'
<1> DEFINE without == NotExecuted(CurrentTask, cal)
           limits == cal.plan.limits
<1>1. CalibrationRuns /\ cal.at <= Len(cal.plan.tasks) /\ cal.phase = "next"
  BY DEF NextTask, CalibrationRuns
<1>2. /\ RunShape(cal) /\ PlanTimed(cal.plan)
      /\ cal.elapsed \in Nat /\ cal.spent \in Nat /\ cal.at \in Nat \ {0}
      /\ cal.elapsed < limits.total + 2 * MaxSampleTime /\ cal.spent = 0
  BY <1>1 DEF TimeInv
<1>3. CASE without # None
  <2>1. cal' = Observed(cal, without)
    BY <1>3 DEF NextTask
  <2> HIDE DEF without
  <2> QED BY <1>2, <2>1, ObservedTimed
<1>4. CASE without = None /\ CurrentTask.memory > cal.ram
  <2>1. cal' = [phase |-> "failed"]
    BY <1>4 DEF NextTask
  <2> QED BY <2>1 DEF TimeInv, CalibrationRuns
<1>5. CASE without = None /\ ~(CurrentTask.memory > cal.ram)
  <2>1. cal' = [cal EXCEPT !.phase = "setup", !.charged = CurrentTask.memory]
    BY <1>5 DEF NextTask
  <2>2. cal.elapsed + limits.task <= limits.total
    BY <1>1, <1>5, OnlyWithTime
  <2>3. /\ RunShape(cal') /\ cal'.phase = "setup" /\ cal'.plan = cal.plan /\ cal'.at = cal.at
        /\ cal'.elapsed = cal.elapsed /\ cal'.spent = cal.spent
    BY <1>2, <2>1 DEF RunShape
  <2> HIDE DEF without
  <2> QED BY <1>1, <1>2, <2>2, <2>3 DEF TimeInv
<1> QED BY <1>3, <1>4, <1>5

\* What a set-up takes is on top of the task's own time.
LEMMA SetUpTimed ==
    ASSUME NEW size, TimeInv, SetUp(size)
    PROVE  TimeInv'
<1> DEFINE limits == cal.plan.limits
<1>1. CalibrationRuns /\ cal.phase = "setup"
  BY DEF SetUp, CalibrationRuns
<1>2. /\ RunShape(cal) /\ PlanTimed(cal.plan)
      /\ cal.elapsed \in Nat /\ cal.at \in Nat \ {0} /\ cal.at <= Len(cal.plan.tasks)
      /\ cal.elapsed + limits.task <= limits.total /\ cal.spent = 0
  BY <1>1 DEF TimeInv
<1>3. limits.total \in Nat /\ limits.task \in 1..limits.total /\ MaxSampleTime \in Nat
  BY <1>2, CalibrationAssumption DEF PlanTimed
<1>4. PICK time \in 0..MaxSampleTime :
         LET run == [cal EXCEPT !.elapsed = @ + time]
         IN  FillBuffers(run) \/ \E opened : OpenModel(run, size, opened)
  BY DEF SetUp
<1> DEFINE run == [cal EXCEPT !.elapsed = @ + time]
<1>5. /\ RunShape(run) /\ run.plan = cal.plan /\ run.elapsed = cal.elapsed + time
      /\ run.at = cal.at /\ run.spent = cal.spent
  BY <1>2 DEF RunShape
<1>6. \/ \E error : cal' = Observed(run, Unmeasured(CurrentTask, error))
      \/ \E units : cal' = [run EXCEPT !.phase = "measuring", !.units = units]
  <2>1. CASE FillBuffers(run)
    <3> HIDE DEF run
    <3> QED BY <2>1 DEF FillBuffers
  <2>2. ASSUME NEW opened, OpenModel(run, size, opened)
        PROVE  \/ \E error : cal' = Observed(run, Unmeasured(CurrentTask, error))
               \/ \E units : cal' = [run EXCEPT !.phase = "measuring", !.units = units]
    <3> HIDE DEF run
    <3> QED BY <2>2 DEF OpenModel
  <2> QED BY <1>4, <2>1, <2>2
<1>7. ASSUME NEW error, cal' = Observed(run, Unmeasured(CurrentTask, error)) PROVE TimeInv'
  <2>1. run.elapsed \in Nat /\ run.elapsed < run.plan.limits.total + 2 * MaxSampleTime
    <3>1. cal.elapsed + time \in Nat /\ cal.elapsed + time < limits.total + 2 * MaxSampleTime
      BY <1>2, <1>3
    <3>2. run.elapsed = cal.elapsed + time /\ run.plan = cal.plan
      BY <1>5
    <3> HIDE DEF run
    <3> QED BY <3>1, <3>2
  <2>2. RunShape(run) /\ PlanTimed(run.plan) /\ run.at \in Nat \ {0}
    BY <1>2, <1>5
  <2> HIDE DEF run
  <2> QED BY <1>7, <2>1, <2>2, ObservedTimed
<1>8. ASSUME NEW units, cal' = [run EXCEPT !.phase = "measuring", !.units = units] PROVE TimeInv'
  <2>1. /\ RunShape(cal') /\ cal'.phase = "measuring" /\ cal'.plan = cal.plan /\ cal'.at = cal.at
        /\ cal'.elapsed = cal.elapsed + time /\ cal'.spent = 0
    <3> HIDE DEF run
    <3> QED BY <1>2, <1>5, <1>8 DEF RunShape
  <2>2. /\ cal'.elapsed \in Nat /\ cal'.spent \in Nat /\ cal'.spent < cal'.plan.limits.task
        /\ cal'.elapsed + cal'.plan.limits.task
             <= cal'.plan.limits.total + MaxSampleTime + cal'.spent
    <3>1. \A a, t, l \in Nat, d \in 0..MaxSampleTime : a + l <= t => a + d + l <= t + MaxSampleTime + 0
      BY <1>3
    <3>2. limits.task \in Nat \ {0} /\ time \in Nat /\ cal'.plan.limits = limits
      BY <1>3, <2>1
    <3> HIDE DEF limits, run
    <3> QED BY <1>2, <1>3, <2>1, <3>1, <3>2
  <2>3. PlanTimed(cal'.plan) /\ cal'.at \in Nat \ {0} /\ cal'.at <= Len(cal'.plan.tasks)
    BY <1>2, <2>1
  <2> HIDE DEF run, limits
  <2> QED BY <2>1, <2>2, <2>3 DEF TimeInv
<1> HIDE DEF run
<1> QED BY <1>6, <1>7, <1>8

\* An operation ends no later than its own time after its task's time is up.
LEMMA PassedTimed ==
    ASSUME TimeInv, cal.phase = "measuring", NEW time \in 0..MaxSampleTime
    PROVE  LET run == Passed(cal, time)
           IN  /\ RunShape(run) /\ run.phase = "measuring"
               /\ run.plan = cal.plan /\ run.at = cal.at
               /\ run.elapsed \in Nat /\ run.spent \in Nat
               /\ run.elapsed < cal.plan.limits.total + 2 * MaxSampleTime
               /\ run.elapsed + cal.plan.limits.task
                    <= cal.plan.limits.total + MaxSampleTime + run.spent
<1> DEFINE limits == cal.plan.limits
<1>1. /\ RunShape(cal) /\ PlanTimed(cal.plan)
      /\ cal.elapsed \in Nat /\ cal.spent \in Nat
      /\ cal.elapsed + limits.task <= limits.total + MaxSampleTime + cal.spent
      /\ cal.spent < limits.task
  BY DEF TimeInv, CalibrationRuns
<1>2. limits.total \in Nat /\ limits.task \in Nat /\ MaxSampleTime \in Nat
  BY <1>1, CalibrationAssumption DEF PlanTimed
<1>3. LET run == Passed(cal, time)
      IN  /\ RunShape(run) /\ run.phase = cal.phase /\ run.plan = cal.plan /\ run.at = cal.at
          /\ run.elapsed = cal.elapsed + time /\ run.spent = cal.spent + time
  BY <1>1 DEF Passed, RunShape
<1> QED BY <1>1, <1>2, <1>3

\* A run that goes on with its task has time of the task left.
LEMMA GoesOnTimed ==
    ASSUME TimeInv, cal.phase = "measuring", NEW time \in 0..MaxSampleTime, NEW next,
           RunShape(next), next.phase = "measuring", next.plan = cal.plan, next.at = cal.at,
           next.elapsed = Passed(cal, time).elapsed, next.spent = Passed(cal, time).spent,
           ~(next.spent >= CurrentTask.time), cal' = next
    PROVE  TimeInv'
<1>1. CalibrationRuns /\ PlanTimed(cal.plan) /\ cal.at \in Nat \ {0} /\ cal.at <= Len(cal.plan.tasks)
  BY DEF TimeInv, CalibrationRuns
<1>2. CurrentTask.time = cal.plan.limits.task
  BY <1>1, CurrentTimed
<1>3. cal.plan.limits.task \in Nat
  BY <1>1 DEF PlanTimed
<1>4. /\ next.elapsed \in Nat /\ next.spent \in Nat
      /\ next.elapsed + cal.plan.limits.task <= cal.plan.limits.total + MaxSampleTime + next.spent
  BY PassedTimed
<1>5. next.spent < cal.plan.limits.task
  BY <1>2, <1>3, <1>4
<1> QED BY <1>1, <1>4, <1>5 DEF TimeInv

LEMMA WarmupTimed ==
    ASSUME TimeInv, Warmup
    PROVE  TimeInv'
<1>1. cal.phase = "measuring" /\ RunShape(cal) /\ PlanTimed(cal.plan) /\ cal.at \in Nat \ {0}
  BY DEF Warmup, TimeInv, CalibrationRuns
<1>2. PICK time \in 0..MaxSampleTime :
         LET run == [Passed(cal, time) EXCEPT !.warmed = @ + 1]
         IN  cal' = IF run.spent >= CurrentTask.time
                    THEN Observed(run, Unmeasured(CurrentTask, "TimeLimitReached")) ELSE run
  BY DEF Warmup
<1> DEFINE run == [Passed(cal, time) EXCEPT !.warmed = @ + 1]
<1>3. /\ RunShape(run) /\ run.phase = "measuring" /\ run.plan = cal.plan /\ run.at = cal.at
      /\ run.elapsed = Passed(cal, time).elapsed /\ run.spent = Passed(cal, time).spent
  <2> DEFINE p == Passed(cal, time)
  <2>1. RunShape(p) /\ p.phase = "measuring" /\ p.plan = cal.plan /\ p.at = cal.at
    BY <1>1, PassedTimed
  <2> HIDE DEF p
  <2>2. LET next == [p EXCEPT !.warmed = @ + 1]
        IN  /\ RunShape(next) /\ next.phase = "measuring" /\ next.plan = cal.plan
            /\ next.at = cal.at /\ next.elapsed = p.elapsed /\ next.spent = p.spent
    BY <2>1 DEF RunShape
  <2> QED BY <2>2 DEF p
<1>4. run.elapsed \in Nat /\ run.elapsed < run.plan.limits.total + 2 * MaxSampleTime
  BY <1>1, <1>3, PassedTimed
<1>5. CASE run.spent >= CurrentTask.time
  <2>1. cal' = Observed(run, Unmeasured(CurrentTask, "TimeLimitReached"))
    BY <1>2, <1>5
  <2> HIDE DEF run
  <2> QED BY <1>1, <1>3, <1>4, <2>1, ObservedTimed
<1>6. CASE ~(run.spent >= CurrentTask.time)
  <2>1. cal' = run
    BY <1>2, <1>6
  <2> HIDE DEF run
  <2> QED BY <1>1, <1>3, <1>6, <2>1, GoesOnTimed
<1> QED BY <1>5, <1>6

LEMMA TakeSampleTimed ==
    ASSUME TimeInv, TakeSample
    PROVE  TimeInv'
<1> DEFINE limits == cal.plan.limits
<1>1. /\ cal.phase = "measuring" /\ RunShape(cal) /\ PlanTimed(cal.plan)
      /\ cal.elapsed \in Nat /\ cal.spent \in Nat /\ cal.at \in Nat \ {0}
      /\ cal.elapsed + limits.task <= limits.total + MaxSampleTime + cal.spent
      /\ cal.spent < limits.task
  BY DEF TakeSample, TimeInv, CalibrationRuns
<1>2. limits.total \in Nat /\ limits.task \in Nat /\ MaxSampleTime \in Nat
  BY <1>1, CalibrationAssumption DEF PlanTimed
<1>3. \E time \in 0..MaxSampleTime : \E sample :
         LET run == [Passed(cal, time) EXCEPT !.samples = Append(@, sample)]
         IN  \/ \E o : cal' = Observed(cal, o)
             \/ \E o : cal' = Observed(run, o)
             \/ cal' = run /\ ~(run.spent >= CurrentTask.time)
  <2>1. PICK time \in 0..MaxSampleTime :
          LET sample == [elapsed |-> time, units |-> cal.units * CurrentTask.iterations]
              run == [Passed(cal, time) EXCEPT !.samples = Append(@, sample)]
          IN  cal' = IF time = 0 THEN Observed(cal, Unmeasured(CurrentTask, "InvalidWorkload"))
                     ELSE IF SamplesEnd(run, CurrentTask)
                     THEN Observed(run, Measured(CurrentTask, run.samples))
                     ELSE run
    BY DEF TakeSample
  <2> DEFINE sample == [elapsed |-> time, units |-> cal.units * CurrentTask.iterations]
             run == [Passed(cal, time) EXCEPT !.samples = Append(@, sample)]
  <2>2. ~SamplesEnd(run, CurrentTask) => ~(run.spent >= CurrentTask.time)
    BY DEF SamplesEnd
  <2>3. \/ cal' = Observed(cal, Unmeasured(CurrentTask, "InvalidWorkload"))
        \/ cal' = Observed(run, Measured(CurrentTask, run.samples))
        \/ cal' = run /\ ~(run.spent >= CurrentTask.time)
    BY <2>1, <2>2
  <2> QED BY <2>3
<1>4. PICK time \in 0..MaxSampleTime : \E sample :
         LET run == [Passed(cal, time) EXCEPT !.samples = Append(@, sample)]
         IN  \/ \E o : cal' = Observed(cal, o)
             \/ \E o : cal' = Observed(run, o)
             \/ cal' = run /\ ~(run.spent >= CurrentTask.time)
  BY <1>3
<1>5. PICK sample :
         LET run == [Passed(cal, time) EXCEPT !.samples = Append(@, sample)]
         IN  \/ \E o : cal' = Observed(cal, o)
             \/ \E o : cal' = Observed(run, o)
             \/ cal' = run /\ ~(run.spent >= CurrentTask.time)
  BY <1>4
<1> DEFINE run == [Passed(cal, time) EXCEPT !.samples = Append(@, sample)]
<1>6. /\ RunShape(run) /\ run.phase = "measuring" /\ run.plan = cal.plan /\ run.at = cal.at
      /\ run.elapsed = Passed(cal, time).elapsed /\ run.spent = Passed(cal, time).spent
  <2> DEFINE p == Passed(cal, time)
  <2>1. RunShape(p) /\ p.phase = "measuring" /\ p.plan = cal.plan /\ p.at = cal.at
    BY <1>1, PassedTimed
  <2> HIDE DEF p
  <2>2. LET next == [p EXCEPT !.samples = Append(@, sample)]
        IN  /\ RunShape(next) /\ next.phase = "measuring" /\ next.plan = cal.plan
            /\ next.at = cal.at /\ next.elapsed = p.elapsed /\ next.spent = p.spent
    BY <2>1 DEF RunShape
  <2> QED BY <2>2 DEF p
<1>7. run.elapsed \in Nat /\ run.elapsed < run.plan.limits.total + 2 * MaxSampleTime
  BY <1>1, <1>6, PassedTimed
<1>8. ASSUME NEW o, cal' = Observed(cal, o) PROVE TimeInv'
  BY <1>1, <1>2, <1>8, ObservedTimed
<1>9. ASSUME NEW o, cal' = Observed(run, o) PROVE TimeInv'
  <2> HIDE DEF run
  <2> QED BY <1>1, <1>6, <1>7, <1>9, ObservedTimed
<1>10. CASE cal' = run /\ ~(run.spent >= CurrentTask.time)
  <2> HIDE DEF run
  <2> QED BY <1>1, <1>6, <1>10, GoesOnTimed
<1>11. \/ \E o : cal' = Observed(cal, o)
       \/ \E o : cal' = Observed(run, o)
       \/ cal' = run /\ ~(run.spent >= CurrentTask.time)
  BY <1>5, Zenon
<1> HIDE DEF run
<1> QED BY <1>8, <1>9, <1>10, <1>11

\* A read that fails has taken its time, too.
LEMMA OperationFailsTimed ==
    ASSUME TimeInv, OperationFails
    PROVE  TimeInv'
<1>1. cal.phase = "measuring" /\ RunShape(cal) /\ PlanTimed(cal.plan) /\ cal.at \in Nat \ {0}
  BY DEF OperationFails, TimeInv, CalibrationRuns
<1>2. PICK time \in 0..MaxSampleTime :
         cal' = Observed(Passed(cal, time), Unmeasured(CurrentTask, "IoFailure"))
  BY DEF OperationFails
<1> DEFINE run == Passed(cal, time)
<1>3. /\ RunShape(run) /\ run.plan = cal.plan /\ run.at = cal.at
      /\ run.elapsed \in Nat /\ run.elapsed < cal.plan.limits.total + 2 * MaxSampleTime
  BY <1>1, PassedTimed
<1>4. cal' = Observed(run, Unmeasured(CurrentTask, "IoFailure"))
  BY <1>2
<1> HIDE DEF run
<1> QED BY <1>1, <1>3, <1>4, ObservedTimed

\* Every step of the runner, and of what surrounds it, keeps the time.
LEMMA TimeStep == TimeInv /\ [LifecycleNext]_lifecycleVars => TimeInv'
<1> SUFFICES ASSUME TimeInv, [LifecycleNext]_lifecycleVars PROVE TimeInv'
  OBVIOUS
<1>1. CASE UNCHANGED cal
  BY <1>1 DEF TimeInv, CalibrationRuns
<1>2. CASE cal' = NotCalibrating
  BY <1>2 DEF TimeInv, CalibrationRuns, NotCalibrating
<1>3. CASE Calibrate
  BY <1>3, BeginTimed DEF Calibrate
<1>4. CASE Calibrating
  BY <1>4, NextTaskTimed, SetUpTimed, OperationFailsTimed, WarmupTimed, TakeSampleTimed
     DEF Calibrating, CalibrationStep
<1>5. LifecycleNext => UNCHANGED cal \/ cal' = NotCalibrating \/ Calibrate \/ Calibrating
  <2>1. ASSUME NEW user, Analyze(user) PROVE cal' = NotCalibrating
    BY <2>1 DEF Analyze
  <2>2. Calibrated \/ OpenPlan => cal' = NotCalibrating
    BY DEF Calibrated, OpenPlan
  <2>3. ChangeEnvironment \/ CreatePlan \/ Activate \/ SavePlan \/ FileSteps => UNCHANGED cal
    BY DEF ChangeEnvironment, CreatePlan, Activate, SavePlan, FileSteps, lvars
  <2> QED BY <2>1, <2>2, <2>3 DEF LifecycleNext
<1> QED BY <1>1, <1>2, <1>3, <1>4, <1>5 DEF lifecycleVars, lvars

\* A calibration ends within its total time, but for one set-up and one warm-up
\* operation or sample: overruns do not add up (CalibrationRunner, execute_task).
THEOREM CalibrationTimeTheorem == LifecycleSpec => []CalibrationTimeBounded
<1>1. LifecycleInit => TimeInv
  BY DEF LifecycleInit, TimeInv, CalibrationRuns, NotCalibrating
<1>2. TimeInv => CalibrationTimeBounded
  <2> SUFFICES ASSUME TimeInv, CalibrationRuns
               PROVE  cal.elapsed < cal.plan.limits.total + 2 * MaxSampleTime
    BY DEF CalibrationTimeBounded
  <2>1. /\ cal.elapsed \in Nat /\ cal.spent \in Nat
        /\ cal.plan.limits.total \in Nat /\ MaxSampleTime \in Nat
        /\ cal.plan.limits.task \in Nat \ {0}
    BY CalibrationAssumption DEF TimeInv, PlanTimed
  <2>2. CASE cal.phase = "next"
    BY <2>2 DEF TimeInv
  <2>3. CASE cal.phase = "setup"
    <3>1. cal.elapsed + cal.plan.limits.task <= cal.plan.limits.total
      BY <2>3 DEF TimeInv
    <3> QED BY <2>1, <3>1
  <2>4. CASE cal.phase = "measuring"
    <3>1. /\ cal.elapsed + cal.plan.limits.task <= cal.plan.limits.total + MaxSampleTime + cal.spent
          /\ cal.spent < cal.plan.limits.task
      BY <2>4 DEF TimeInv
    <3> QED BY <2>1, <3>1
  <2> QED BY <2>2, <2>3, <2>4 DEF CalibrationRuns
<1> QED BY <1>1, <1>2, TimeStep, PTL DEF LifecycleSpec

-----------------------------------------------------------------------------
(* The life of a plan: its file, and what it is a plan of.                 *)

IsFunction(f) == f = [x \in DOMAIN f |-> f[x]]

\* What can be nothing, or torn, is no plan.
NothingIsNoPlan == ~IsFunction(None) /\ ~IsFunction(Torn) /\ None # Torn

\* What a plan is judged by later is part of it; its budget is a user's, and
\* what is counted are numbers.
Budgets == {user.ram : user \in Users}
PlanShape(p) ==
    /\ {"model", "reason", "calibration", "observations", "ram", "threads", "cache_capacity"}
         \subseteq DOMAIN p
    /\ p.ram \in Budgets /\ p.threads \in Nat /\ p.cache_capacity \in Nat

\* A context is that of an environment, analysed for a user's budget.
Analyzed(ctx) == \E e \in Environments, ram \in Budgets : ctx = Context(e, ram)

Stored(p, n) == Store!Cut(EncodePieces(p), n)

\* The file is a prefix of what its owner saved, which is a plan, and so is
\* what a load has read; a load returns a plan or nothing.
PlanHeld == plan # None => PlanShape(plan.plan)
FileHeld ==
    /\ file = None => owner = None /\ reader = None /\ writing = FALSE
    /\ file # None =>
          /\ PlanShape(owner) /\ owner \notin {None, Torn}
          /\ file.length \in 0..3 /\ file = Stored(owner, file.length)
          /\ reader # None => reader.length \in 0..file.length /\ reader = Stored(owner, reader.length)
LoadHeld == loaded \notin {None, Torn} => PlanShape(loaded)

\* The session's context is one, and so is that of the plan at hand; a plan
\* is yet to be made for a user.
SessionHeld ==
    /\ env \in Environments
    /\ session # None => Analyzed(session.ctx) /\ (plan = None => session.user \in Users)
    /\ plan # None => Analyzed(session.ctx)

StoreHeld == PlanHeld /\ FileHeld /\ LoadHeld
LifeHeld == StoreHeld /\ SessionHeld

\* A prefix of the encoding, its length, and what a load makes of it.
LEMMA StoredPrefix ==
    ASSUME NEW p, NEW n \in 0..3
    PROVE  /\ Stored(p, n).length = n
           /\ Stored(p, n).cells = [i \in 1..n |-> EncodePieces(p)[i]]
           /\ DecodePieces(Stored(p, n).cells) = IF n = 3 THEN p ELSE Torn
           /\ NothingIsNoPlan => Stored(p, n) # None
<1>1. /\ Stored(p, n).length = n
      /\ Stored(p, n).cells = [i \in 1..n |-> EncodePieces(p)[i]]
  BY DEF Stored, Store!Cut
<1>2. Len(Stored(p, n).cells) = n
  BY <1>1
<1>3. n = 3 => Stored(p, n).cells[2] = p
  BY <1>1 DEF EncodePieces
<1>4. DecodePieces(Stored(p, n).cells) = IF n = 3 THEN p ELSE Torn
  BY <1>2, <1>3 DEF DecodePieces
<1>5. IsFunction(Stored(p, n))
  BY DEF Stored, Store!Cut, IsFunction
<1>6. NothingIsNoPlan => Stored(p, n) # None
  BY <1>5 DEF NothingIsNoPlan
<1> QED BY <1>1, <1>4, <1>6

LEMMA StoredSize == \A p : Store!Size(p) = 3
  BY DEF Store!Size, EncodePieces

\* A prefix of a prefix is a prefix.
LEMMA StoredCut ==
    ASSUME NEW p, NEW m \in 0..3, NEW n \in 0..m
    PROVE  Store!Cut(Stored(p, m).cells, n) = Stored(p, n)
<1> DEFINE s == EncodePieces(p)
           whole == [i \in 1..m |-> s[i]]
           part == [i \in 1..n |-> whole[i]]
<1> HIDE DEF s
<1>1. part = [i \in 1..n |-> s[i]]
  OBVIOUS
<1>2. Stored(p, m).cells = whole
  BY DEF Stored, Store!Cut, s
<1>3. Store!Cut(whole, n) = [cells |-> part, length |-> n]
  BY DEF Store!Cut
<1> QED BY <1>1, <1>2, <1>3 DEF Stored, Store!Cut, s

\* What is kept of a plan is a plan, and not nothing.
LEMMA Persisted ==
    ASSUME NothingIsNoPlan, NEW p, PlanShape(p)
    PROVE  PlanShape(Persist(p)) /\ Persist(p) \notin {None, Torn}
<1>1. IsFunction(Persist(p))
  BY DEF IsFunction, Persist
<1> QED BY <1>1 DEF NothingIsNoPlan, PlanShape, Persist

\* Of two numbers the larger is one of them and not less than either.
LEMMA GreaterOfTwo ==
    ASSUME NEW a \in Nat, NEW b \in Nat
    PROVE  Max({a, b}) \in {a, b} /\ a <= Max({a, b}) /\ b <= Max({a, b})
<1>1. \E x \in {a, b} : \A y \in {a, b} : x >= y
  <2>1. CASE a >= b
    BY <2>1
  <2>2. CASE b >= a
    BY <2>2
  <2> QED BY <2>1, <2>2
<1>2. Max({a, b}) \in {a, b} /\ \A y \in {a, b} : Max({a, b}) >= y
  BY <1>1 DEF Max
<1> QED BY <1>2

\* Of two numbers the smaller is one of them.
LEMMA LesserOfTwo ==
    ASSUME NEW a \in Nat, NEW b \in Nat
    PROVE  Min({a, b}) \in {a, b}
<1>1. \E x \in {a, b} : \A y \in {a, b} : x <= y
  <2>1. CASE a <= b
    BY <2>1
  <2>2. CASE b <= a
    BY <2>2
  <2> QED BY <2>1, <2>2
<1> QED BY <1>1 DEF Min

\* A finite set of numbers has a greatest one: of the numbers above each of
\* its members there are fewest above that one, none.
LEMMA GreatestNumber ==
    ASSUME NEW S, S \subseteq Nat, IsFiniteSet(S), S # {}
    PROVE  Max(S) \in S /\ \A x \in S : x <= Max(S)
<1> DEFINE R == StrictSubsetOrdering(S)
           Above(m) == {x \in S : m < x}
           above == {Above(m) : m \in S}
<1>1. IsWellFoundedOn(R, FiniteSubsetsOf(S))
  BY FS_StrictSubsetOrderingWellFounded
<1>2. \A m \in S : Above(m) \subseteq S /\ IsFiniteSet(Above(m))
  <2> TAKE m \in S
  <2>1. Above(m) \subseteq S
    OBVIOUS
  <2> HIDE DEF Above
  <2> QED BY <2>1, FS_Subset
<1>3. above \subseteq FiniteSubsetsOf(S) /\ above # {}
  <2> HIDE DEF Above
  <2> QED BY <1>2 DEF FiniteSubsetsOf
<1>4. ASSUME NEW m \in S, NEW k \in Above(m)
      PROVE  k \in S /\ <<Above(k), Above(m)>> \in R
  <2>1. k \in S /\ k \notin Above(k)
    OBVIOUS
  <2>2. m \in Nat /\ k \in Nat /\ m < k
    BY <1>4
  <2>3. \A x \in S : k < x => m < x
    BY <2>2
  <2>4. Above(k) \subseteq Above(m)
    BY <2>3
  <2> HIDE DEF Above
  <2> QED BY <1>2, <1>4, <2>1, <2>4 DEF StrictSubsetOrdering
<1> HIDE DEF R, above
<1>5. PICK s \in above : \A r \in above : ~(<<r, s>> \in R)
  BY <1>1, <1>3, WFMin
<1>6. PICK m \in S : s = Above(m)
  BY <1>5 DEF above
<1>7. \A k \in S : Above(k) \in above
  BY DEF above
<1>8. Above(m) = {}
  <2> HIDE DEF Above
  <2> QED BY <1>4, <1>5, <1>6, <1>7
<1>9. \A x \in S : m >= x
  BY <1>8
<1>10. Max(S) \in S /\ \A x \in S : Max(S) >= x
  BY <1>9 DEF Max
<1> QED BY <1>10

\* What a model needs at least, and what that leaves, are numbers; the start
\* needs no more than the whole.
LEMMA MemoryTyped ==
    ASSUME NEW e \in Environments, NEW ram \in Budgets
    PROVE  LET memory == ExecutionMemory(e.model, ram)
           IN  /\ memory.bound \in Nat /\ memory.startup \in Nat /\ memory.cache \in Nat
               /\ memory.startup <= memory.bound
<1> DEFINE persistent == Persistents(e.model.persistents, ram)
           peaks == {e.model.layers[i].peak : i \in DOMAIN e.model.layers}
           largest == Max({0} \cup peaks)
           least == ManagedLowerBound(persistent, largest)
<1>1. ram \in Nat /\ persistent.resident \in Nat /\ persistent.peak \in Nat
  BY LifecycleAssumption DEF Budgets
<1>2. largest \in Nat
  <2>1. e.model.layers \in Seq([resident : Nat, peak : Nat])
    BY LifecycleAssumption
  <2>2. DOMAIN e.model.layers = 1..Len(e.model.layers) /\ Len(e.model.layers) \in Nat
    BY <2>1
  <2>3. \A i \in DOMAIN e.model.layers : e.model.layers[i].peak \in Nat
    <3> TAKE i \in DOMAIN e.model.layers
    <3>1. e.model.layers[i] \in [resident : Nat, peak : Nat]
      BY <2>1, <2>2, ElementOfSeq, Zenon
    <3>2. \A r \in [resident : Nat, peak : Nat] : r.peak \in Nat
      OBVIOUS
    <3> QED BY <3>1, <3>2, Zenon
  <2>4. IsFiniteSet(DOMAIN e.model.layers)
    BY <2>2, FS_Interval
  <2>5. IsFiniteSet(peaks)
    <3> DEFINE D == DOMAIN e.model.layers
               f == [i \in D |-> e.model.layers[i].peak]
    <3>1. f \in [D -> peaks] /\ \A y \in peaks : \E i \in D : f[i] = y
      OBVIOUS
    <3>2. f \in Surjection(D, peaks)
      BY <3>1 DEF Surjection
    <3>3. IsFiniteSet(D)
      BY <2>4
    <3> HIDE DEF f, D, peaks
    <3> QED BY <3>2, <3>3, FS_Surjection
  <2>6. peaks \subseteq Nat
    BY <2>3
  <2> HIDE DEF peaks
  <2>7. IsFiniteSet({0} \cup peaks)
    BY <2>5, FS_AddElement, FS_Singleton, FS_Union
  <2>8. {0} \cup peaks \subseteq Nat /\ {0} \cup peaks # {}
    BY <2>6
  <2> QED BY <2>7, <2>8, GreatestNumber
<1> HIDE DEF largest, persistent
<1>3. least \in Nat /\ persistent.peak <= least
  BY <1>1, <1>2, GreaterOfTwo DEF ManagedLowerBound
<1>4. ExecutionMemory(e.model, ram).bound = least
      /\ ExecutionMemory(e.model, ram).startup = persistent.peak
      /\ ExecutionMemory(e.model, ram).cache = IF least <= ram THEN ram - least ELSE 0
  BY DEF ExecutionMemory, largest, persistent
<1> HIDE DEF least
<1> QED BY <1>1, <1>3, <1>4

LEMMA ThreadsTyped ==
    ASSUME NEW user \in Users, NEW e \in Environments
    PROVE  Threads(user, e.machine) \in Nat
<1> DEFINE limit == ThreadLimit(user, e.machine)
           preset == Policy[user.mode]
<1>1. /\ e.machine.cores \in Nat /\ user.threads \in Nat \cup {None}
      /\ user.thread_limit \in Nat \cup {None} /\ user.mode \in DOMAIN Policy
  BY LifecycleAssumption
<1>2. limit \in Nat
  BY <1>1, LesserOfTwo DEF ThreadLimit, Default
<1>3. preset.num \in Nat /\ preset.den \in Nat \ {0}
  BY <1>1 DEF Policy
<1> HIDE DEF limit, preset
<1>4. (limit * preset.num) \div preset.den \in Nat
  BY <1>2, <1>3
<1>5. Max({1, (limit * preset.num) \div preset.den}) \in Nat
  BY <1>4, GreaterOfTwo
<1> QED BY <1>1, <1>5 DEF Threads, Default, limit, preset

LEMMA CacheTyped ==
    ASSUME NEW user \in Users, NEW ctx, Analyzed(ctx)
    PROVE  CacheDecision(RequestedCache(user, Derive(ctx), ctx.static.memory), ctx.static.memory) \in Nat
<1> DEFINE caps == Derive(ctx)
           memory == ctx.static.memory
           share == Policy[user.mode].cache
<1>1. CASE ~WantsCache(user) \/ ~caps.cache
  <2>1. RequestedCache(user, caps, memory) = 0
    BY <1>1 DEF RequestedCache
  <2> QED BY <2>1 DEF CacheDecision
<1>2. CASE WantsCache(user) /\ caps.cache
  <2>1. memory # None
    BY <1>2 DEF Derive
  <2>2. memory.cache \in Nat
    BY <2>1, MemoryTyped DEF Analyzed, Context, PlanModel
  <2>3. share \in Nat /\ user.cache_capacity \in Nat \cup {None}
    BY LifecycleAssumption DEF Policy
  <2> HIDE DEF caps, memory, share
  <2>4. (memory.cache * share) \div 10000 \in Nat
    BY <2>2, <2>3
  <2>5. RequestedCache(user, caps, memory) = Default(user.cache_capacity, (memory.cache * share) \div 10000)
    BY <1>2 DEF RequestedCache, share
  <2>6. RequestedCache(user, caps, memory) \in Nat
    BY <2>3, <2>4, <2>5 DEF Default
  <2> QED BY <2>6 DEF CacheDecision, caps, memory
<1> QED BY <1>1, <1>2

LEMMA CreatedShape ==
    ASSUME NEW user \in Users, NEW ctx, Analyzed(ctx), NEW calibration,
           Plan(user, ctx, calibration).ok
    PROVE  PlanShape(Plan(user, ctx, calibration).value)
<1> DEFINE made == Decide(user, ctx, Derive(ctx), calibration)
<1>1. Plan(user, ctx, calibration) = Ok(made)
  BY DEF Plan, Err
<1>2. /\ {"model", "reason", "calibration", "observations", "ram", "threads", "cache_capacity"}
           \subseteq DOMAIN made
      /\ made.ram = user.ram /\ made.threads = Threads(user, ctx.machine)
      /\ made.cache_capacity =
            CacheDecision(RequestedCache(user, Derive(ctx), ctx.static.memory), ctx.static.memory)
  BY DEF Decide
<1> HIDE DEF made
<1>3. made.threads \in Nat
  BY <1>2, ThreadsTyped DEF Analyzed, Context
<1>4. made.cache_capacity \in Nat
  BY <1>2, CacheTyped
<1>5. made.ram \in Budgets
  BY <1>2 DEF Budgets
<1> QED BY <1>1, <1>2, <1>3, <1>4, <1>5 DEF Ok, PlanShape

LEMMA LoadedShape ==
    ASSUME NEW s, NEW ctx, PlanShape(s)
    PROVE  PlanShape(Materialize(s, ctx))
  BY DEF PlanShape, Materialize

-----------------------------------------------------------------------------
\* Reading and writing keep the file and the load prefixes of the encoding.
LEMMA SaveHeld ==
    ASSUME NothingIsNoPlan, StoreHeld, SavePlan
    PROVE  FileHeld' /\ LoadHeld'
<1> DEFINE p == Persist(plan.plan)
<1>1. Store!SaveNew(p) /\ PlanShape(plan.plan)
  BY DEF SavePlan, StoreHeld, PlanHeld
<1>2. PlanShape(p) /\ p \notin {None, Torn}
  BY <1>1, Persisted
<1> HIDE DEF p
<1>3. file = None /\ owner' = p /\ file' = Stored(p, 0) /\ UNCHANGED <<reader, loaded>>
  BY <1>1 DEF Store!SaveNew, Store!CreateNew, Stored
<1>4. reader' = None
  BY <1>3 DEF StoreHeld, FileHeld
<1>5. file'.length = 0 /\ file' # None
  <2>1. 0 \in 0..3
    OBVIOUS
  <2>2. Stored(p, 0).length = 0 /\ Stored(p, 0) # None
    BY <2>1, StoredPrefix
  <2> QED BY <1>3, <2>2
<1> QED BY <1>2, <1>3, <1>4, <1>5 DEF StoreHeld, FileHeld, LoadHeld

LEMMA WriteHeld ==
    ASSUME NothingIsNoPlan, StoreHeld, Store!Write
    PROVE  FileHeld' /\ LoadHeld'
<1>1. file # None /\ UNCHANGED <<owner, reader, writing, loaded>>
  BY DEF Store!Write, StoreHeld, FileHeld
<1>2. PICK n \in (Cuts \cap (file.length + 1)..3) \cup {3} : file' = Stored(owner, n)
  BY StoredSize DEF Store!Write, Stored
<1>3. n \in 0..3 /\ file.length \in Nat /\ file.length <= n
  BY <1>1, <1>2 DEF StoreHeld, FileHeld
<1>4. file'.length = n /\ file' # None
  BY <1>2, <1>3, StoredPrefix
<1>5. reader # None => reader.length \in 0..n
  BY <1>1, <1>3 DEF StoreHeld, FileHeld
<1> QED BY <1>1, <1>2, <1>3, <1>4, <1>5 DEF StoreHeld, FileHeld, LoadHeld

LEMMA LossHeld ==
    ASSUME NothingIsNoPlan, StoreHeld, Store!PowerLoss
    PROVE  FileHeld' /\ LoadHeld'
<1>1. file # None /\ writing' = FALSE /\ reader' = None /\ loaded' = loaded
  BY DEF Store!PowerLoss
<1>2. CASE file' = None /\ owner' = None
  BY <1>1, <1>2 DEF StoreHeld, FileHeld, LoadHeld
<1>3. ASSUME NEW n \in (Cuts \cap 0..file.length) \cup {file.length},
             file' = Store!Cut(file.cells, n), owner' = owner
      PROVE  FileHeld' /\ LoadHeld'
  <2>1. file.length \in 0..3 /\ n \in 0..file.length /\ n \in 0..3 /\ file = Stored(owner, file.length)
    BY <1>1, <1>3 DEF StoreHeld, FileHeld
  <2>2. file' = Stored(owner, n)
    BY <1>3, <2>1, StoredCut
  <2>3. file'.length = n /\ file' # None
    BY <2>1, <2>2, StoredPrefix
  <2> QED BY <1>1, <1>3, <2>1, <2>2, <2>3 DEF StoreHeld, FileHeld, LoadHeld
<1> QED BY <1>2, <1>3 DEF Store!PowerLoss

LEMMA OpenHeld ==
    ASSUME NothingIsNoPlan, StoreHeld, Store!OpenFile
    PROVE  FileHeld' /\ LoadHeld'
<1>1. file # None /\ UNCHANGED <<owner, file, writing, loaded>>
  BY DEF Store!OpenFile
<1>2. PICK n \in (Cuts \cap 0..file.length) \cup {file.length} : reader' = Store!Cut(file.cells, n)
  BY DEF Store!OpenFile
<1>3. file.length \in 0..3 /\ n \in 0..file.length /\ n \in 0..3 /\ file = Stored(owner, file.length)
  BY <1>1, <1>2 DEF StoreHeld, FileHeld
<1>4. reader' = Stored(owner, n)
  BY <1>2, <1>3, StoredCut
<1>5. reader'.length = n
  BY <1>3, <1>4, StoredPrefix
<1> QED BY <1>1, <1>3, <1>4, <1>5 DEF StoreHeld, FileHeld, LoadHeld

\* A load that meets the end has read the whole of the file.
LEMMA ReadWhole ==
    ASSUME StoreHeld, Store!ReadToEnd
    PROVE  file # None /\ reader = file
<1>1. reader # None /\ reader.length = file.length
  BY DEF Store!ReadToEnd, Store!AtEnd
<1>2. file # None
  BY <1>1 DEF StoreHeld, FileHeld
<1> QED BY <1>1, <1>2 DEF StoreHeld, FileHeld

LEMMA ReadToEndHeld ==
    ASSUME NothingIsNoPlan, StoreHeld, Store!ReadToEnd
    PROVE  FileHeld' /\ LoadHeld'
<1>1. UNCHANGED <<owner, file, writing>> /\ reader' = None /\ loaded' = DecodePieces(file.cells)
  BY ReadWhole DEF Store!ReadToEnd
<1>2. PICK n \in 0..3 : n = file.length /\ file = Stored(owner, n) /\ PlanShape(owner)
  BY ReadWhole DEF StoreHeld, FileHeld
<1>3. DecodePieces(Stored(owner, n).cells) \in {owner, Torn}
  BY StoredPrefix
<1>4. loaded' \in {owner, Torn}
  BY <1>1, <1>2, <1>3
<1> QED BY <1>1, <1>2, <1>4 DEF StoreHeld, FileHeld, LoadHeld

LEMMA ReadMoreHeld ==
    ASSUME NothingIsNoPlan, StoreHeld, Store!ReadMore
    PROVE  FileHeld' /\ LoadHeld'
<1>1. /\ reader # None /\ file # None /\ UNCHANGED <<owner, file, writing, loaded>>
      /\ reader' = Store!Cut([i \in 1..file.length |->
                        IF i <= reader.length THEN reader.cells[i] ELSE file.cells[i]], file.length)
  BY DEF Store!ReadMore, StoreHeld, FileHeld
<1>2. /\ file.length \in 0..3 /\ file = Stored(owner, file.length)
      /\ reader.length \in 0..file.length /\ reader.length \in 0..3
      /\ reader = Stored(owner, reader.length)
  BY <1>1 DEF StoreHeld, FileHeld
<1>3. /\ file.cells = [i \in 1..file.length |-> EncodePieces(owner)[i]]
      /\ reader.cells = [i \in 1..reader.length |-> EncodePieces(owner)[i]]
  <2>1. \A n \in 0..3 : Stored(owner, n).cells = [i \in 1..n |-> EncodePieces(owner)[i]]
    BY StoredPrefix
  <2>2. PICK m \in 0..3, n \in 0..3 : m = file.length /\ n = reader.length
    BY <1>2
  <2> QED BY <1>2, <2>1, <2>2
<1> DEFINE joined == [i \in 1..file.length |->
                         IF i <= reader.length THEN reader.cells[i] ELSE file.cells[i]]
<1>4. \A i \in 1..file.length :
         (IF i <= reader.length THEN reader.cells[i] ELSE file.cells[i]) = EncodePieces(owner)[i]
  BY <1>2, <1>3
<1>5. joined = file.cells
  BY <1>3, <1>4
<1>6. reader' = Store!Cut(file.cells, file.length)
  BY <1>1, <1>5
<1>7. reader' = Stored(owner, file.length)
  BY <1>2, <1>6, StoredCut
<1>8. reader'.length = file.length
  BY <1>2, <1>7, StoredPrefix
<1> QED BY <1>1, <1>2, <1>7, <1>8 DEF StoreHeld, FileHeld, LoadHeld

\* The plan at hand and the one loaded are plans, and so is the file's.
LEMMA StoreStep == NothingIsNoPlan /\ LifeHeld /\ [LifecycleNext]_lifecycleVars => StoreHeld'
<1> SUFFICES ASSUME NothingIsNoPlan, StoreHeld, SessionHeld, [LifecycleNext]_lifecycleVars
             PROVE  StoreHeld'
  BY DEF LifeHeld
<1>1. CASE UNCHANGED <<plan, storeVars>>
  BY <1>1 DEF StoreHeld, PlanHeld, FileHeld, LoadHeld, storeVars
<1>2. ASSUME NEW user, Analyze(user) PROVE StoreHeld'
  <2>1. UNCHANGED storeVars /\ plan' = None
    BY <1>2 DEF Analyze
  <2> QED BY <2>1 DEF StoreHeld, PlanHeld, FileHeld, LoadHeld, storeVars
<1>3. CASE CreatePlan
  <2>1. UNCHANGED storeVars
    BY <1>3 DEF CreatePlan
  <2>2. PlanShape(plan'.plan)
    <3>1. session.user \in Users /\ Analyzed(session.ctx)
      BY <1>3 DEF CreatePlan, SessionHeld
    <3>2. /\ Plan(session.user, session.ctx, result).ok
          /\ plan'.plan = Plan(session.user, session.ctx, result).value
      BY <1>3 DEF CreatePlan
    <3> QED BY <3>1, <3>2, CreatedShape
  <2> QED BY <2>1, <2>2 DEF StoreHeld, PlanHeld, FileHeld, LoadHeld, storeVars
<1>4. CASE SavePlan
  BY <1>4, SaveHeld DEF SavePlan, lvars, StoreHeld, PlanHeld
<1>5. CASE FileSteps
  <2>1. PlanHeld'
    BY <1>5 DEF FileSteps, lvars, StoreHeld, PlanHeld
  <2>2. CASE Store!SaveEnds
    BY <2>1, <2>2 DEF Store!SaveEnds, StoreHeld, FileHeld, LoadHeld
  <2>3. CASE Store!ReadFails
    BY <2>1, <2>3 DEF Store!ReadFails, StoreHeld, FileHeld, LoadHeld
  <2> QED BY <1>5, <2>1, <2>2, <2>3, WriteHeld, LossHeld, OpenHeld, ReadToEndHeld, ReadMoreHeld
          DEF FileSteps, StoreHeld
<1>6. CASE OpenPlan
  <2>1. UNCHANGED <<owner, file, writing, reader>> /\ loaded' = None /\ PlanShape(loaded)
    BY <1>6 DEF OpenPlan, StoreHeld, LoadHeld
  <2>2. PlanShape(plan'.plan)
    BY <1>6, <2>1, LoadedShape DEF OpenPlan
  <2> QED BY <2>1, <2>2 DEF StoreHeld, PlanHeld, FileHeld, LoadHeld
<1>7. ChangeEnvironment \/ Calibrate \/ Calibrating \/ Calibrated \/ Activate
        => UNCHANGED <<plan, storeVars>>
  BY DEF ChangeEnvironment, Calibrate, Calibrating, Calibrated, Activate
<1> QED BY <1>1, <1>2, <1>3, <1>4, <1>5, <1>6, <1>7 DEF LifecycleNext, lifecycleVars, lvars

\* What a session analysed is an environment for a user's budget.
LEMMA SessionStep == NothingIsNoPlan /\ LifeHeld /\ [LifecycleNext]_lifecycleVars => SessionHeld'
<1> SUFFICES ASSUME NothingIsNoPlan, LoadHeld, SessionHeld, [LifecycleNext]_lifecycleVars
             PROVE  SessionHeld'
  BY DEF LifeHeld, StoreHeld
<1>1. CASE UNCHANGED <<env, session, plan>>
  BY <1>1 DEF SessionHeld, Analyzed, Context
<1>2. CASE ChangeEnvironment
  <2>1. env' \in Environments /\ UNCHANGED <<session, plan>>
    BY <1>2 DEF ChangeEnvironment
  <2> QED BY <2>1 DEF SessionHeld, Analyzed, Context
<1>3. ASSUME NEW user \in Users, Analyze(user) PROVE SessionHeld'
  <2>1. /\ env' = env /\ plan' = None
        /\ session'.ctx = Context(env, user.ram) /\ session'.user = user
    BY <1>3 DEF Analyze
  <2>2. Analyzed(session'.ctx)
    BY <2>1 DEF Analyzed, Budgets, SessionHeld
  <2> QED BY <2>1, <2>2 DEF SessionHeld
<1>4. CASE CreatePlan
  <2>1. plan = None /\ session # None /\ UNCHANGED <<env, session>>
    BY <1>4 DEF CreatePlan
  <2>2. Analyzed(session'.ctx) /\ session'.user \in Users
    BY <2>1 DEF SessionHeld
  <2> QED BY <2>1, <2>2 DEF SessionHeld
<1>5. CASE OpenPlan
  <2> DEFINE ctx == Context(env, loaded.ram)
  <2>0. env' = env /\ session' = [user |-> None, ctx |-> ctx]
          /\ plan' = [plan |-> Materialize(loaded, ctx), origin |-> "loaded"]
    BY <1>5 DEF OpenPlan
  <2>1. session'.ctx = Context(env, loaded.ram)
    BY <2>0
  <2>2. IsFunction(plan')
    BY <2>0 DEF IsFunction
  <2>3. plan' # None
    BY <2>2 DEF NothingIsNoPlan
  <2>4. loaded.ram \in Budgets
    BY <1>5 DEF OpenPlan, LoadHeld, PlanShape
  <2>5. Analyzed(session'.ctx)
    BY <2>1, <2>4 DEF Analyzed, SessionHeld
  <2> QED BY <2>0, <2>3, <2>5 DEF SessionHeld
<1>6. Calibrate \/ Calibrating \/ Calibrated \/ Activate \/ SavePlan \/ FileSteps
        => UNCHANGED <<env, session, plan>>
  BY DEF Calibrate, Calibrating, Calibrated, Activate, SavePlan, FileSteps, lvars
<1> QED BY <1>1, <1>2, <1>3, <1>4, <1>5, <1>6 DEF LifecycleNext, lifecycleVars, lvars

LEMMA LifeStep == NothingIsNoPlan /\ LifeHeld /\ [LifecycleNext]_lifecycleVars => LifeHeld'
  BY StoreStep, SessionStep DEF LifeHeld

LEMMA LifeInit == LifecycleInit => LifeHeld
  BY DEF LifecycleInit, Store!StoreInit, LifeHeld, SessionHeld, StoreHeld, PlanHeld, FileHeld, LoadHeld

-----------------------------------------------------------------------------
\* What a load of the file would find.
LEMMA HeldContent ==
    ASSUME NothingIsNoPlan, StoreHeld
    PROVE  /\ file = None => Store!Content = None
           /\ file # None => /\ owner \notin {None, Torn}
                             /\ Store!Content = IF file.length = 3 THEN owner ELSE Torn
<1>1. CASE file = None
  BY <1>1 DEF Store!Content
<1>2. CASE file # None
  <2>1. PICK n \in 0..3 : n = file.length /\ file = Stored(owner, n) /\ owner \notin {None, Torn}
    BY <1>2 DEF StoreHeld, FileHeld
  <2>2. DecodePieces(Stored(owner, n).cells) = IF n = 3 THEN owner ELSE Torn
    BY StoredPrefix
  <2> QED BY <1>2, <2>1, <2>2 DEF Store!Content
<1> QED BY <1>1, <1>2

\* Every step is one of PlanFile or changes nothing of it.
LEMMA FileStep ==
    ASSUME NothingIsNoPlan, StoreHeld, StoreHeld', [LifecycleNext]_lifecycleVars
    PROVE  [Store!File!FileNext]_(Store!File!fvars)
<1>1. CASE UNCHANGED <<file, owner, loaded>>
  BY <1>1 DEF Store!File!fvars, Store!Content
<1>2. CASE SavePlan
  <2>1. file = None /\ owner' = Persist(plan.plan) /\ file' = Stored(owner', 0) /\ loaded' = loaded
    BY <1>2 DEF SavePlan, Store!SaveNew, Store!CreateNew, Stored
  <2>2. owner = None /\ Store!Content = None
    BY <2>1 DEF StoreHeld, FileHeld, Store!Content
  <2>3. file' # None /\ file'.length = 0 /\ DecodePieces(file'.cells) = Torn
    <3>1. 0 \in 0..3
      OBVIOUS
    <3>2. ASSUME NEW p
          PROVE  /\ Stored(p, 0) # None /\ Stored(p, 0).length = 0
                 /\ DecodePieces(Stored(p, 0).cells) = Torn
      <4>1. /\ Stored(p, 0) # None /\ Stored(p, 0).length = 0
            /\ DecodePieces(Stored(p, 0).cells) = IF 0 = 3 THEN p ELSE Torn
        BY <3>1, StoredPrefix
      <4> QED BY <4>1
    <3> QED BY <2>1, <3>2
  <2>4. Store!Content' = Torn /\ owner' \notin {None, Torn}
    BY <2>3 DEF Store!Content, StoreHeld, FileHeld
  <2> QED BY <2>1, <2>2, <2>4 DEF Store!File!FileNext, Store!File!Take
<1>3. CASE Store!Write
  <2>1. file # None /\ file' # None /\ owner' = owner /\ loaded' = loaded
    <3>1. writing /\ owner' = owner /\ loaded' = loaded /\ file # None
      BY <1>3 DEF Store!Write, StoreHeld, FileHeld
    <3>2. owner' # None
      BY <3>1 DEF StoreHeld, FileHeld
    <3> QED BY <3>1, <3>2 DEF StoreHeld, FileHeld
  <2>2. PICK n \in (Cuts \cap (file.length + 1)..3) \cup {3} : file' = Stored(owner, n)
    BY <1>3, StoredSize DEF Store!Write, Stored
  <2>3. n \in 0..3 /\ file.length \in 0..3 /\ (file.length = 3 => n = 3)
    BY <2>1, <2>2 DEF StoreHeld, FileHeld
  <2>4. Store!Content' = IF n = 3 THEN owner ELSE Torn
    <3>1. DecodePieces(Stored(owner, n).cells) = IF n = 3 THEN owner ELSE Torn
      BY <2>3, StoredPrefix
    <3> QED BY <2>1, <2>2, <3>1 DEF Store!Content
  <2>5. owner \notin {None, Torn} /\ Store!Content = IF file.length = 3 THEN owner ELSE Torn
    BY <2>1, HeldContent
  <2> QED BY <2>1, <2>3, <2>4, <2>5
          DEF Store!File!FileNext, Store!File!Complete, Store!File!fvars
<1>4. CASE Store!SaveEnds
  BY <1>4 DEF Store!SaveEnds, Store!File!fvars, Store!Content
<1>5. CASE Store!PowerLoss
  <2>1. file # None /\ loaded' = loaded
    BY <1>5 DEF Store!PowerLoss
  <2>2. owner \notin {None, Torn} /\ Store!Content = IF file.length = 3 THEN owner ELSE Torn
    BY <2>1, HeldContent
  <2>3. CASE file' = None /\ owner' = None
    BY <2>1, <2>2, <2>3 DEF Store!File!FileNext, Store!File!Lose, Store!Content
  <2>4. ASSUME NEW n \in (Cuts \cap 0..file.length) \cup {file.length},
               file' = Store!Cut(file.cells, n), owner' = owner
        PROVE  [Store!File!FileNext]_(Store!File!fvars)
    <3>1. /\ file.length \in 0..3 /\ n \in 0..file.length /\ n \in 0..3
          /\ file = Stored(owner, file.length)
      BY <2>1, <2>4 DEF StoreHeld, FileHeld
    <3>2. file' = Stored(owner, n)
      BY <2>4, <3>1, StoredCut
    <3>3. file' # None /\ DecodePieces(Stored(owner, n).cells) = IF n = 3 THEN owner ELSE Torn
      BY <3>1, <3>2, StoredPrefix
    <3>4. Store!Content' = IF n = 3 THEN owner ELSE Torn
      BY <3>2, <3>3 DEF Store!Content
    <3>5. CASE n = 3
      <4>1. file.length = 3
        BY <3>1, <3>5
      <4> QED BY <2>1, <2>2, <2>4, <3>4, <3>5, <4>1 DEF Store!File!fvars
    <3>6. CASE n # 3
      BY <2>1, <2>2, <2>4, <3>4, <3>6 DEF Store!File!FileNext, Store!File!Lose
    <3> QED BY <3>5, <3>6
  <2> QED BY <1>5, <2>3, <2>4 DEF Store!PowerLoss
<1>6. CASE Store!OpenFile
  BY <1>6 DEF Store!OpenFile, Store!File!fvars, Store!Content
<1>7. CASE Store!ReadToEnd
  <2>1. file # None /\ loaded' = DecodePieces(file.cells) /\ UNCHANGED <<owner, file>>
    BY <1>7, ReadWhole DEF Store!ReadToEnd
  <2>2. loaded' = Store!Content /\ Store!Content' = Store!Content
    BY <2>1 DEF Store!Content
  <2> QED BY <2>1, <2>2 DEF Store!File!FileNext, Store!File!Load
<1>8. CASE Store!ReadMore
  BY <1>8 DEF Store!ReadMore, Store!File!fvars, Store!Content
<1>9. CASE Store!ReadFails
  BY <1>9 DEF Store!ReadFails, Store!File!FileNext, Store!File!Load, Store!Content
<1>10. CASE OpenPlan
  BY <1>10 DEF OpenPlan, Store!File!FileNext, Store!File!Load, Store!Content
<1>11. ChangeEnvironment \/ (\E user \in Users : Analyze(user)) \/ Calibrate \/ Calibrating
         \/ Calibrated \/ CreatePlan \/ Activate
         => UNCHANGED <<file, owner, loaded>>
  BY DEF ChangeEnvironment, Analyze, Calibrate, Calibrating, Calibrated, CreatePlan, Activate, storeVars
<1> QED BY <1>1, <1>2, <1>3, <1>4, <1>5, <1>6, <1>7, <1>8, <1>9, <1>10, <1>11
        DEF LifecycleNext, FileSteps, lifecycleVars, storeVars

\* A load in the life of a plan returns what was saved or fails, whatever is
\* analysed, calibrated and planned meanwhile (save_new, load).
THEOREM FileRefinedTheorem == NothingIsNoPlan => (LifecycleSpec => FileRefined)
<1> SUFFICES ASSUME NothingIsNoPlan PROVE LifecycleSpec => FileRefined
  OBVIOUS
<1>1. LifecycleInit => Store!File!FileInit
  BY DEF LifecycleInit, Store!StoreInit, Store!File!FileInit, Store!Content
<1>2. LifeHeld /\ [LifecycleNext]_lifecycleVars => LifeHeld'
  BY LifeStep
<1>3. LifeHeld /\ LifeHeld' /\ [LifecycleNext]_lifecycleVars
        => [Store!File!FileNext]_(Store!File!fvars)
  BY FileStep DEF LifeHeld
<1> QED BY <1>1, <1>2, <1>3, LifeInit, PTL
        DEF LifecycleSpec, FileRefined, Store!BehavesAsPlanFile, Store!File!FileSpec

-----------------------------------------------------------------------------
(* The life of a plan: what is said of a loaded one.                       *)

\* What a calibration is that nothing is said against, for a plan loaded in a
\* context.
Fits(s, ctx, c) ==
    /\ c # None /\ CalibrationValid(c) /\ s.calibration = c.id
    /\ c.machine = ctx.machine.id /\ c.model = ctx.model.id /\ c.storage = ctx.storage.id
    /\ \A id \in s.observations : \E i \in DOMAIN c.observations :
          c.observations[i].id = id /\ c.observations[i].status = "Measured"

LEMMA NoMismatchFits ==
    ASSUME NEW s, NEW ctx, NEW c, CalibrationMismatch(s, ctx, c) = None
    PROVE  Fits(s, ctx, c)
<1> DEFINE checks ==
             << <<~CalibrationValid(c), "CalibrationInvalid">>,
                <<s.machine # ctx.machine.id, "CalibrationSourceMachineChanged">>,
                <<s.storage # ctx.storage.id, "CalibrationSourceStorageChanged">>,
                <<s.calibration # c.id, "CalibrationProvenanceMismatch">>,
                <<c.machine # ctx.machine.id \/ c.model # ctx.model.id \/ c.storage # ctx.storage.id,
                  "CalibrationBindingMismatch">>,
                <<\E id \in s.observations :
                     ~\E i \in DOMAIN c.observations :
                         c.observations[i].id = id /\ c.observations[i].status = "Measured",
                  "CalibrationObservationUnavailable">> >>
<1>1. c # None /\ FirstError(checks) = None
  <2>1. CalibrationMismatch(s, ctx, c) =
          IF c = None THEN "CalibrationMissing" ELSE FirstError(checks)
    BY DEF CalibrationMismatch
  <2> HIDE DEF checks
  <2> QED BY <2>1, MismatchAssumption
<1>2. checks = [i \in 1..6 |-> checks[i]] /\ DOMAIN checks = 1..6
  OBVIOUS
<1>3. /\ checks[1][2] = "CalibrationInvalid" /\ checks[2][2] = "CalibrationSourceMachineChanged"
      /\ checks[3][2] = "CalibrationSourceStorageChanged"
      /\ checks[4][2] = "CalibrationProvenanceMismatch"
      /\ checks[5][2] = "CalibrationBindingMismatch"
      /\ checks[6][2] = "CalibrationObservationUnavailable"
  OBVIOUS
<1>4. /\ checks[1][1] = (~CalibrationValid(c)) /\ checks[4][1] = (s.calibration # c.id)
      /\ checks[5][1] =
            (c.machine # ctx.machine.id \/ c.model # ctx.model.id \/ c.storage # ctx.storage.id)
      /\ checks[6][1] =
            (\E id \in s.observations :
                ~\E i \in DOMAIN c.observations :
                    c.observations[i].id = id /\ c.observations[i].status = "Measured")
  OBVIOUS
<1> HIDE DEF checks
<1>5. \A i \in 1..6 : checks[i][2] # None
  <2> TAKE i \in 1..6
  <2>1. i = 1 \/ i = 2 \/ i = 3 \/ i = 4 \/ i = 5 \/ i = 6
    OBVIOUS
  <2> QED BY <1>3, <2>1, MismatchAssumption
<1>6. NoneFails(checks)
  BY <1>1, <1>2, <1>5, ListOfChecks, NoErrorNoneFails
<1>7. ~checks[1][1] /\ ~checks[4][1] /\ ~checks[5][1] /\ ~checks[6][1]
  BY <1>2, <1>6 DEF NoneFails
<1> QED BY <1>1, <1>4, <1>7 DEF Fits

\* A measured observation of a valid calibration has a value.
LEMMA FitsMeasured ==
    ASSUME NEW s, NEW ctx, NEW c, Fits(s, ctx, c), NEW id \in s.observations
    PROVE  \E i \in DOMAIN c.observations :
              c.observations[i].id = id /\ c.observations[i].value # None
  BY DEF Fits, CalibrationValid, ObservationValid

-----------------------------------------------------------------------------
\* The identifier of a result names the machine, storage and model measured.
NamesItsPlan(c) == c.id.machine = c.machine /\ c.id.storage = c.storage /\ c.id.model = c.model

ResultHeld == result # None => NamesItsPlan(result)

LEMMA ResultStep == ResultHeld /\ [LifecycleNext]_lifecycleVars => ResultHeld'
<1> SUFFICES ASSUME ResultHeld, [LifecycleNext]_lifecycleVars PROVE ResultHeld'
  OBVIOUS
<1>1. CASE UNCHANGED result
  BY <1>1 DEF ResultHeld, NamesItsPlan
<1>2. CASE Calibrate
  BY <1>2 DEF Calibrate, ResultHeld
<1>3. CASE Calibrated
  <2>1. NamesItsPlan(CalibrationResult)
    BY DEF NamesItsPlan, CalibrationResult, Identifier
  <2>2. result' \in {CalibrationResult, None}
    BY <1>3 DEF Calibrated
  <2> QED BY <2>1, <2>2 DEF ResultHeld
<1>4. ASSUME NEW user, Analyze(user) PROVE UNCHANGED result
  BY <1>4 DEF Analyze
<1>5. ChangeEnvironment \/ Calibrating \/ CreatePlan \/ Activate \/ SavePlan \/ FileSteps \/ OpenPlan
        => UNCHANGED result
  BY DEF ChangeEnvironment, Calibrating, CreatePlan, Activate, SavePlan, FileSteps, OpenPlan, lvars
<1> QED BY <1>1, <1>2, <1>3, <1>4, <1>5 DEF LifecycleNext, lifecycleVars, lvars

\* The report is what was said, in the session's context, of the loaded plan
\* the plan at hand was made from.
ReportHeld ==
    report # None =>
        /\ plan # None
        /\ \E s : /\ PlanShape(s) /\ plan.plan = Materialize(s, session.ctx)
                  /\ report.state = CompatibilityReport(s, session.ctx, report.calibration)
        /\ report.calibration # None => NamesItsPlan(report.calibration)

LEMMA ReportStep ==
    NothingIsNoPlan /\ StoreHeld /\ ResultHeld /\ ReportHeld /\ [LifecycleNext]_lifecycleVars
        => ReportHeld'
<1> SUFFICES ASSUME NothingIsNoPlan, StoreHeld, ResultHeld, ReportHeld, [LifecycleNext]_lifecycleVars
             PROVE  ReportHeld'
  OBVIOUS
<1>1. CASE UNCHANGED <<session, plan, report>>
  BY <1>1 DEF ReportHeld
<1>2. ASSUME NEW user, Analyze(user) PROVE ReportHeld'
  BY <1>2 DEF Analyze, ReportHeld
<1>3. CASE CreatePlan
  <2>1. plan = None /\ report' = report
    BY <1>3 DEF CreatePlan
  <2> QED BY <2>1 DEF ReportHeld
<1>4. CASE OpenPlan
  <2>1. PICK calibration \in {None, result} :
          LET ctx == Context(env, loaded.ram)
          IN  /\ report' = [state |-> CompatibilityReport(loaded, ctx, calibration),
                            calibration |-> calibration]
              /\ session' = [user |-> None, ctx |-> ctx]
              /\ plan' = [plan |-> Materialize(loaded, ctx), origin |-> "loaded"]
    BY <1>4 DEF OpenPlan
  <2>2. PlanShape(loaded)
    BY <1>4 DEF OpenPlan, StoreHeld, LoadHeld
  <2>3. IsFunction(plan')
    BY <2>1 DEF IsFunction
  <2>4. plan' # None
    BY <2>3 DEF NothingIsNoPlan
  <2>5. /\ plan'.plan = Materialize(loaded, session'.ctx)
        /\ report'.state = CompatibilityReport(loaded, session'.ctx, report'.calibration)
    BY <2>1
  <2>6. report'.calibration # None => NamesItsPlan(report'.calibration)
    BY <2>1 DEF ResultHeld
  <2>7. (report.calibration # None => NamesItsPlan(report.calibration))'
    BY <2>6 DEF NamesItsPlan
  <2> QED BY <2>2, <2>4, <2>5, <2>7 DEF ReportHeld
<1>5. ChangeEnvironment \/ Calibrate \/ Calibrating \/ Calibrated \/ Activate \/ SavePlan \/ FileSteps
        => UNCHANGED <<session, plan, report>>
  BY DEF ChangeEnvironment, Calibrate, Calibrating, Calibrated, Activate, SavePlan, FileSteps, lvars
<1> QED BY <1>1, <1>2, <1>3, <1>4, <1>5 DEF LifecycleNext, lifecycleVars, lvars

LEMMA ReportMeans == ReportHeld => ValidMeansCalibratedHere
<1> SUFFICES ASSUME ReportHeld, report # None, report.state = "Valid",
                    plan.plan.reason = "ObservationsApplied"
             PROVE  LET p == plan.plan
                        c == report.calibration
                    IN  /\ p.calibration.machine = session.ctx.machine.id
                        /\ p.calibration.storage = session.ctx.storage.id
                        /\ p.calibration.model = p.model
                        /\ c # None /\ c.id = p.calibration
                        /\ \A id \in p.observations : \E i \in DOMAIN c.observations :
                              c.observations[i].id = id /\ c.observations[i].value # None
  BY DEF ValidMeansCalibratedHere
<1>1. PICK s : /\ PlanShape(s) /\ plan.plan = Materialize(s, session.ctx)
               /\ report.state = CompatibilityReport(s, session.ctx, report.calibration)
  BY DEF ReportHeld
<1> DEFINE p == plan.plan
           c == report.calibration
           ctx == session.ctx
<1>2. /\ p.reason = s.reason /\ p.calibration = s.calibration
      /\ p.observations = s.observations /\ p.model = s.model
  BY <1>1 DEF PlanShape, Materialize
<1>3. RecalibrationReason(s, ctx, c) = None /\ s.model = ctx.model.id
  BY <1>1 DEF CompatibilityReport
<1>4. RecalibrationReason(s, ctx, c) = CalibrationMismatch(s, ctx, c)
  BY <1>2 DEF RecalibrationReason
<1>5. Fits(s, ctx, c)
  BY <1>3, <1>4, NoMismatchFits
<1>6. \A id \in s.observations : \E i \in DOMAIN c.observations :
         c.observations[i].id = id /\ c.observations[i].value # None
  BY <1>5, FitsMeasured
<1>7. c # None => NamesItsPlan(c)
  BY DEF ReportHeld
<1> HIDE DEF p, c, ctx
<1>8. /\ c # None /\ c.id = p.calibration /\ c.machine = ctx.machine.id
      /\ c.storage = ctx.storage.id /\ c.model = p.model
  BY <1>2, <1>3, <1>5 DEF Fits
<1>9. /\ p.calibration.machine = ctx.machine.id /\ p.calibration.storage = ctx.storage.id
      /\ p.calibration.model = p.model
  BY <1>7, <1>8 DEF NamesItsPlan
<1> QED BY <1>2, <1>6, <1>8, <1>9 DEF p, c, ctx

\* A plan that is called valid has costs measured here, and the calibration at
\* hand measures the same, through every save, load, analysis and calibration
\* (compatibility_report, calibration_mismatch_reason).
THEOREM ValidMeansTheorem == NothingIsNoPlan => (LifecycleSpec => []ValidMeansCalibratedHere)
<1> SUFFICES ASSUME NothingIsNoPlan PROVE LifecycleSpec => []ValidMeansCalibratedHere
  OBVIOUS
<1>1. LifecycleInit => ReportHeld
  BY DEF LifecycleInit, ReportHeld
<1>2. LifeHeld /\ [LifecycleNext]_lifecycleVars => LifeHeld'
  BY LifeStep
<1>3. LifeHeld /\ ResultHeld /\ ReportHeld /\ [LifecycleNext]_lifecycleVars => ReportHeld'
  BY ReportStep DEF LifeHeld
<1>4. LifecycleInit => ResultHeld
  BY DEF LifecycleInit, ResultHeld
<1> QED BY <1>1, <1>2, <1>3, <1>4, LifeInit, ResultStep, ReportMeans, PTL DEF LifecycleSpec

-----------------------------------------------------------------------------
(* The life of a plan: what it is compiled to.                             *)

\* The checks of a plan by itself.
LEMMA DecisionChecked ==
    ASSUME NEW p
    PROVE  Checks(DecisionInconsistencies(p))
<1> DEFINE list == DecisionInconsistencies(p)
<1>1. list = [i \in 1..6 |-> list[i]] /\ DOMAIN list = 1..6
  BY DEF DecisionInconsistencies
<1>2. /\ list[1][2] = "ZeroThreadCount" /\ list[2][2] = "ZeroRamBudget"
      /\ list[3][2] = "LayerCacheStateInconsistent" /\ list[4][2] = "InconsistentGpuDecision"
      /\ list[5][2] = "InconsistentGpuDecision" /\ list[6][2] = "UnsupportedGpuExecution"
  BY DEF DecisionInconsistencies
<1> HIDE DEF list
<1>3. \A i \in 1..6 : list[i][2] # None
  <2> TAKE i \in 1..6
  <2>1. i = 1 \/ i = 2 \/ i = 3 \/ i = 4 \/ i = 5 \/ i = 6
    OBVIOUS
  <2> QED BY <1>2, <2>1, CompileErrorsAssumption
<1>4. Checks(list)
  BY <1>1, <1>3, ListOfChecks
<1> QED BY <1>4 DEF list

\* The checks of what a plan was made for.
LEMMA BindingChecked ==
    ASSUME NEW p, NEW ctx
    PROVE  Checks(BindingMismatches(p, ctx))
<1> DEFINE list == BindingMismatches(p, ctx)
<1>1. list = [i \in 1..4 |-> list[i]] /\ DOMAIN list = 1..4
  BY DEF BindingMismatches
<1>2. /\ list[1][2] = "machine fingerprint" /\ list[2][2] = "model descriptor fingerprint"
      /\ list[3][2] = "storage fingerprint" /\ list[4][2] = "model path"
  BY DEF BindingMismatches
<1> HIDE DEF list
<1>3. \A i \in 1..4 : list[i][2] # None
  <2> TAKE i \in 1..4
  <2>1. i = 1 \/ i = 2 \/ i = 3 \/ i = 4
    OBVIOUS
  <2> QED BY <1>2, <2>1, CompileErrorsAssumption
<1>4. Checks(list)
  BY <1>1, <1>3, ListOfChecks
<1> QED BY <1>4 DEF list

\* The analysis is for the budget of the plan, and the model can be executed.
LEMMA StaticChecked ==
    ASSUME NEW p, NEW ctx
    PROVE  /\ Checks(StaticPlanMismatches(p, ctx))
           /\ NoneFails(StaticPlanMismatches(p, ctx)) => ctx.static.ram = p.ram /\ ctx.static.memory # None
<1> DEFINE list == StaticPlanMismatches(p, ctx)
<1>1. list = [i \in 1..4 |-> list[i]] /\ DOMAIN list = 1..4
  BY DEF StaticPlanMismatches
<1>2. /\ list[1][2] = "RAM budget" /\ list[2][2] = "model file size"
      /\ list[3][2] = "storage/model file size" /\ list[4][2] = "ExecutionPreflightUnavailable"
  BY DEF StaticPlanMismatches
<1>3. /\ list[1][1] = (ctx.static.ram # p.ram)
      /\ list[4][1] = (ctx.static.memory = None)
  BY DEF StaticPlanMismatches
<1> HIDE DEF list
<1>4. \A i \in 1..4 : list[i][2] # None
  <2> TAKE i \in 1..4
  <2>1. i = 1 \/ i = 2 \/ i = 3 \/ i = 4
    OBVIOUS
  <2> QED BY <1>2, <2>1, CompileErrorsAssumption
<1>5. Checks(list)
  BY <1>1, <1>4, ListOfChecks
<1>6. NoneFails(list) => ~list[1][1] /\ ~list[4][1]
  BY <1>1 DEF NoneFails
<1> QED BY <1>3, <1>5, <1>6 DEF list

\* The machine has the threads and the free RAM.
LEMMA ResourceChecked ==
    ASSUME NEW p, NEW ctx, NEW caps
    PROVE  /\ Checks(ResourceErrors(p, ctx, caps))
           /\ NoneFails(ResourceErrors(p, ctx, caps)) =>
                 /\ ~(p.threads > ctx.machine.cores)
                 /\ ctx.machine.available # None /\ ~(p.ram > ctx.machine.available)
<1> DEFINE list == ResourceErrors(p, ctx, caps)
<1>1. list = [i \in 1..8 |-> list[i]] /\ DOMAIN list = 1..8
  BY DEF ResourceErrors
<1>2. /\ list[1][2] = "ThreadCountExceedsLimit" /\ list[2][2] = "machine RAM is unavailable"
      /\ list[3][2] = "RamBudgetExceedsTotalRam"
      /\ list[4][2] = "available RAM at planning exceeds total RAM"
      /\ list[5][2] = "RamBudgetExceedsAvailableRam" /\ list[6][2] = "StorageUnavailable"
      /\ list[7][2] = "CpuExecutionUnavailable" /\ list[8][2] = "ModelExecutionUnavailable"
  BY DEF ResourceErrors
<1>3. /\ list[1][1] = (p.threads > ctx.machine.cores)
      /\ list[2][1] = (ctx.machine.total = None \/ ctx.machine.available = None)
      /\ list[5][1] = (ctx.machine.available # None /\ p.ram > ctx.machine.available)
  BY DEF ResourceErrors
<1> HIDE DEF list
<1>4. \A i \in 1..8 : list[i][2] # None
  <2> TAKE i \in 1..8
  <2>1. i = 1 \/ i = 2 \/ i = 3 \/ i = 4 \/ i = 5 \/ i = 6 \/ i = 7 \/ i = 8
    OBVIOUS
  <2> QED BY <1>2, <2>1, CompileErrorsAssumption
<1>5. Checks(list)
  BY <1>1, <1>4, ListOfChecks
<1>6. NoneFails(list) => ~list[1][1] /\ ~list[2][1] /\ ~list[5][1]
  BY <1>1 DEF NoneFails
<1> QED BY <1>3, <1>5, <1>6 DEF list

\* The budget holds what the model needs at least and the room for the cache.
LEMMA ReservationChecked ==
    ASSUME NEW p, NEW memory
    PROVE  /\ Checks(ReservationErrors(p, memory))
           /\ NoneFails(ReservationErrors(p, memory)) =>
                 /\ ~(memory.bound > p.ram) /\ p.bound = memory.bound
                 /\ memory.cache = p.ram - p.bound
<1> DEFINE list == ReservationErrors(p, memory)
<1>1. list = [i \in 1..8 |-> list[i]] /\ DOMAIN list = 1..8
  BY DEF ReservationErrors
<1>2. /\ list[1][2] = "ManagedMemoryLowerBoundExceedsBudget"
      /\ list[2][2] = "available RAM at planning" /\ list[3][2] = "persistent resident bytes"
      /\ list[4][2] = "persistent startup peak bytes"
      /\ list[5][2] = "largest layer load peak bytes"
      /\ list[6][2] = "managed-memory lower bound"
      /\ list[7][2] = "remaining budget after lower bound"
      /\ list[8][2] = "layer-cache capacity/lower-bound relationship"
  BY DEF ReservationErrors
<1>3. /\ list[1][1] = (~memory.fits \/ memory.bound > p.ram)
      /\ list[6][1] = (p.bound # memory.bound)
      /\ list[8][1] = (memory.cache # p.ram - p.bound)
  BY DEF ReservationErrors
<1> HIDE DEF list
<1>4. \A i \in 1..8 : list[i][2] # None
  <2> TAKE i \in 1..8
  <2>1. i = 1 \/ i = 2 \/ i = 3 \/ i = 4 \/ i = 5 \/ i = 6 \/ i = 7 \/ i = 8
    OBVIOUS
  <2> QED BY <1>2, <2>1, CompileErrorsAssumption
<1>5. Checks(list)
  BY <1>1, <1>4, ListOfChecks
<1>6. NoneFails(list) => ~list[1][1] /\ ~list[6][1] /\ ~list[8][1]
  BY <1>1 DEF NoneFails
<1> QED BY <1>3, <1>5, <1>6 DEF list

\* The cache fits that room, and a layer the cache.
LEMMA CacheChecked ==
    ASSUME NEW p, NEW caps, NEW memory
    PROVE  /\ Checks(CacheErrors(p, caps, memory))
           /\ NoneFails(CacheErrors(p, caps, memory)) =>
                 (p.cache_enabled =>
                     /\ caps.cache /\ ~(p.cache_capacity > memory.cache)
                     /\ ~(p.cache_capacity < memory.min_layer))
<1> DEFINE list == CacheErrors(p, caps, memory)
<1>1. list = [i \in 1..3 |-> list[i]] /\ DOMAIN list = 1..3
  BY DEF CacheErrors
<1>2. /\ list[1][2] = "LayerCacheUnavailable" /\ list[2][2] = "LayerCacheCapacityExceedsLimit"
      /\ list[3][2] = "LayerCacheCapacityCannotFitLayer"
  BY DEF CacheErrors
<1>3. /\ list[1][1] = (p.cache_enabled /\ ~caps.cache)
      /\ list[2][1] = (p.cache_enabled /\ p.cache_capacity > memory.cache)
      /\ list[3][1] = (p.cache_enabled /\ p.cache_capacity < memory.min_layer)
  BY DEF CacheErrors
<1> HIDE DEF list
<1>4. \A i \in 1..3 : list[i][2] # None
  <2> TAKE i \in 1..3
  <2>1. i = 1 \/ i = 2 \/ i = 3
    OBVIOUS
  <2> QED BY <1>2, <2>1, CompileErrorsAssumption
<1>5. Checks(list)
  BY <1>1, <1>4, ListOfChecks
<1>6. NoneFails(list) => ~list[1][1] /\ ~list[2][1] /\ ~list[3][1]
  BY <1>1 DEF NoneFails
<1> QED BY <1>3, <1>5, <1>6 DEF list

\* The checks of how reads are made.
LEMMA IoChecked ==
    ASSUME NEW p, NEW caps
    PROVE  Checks(IoErrors(p, caps))
<1> DEFINE list == IoErrors(p, caps)
<1>1. list = [i \in 1..2 |-> list[i]] /\ DOMAIN list = 1..2
  BY DEF IoErrors
<1>2. /\ list[1][2] = "ReadCoalescingUnavailable"
      /\ list[2][2] = "GroupedReadBufferReuseUnavailable"
  BY DEF IoErrors
<1> HIDE DEF list
<1>3. \A i \in 1..2 : list[i][2] # None
  <2> TAKE i \in 1..2
  <2>1. i = 1 \/ i = 2
    OBVIOUS
  <2> QED BY <1>2, <2>1, CompileErrorsAssumption
<1>4. Checks(list)
  BY <1>1, <1>3, ListOfChecks
<1> QED BY <1>4 DEF list

\* A cache that is disabled has no room.
LEMMA ConfigChecked ==
    ASSUME NEW c
    PROVE  /\ Checks(RuntimeConfigErrors(c))
           /\ NoneFails(RuntimeConfigErrors(c)) =>
                 (~c.cache_enabled => c.cache_capacity = 0)
<1> DEFINE list == RuntimeConfigErrors(c)
<1>1. list = [i \in 1..5 |-> list[i]] /\ DOMAIN list = 1..5
  BY DEF RuntimeConfigErrors
<1>2. /\ list[1][2] = "ZeroThreadCount" /\ list[2][2] = "ZeroRamBudget"
      /\ list[3][2] = "LayerCacheEnabledWithoutCapacity"
      /\ list[4][2] = "LayerCacheDisabledWithCapacity"
      /\ list[5][2] = "LayerCacheCapacityExceedsRamBudget"
  BY DEF RuntimeConfigErrors
<1>3. /\ list[4][1] = (~c.cache_enabled /\ c.cache_capacity # 0)
  BY DEF RuntimeConfigErrors
<1> HIDE DEF list
<1>4. \A i \in 1..5 : list[i][2] # None
  <2> TAKE i \in 1..5
  <2>1. i = 1 \/ i = 2 \/ i = 3 \/ i = 4 \/ i = 5
    OBVIOUS
  <2> QED BY <1>2, <2>1, CompileErrorsAssumption
<1>5. Checks(list)
  BY <1>1, <1>4, ListOfChecks
<1>6. NoneFails(list) => ~list[4][1]
  BY <1>1 DEF NoneFails
<1> QED BY <1>3, <1>5, <1>6 DEF list

\* What is known of a plan that compiles in a context.
LEMMA CompiledMeans ==
    ASSUME NEW p, NEW ctx, Compile(p, ctx).ok
    PROVE  /\ Compile(p, ctx).value = RuntimeConfig(p)
           /\ ctx.static.ram = p.ram /\ ctx.static.memory # None
           /\ ~(p.threads > ctx.machine.cores)
           /\ ctx.machine.available # None /\ ~(p.ram > ctx.machine.available)
           /\ ~(ctx.static.memory.bound > p.ram)
           /\ ctx.static.memory.cache = p.ram - ctx.static.memory.bound
           /\ p.cache_enabled =>
                 /\ Derive(ctx).cache /\ ~(p.cache_capacity > ctx.static.memory.cache)
                 /\ ~(p.cache_capacity < ctx.static.memory.min_layer)
           /\ ~p.cache_enabled => p.cache_capacity = 0
<1> DEFINE caps == Derive(ctx)
           memory == ctx.static.memory
           c == RuntimeConfig(p)
           l1 == DecisionInconsistencies(p)
           l2 == << <<~MachineValid(ctx.machine), "machine profile">> >>
           l3 == BindingMismatches(p, ctx)
           l4 == StaticPlanMismatches(p, ctx)
           r1 == ResourceErrors(p, ctx, caps)
           r2 == ReservationErrors(p, memory)
           r3 == CacheErrors(p, caps, memory)
           r4 == IoErrors(p, caps)
           r5 == RuntimeConfigErrors(c)
           first == l1 \o l2 \o l3 \o l4
           second == r1 \o r2 \o r3 \o r4 \o r5
<1>1. /\ FirstError(first) = None /\ FirstError(second) = None
      /\ Compile(p, ctx).value = c
  <2>1. Compile(p, ctx) = IF FirstError(HeaderErrors(p)) # None THEN Err(FirstError(HeaderErrors(p)))
                          ELSE IF FirstError(first) # None THEN Err(FirstError(first))
                          ELSE IF FirstError(second) # None THEN Err(FirstError(second))
                          ELSE Ok(c)
    BY DEF Compile
  <2> HIDE DEF first, second, c
  <2> QED BY <2>1 DEF Ok, Err
<1>2. Checks(l2)
  <2>1. l2 = [i \in 1..1 |-> l2[i]] /\ \A i \in 1..1 : l2[i][2] = "machine profile"
    OBVIOUS
  <2> HIDE DEF l2
  <2> QED BY <2>1, CompileErrorsAssumption, ListOfChecks
<1>3. Checks(l1) /\ Checks(l3) /\ Checks(l4)
  BY DecisionChecked, BindingChecked, StaticChecked
<1>4. NoneFails(l4)
  <2> HIDE DEF l1, l2, l3, l4
  <2>1. Checks(l1 \o l2)
    BY <1>2, <1>3, JoinedChecks
  <2>2. Checks(l1 \o l2 \o l3)
    BY <1>3, <2>1, JoinedChecks
  <2>3. Checks(first) /\ (NoneFails(first) => NoneFails(l4))
    BY <1>3, <2>2, JoinedChecks
  <2> HIDE DEF first
  <2> QED BY <1>1, <2>3, NoErrorNoneFails
<1>5. Checks(r1) /\ Checks(r2) /\ Checks(r3) /\ Checks(r4) /\ Checks(r5)
  BY ResourceChecked, ReservationChecked, CacheChecked, IoChecked, ConfigChecked
<1>6. NoneFails(r1) /\ NoneFails(r2) /\ NoneFails(r3) /\ NoneFails(r5)
  <2> HIDE DEF r1, r2, r3, r4, r5
  <2>1. Checks(r1 \o r2) /\ (NoneFails(r1 \o r2) => NoneFails(r1) /\ NoneFails(r2))
    BY <1>5, JoinedChecks
  <2>2. /\ Checks(r1 \o r2 \o r3)
        /\ NoneFails(r1 \o r2 \o r3) => NoneFails(r1 \o r2) /\ NoneFails(r3)
    BY <1>5, <2>1, JoinedChecks
  <2>3. /\ Checks(r1 \o r2 \o r3 \o r4)
        /\ NoneFails(r1 \o r2 \o r3 \o r4) => NoneFails(r1 \o r2 \o r3)
    BY <1>5, <2>2, JoinedChecks
  <2>4. /\ Checks(second)
        /\ NoneFails(second) => NoneFails(r1 \o r2 \o r3 \o r4) /\ NoneFails(r5)
    BY <1>5, <2>3, JoinedChecks
  <2>5. NoneFails(second)
    <3> HIDE DEF second
    <3> QED BY <1>1, <2>4, NoErrorNoneFails
  <2> QED BY <2>1, <2>2, <2>3, <2>4, <2>5
<1>7. ctx.static.ram = p.ram /\ memory # None
  BY <1>4, StaticChecked
<1>8. /\ ~(p.threads > ctx.machine.cores)
      /\ ctx.machine.available # None /\ ~(p.ram > ctx.machine.available)
  BY <1>6, ResourceChecked
<1>9. ~(memory.bound > p.ram) /\ p.bound = memory.bound /\ memory.cache = p.ram - p.bound
  BY <1>6, ReservationChecked
<1>10. p.cache_enabled =>
          /\ caps.cache /\ ~(p.cache_capacity > memory.cache)
          /\ ~(p.cache_capacity < memory.min_layer)
  BY <1>6, CacheChecked
<1>11. ~c.cache_enabled => c.cache_capacity = 0
  BY <1>6, ConfigChecked
<1>12. c.cache_enabled = p.cache_enabled /\ c.cache_capacity = p.cache_capacity
  BY DEF RuntimeConfig
<1> HIDE DEF c, caps, memory
<1>13. ~p.cache_enabled => p.cache_capacity = 0
  BY <1>11, <1>12
<1> QED BY <1>1, <1>7, <1>8, <1>9, <1>10, <1>13 DEF c, caps, memory

\* The least of the layers is one of them.
LEMMA LeastLayer ==
    ASSUME NEW e \in Environments, NEW ram \in Budgets,
           ExecutionMemory(e.model, ram).min_layer > 0
    PROVE  \E i \in DOMAIN e.model.layers :
              /\ e.model.layers[i].resident = ExecutionMemory(e.model, ram).min_layer
              /\ e.model.layers[i].resident \in Nat
<1> DEFINE layers == e.model.layers
           residents == [i \in DOMAIN layers |-> layers[i].resident]
           sizes == Range(residents)
<1>1. ExecutionMemory(e.model, ram).min_layer = IF layers = <<>> THEN 0 ELSE Min(sizes)
  BY DEF ExecutionMemory
<1>2. layers \in Seq([resident : Nat, peak : Nat])
  BY LifecycleAssumption
<1>3. layers # <<>>
  BY <1>1
<1>4. \A i \in DOMAIN layers : layers[i].resident \in Nat
  <2> TAKE i \in DOMAIN layers
  <2>1. i \in 1..Len(layers)
    BY <1>2
  <2>2. layers[i] \in [resident : Nat, peak : Nat]
    BY <1>2, <2>1, ElementOfSeq, Zenon
  <2>3. \A r \in [resident : Nat, peak : Nat] : r.resident \in Nat
    OBVIOUS
  <2> QED BY <2>2, <2>3, Zenon
<1>5. sizes = {layers[i].resident : i \in DOMAIN layers}
  BY DEF Range
<1>6. DOMAIN layers # {}
  <2> HIDE DEF layers
  <2>1. DOMAIN layers = 1..Len(layers) /\ Len(layers) \in Nat \ {0}
    BY <1>2, <1>3, EmptySeq
  <2>2. 1 \in DOMAIN layers
    BY <2>1
  <2> QED BY <2>2
<1>7. sizes \subseteq Nat /\ sizes # {}
  BY <1>4, <1>5, <1>6
<1>8. Min(sizes) \in sizes
  <2> HIDE DEF sizes
  <2>1. PICK m \in sizes : \A k \in sizes : m <= k
    BY <1>7, LeastNumber
  <2> QED BY <2>1 DEF Min
<1>9. PICK i \in DOMAIN layers : Min(sizes) = layers[i].resident
  BY <1>5, <1>8
<1> QED BY <1>1, <1>3, <1>4, <1>9

-----------------------------------------------------------------------------
\* The configuration is what the plan at hand was compiled to in the session's
\* context.
ConfigHeld ==
    config # None =>
        /\ plan # None
        /\ Compile(plan.plan, session.ctx).ok /\ config = Compile(plan.plan, session.ctx).value

LEMMA ConfigStep == ConfigHeld /\ [LifecycleNext]_lifecycleVars => ConfigHeld'
<1> SUFFICES ASSUME ConfigHeld, [LifecycleNext]_lifecycleVars PROVE ConfigHeld'
  OBVIOUS
<1>1. CASE UNCHANGED <<session, plan, config>>
  BY <1>1 DEF ConfigHeld
<1>2. CASE config' = None
  BY <1>2 DEF ConfigHeld
<1>3. CASE CreatePlan
  <2>1. plan = None /\ config' = config
    BY <1>3 DEF CreatePlan
  <2> QED BY <2>1 DEF ConfigHeld
<1>4. CASE Activate
  BY <1>4 DEF Activate, ConfigHeld
<1>5. ASSUME NEW user, Analyze(user) PROVE config' = None
  BY <1>5 DEF Analyze
<1>6. OpenPlan => config' = None
  BY DEF OpenPlan
<1>7. ChangeEnvironment \/ Calibrate \/ Calibrating \/ Calibrated \/ SavePlan \/ FileSteps
        => UNCHANGED <<session, plan, config>>
  BY DEF ChangeEnvironment, Calibrate, Calibrating, Calibrated, SavePlan, FileSteps, lvars
<1> QED BY <1>1, <1>2, <1>3, <1>4, <1>5, <1>6, <1>7 DEF LifecycleNext, lifecycleVars, lvars

LEMMA ConfigMeans == LifeHeld /\ ConfigHeld => ConfigurationFits
<1> SUFFICES ASSUME LifeHeld, ConfigHeld, config # None PROVE ConfigurationFits
  BY DEF ConfigurationFits
<1> DEFINE p == plan.plan
           ctx == session.ctx
           memory == ctx.static.memory
<1>1. PlanShape(p) /\ Analyzed(ctx) /\ Compile(p, ctx).ok /\ config = Compile(p, ctx).value
  BY DEF LifeHeld, StoreHeld, PlanHeld, SessionHeld, ConfigHeld
<1>2. PICK e \in Environments, ram \in Budgets : ctx = Context(e, ram)
  BY <1>1 DEF Analyzed
<1>3. /\ config = RuntimeConfig(p)
      /\ ctx.static.ram = p.ram /\ memory # None
      /\ ~(p.threads > ctx.machine.cores)
      /\ ctx.machine.available # None /\ ~(p.ram > ctx.machine.available)
      /\ ~(memory.bound > p.ram) /\ memory.cache = p.ram - memory.bound
      /\ p.cache_enabled =>
            /\ Derive(ctx).cache /\ ~(p.cache_capacity > memory.cache)
            /\ ~(p.cache_capacity < memory.min_layer)
      /\ ~p.cache_enabled => p.cache_capacity = 0
  BY <1>1, CompiledMeans
<1>4. /\ ctx.machine = e.machine /\ ctx.model = e.model /\ ctx.static = PlanModel(e.model, ram)
  BY <1>2 DEF Context
<1>5. ram = p.ram /\ memory = ExecutionMemory(e.model, ram)
  BY <1>3, <1>4 DEF PlanModel
<1>6. /\ config.ram = p.ram /\ config.threads = p.threads
      /\ config.cache_enabled = p.cache_enabled /\ config.cache_capacity = p.cache_capacity
  BY <1>3 DEF RuntimeConfig
<1>7. /\ p.ram \in Nat /\ p.threads \in Nat /\ p.cache_capacity \in Nat
      /\ ctx.machine.cores \in Nat /\ ctx.machine.available \in Nat
  BY <1>1, <1>3, <1>4, LifecycleAssumption DEF PlanShape, Budgets
<1>8. /\ memory.bound \in Nat /\ memory.startup \in Nat /\ memory.cache \in Nat
      /\ memory.startup <= memory.bound
  BY <1>5, MemoryTyped
<1>9. p.cache_enabled =>
         \E i \in DOMAIN ctx.model.layers : ctx.model.layers[i].resident <= p.cache_capacity
  <2> SUFFICES ASSUME p.cache_enabled
               PROVE  \E i \in DOMAIN e.model.layers : e.model.layers[i].resident <= p.cache_capacity
    BY <1>4
  <2>1. memory.min_layer > 0
    BY <1>3 DEF Derive
  <2>2. PICK i \in DOMAIN e.model.layers :
           e.model.layers[i].resident = memory.min_layer /\ e.model.layers[i].resident \in Nat
    BY <1>5, <2>1, LeastLayer
  <2>3. memory.min_layer <= p.cache_capacity
    BY <1>3, <1>7, <2>2
  <2> QED BY <2>2, <2>3
<1>10. ExecutionMemory(ctx.model, config.ram) = memory
  BY <1>4, <1>5, <1>6
<1> HIDE DEF p, ctx, memory
<1>11. /\ config.ram <= ctx.machine.available /\ config.threads <= ctx.machine.cores
       /\ memory.startup <= config.ram
  BY <1>3, <1>6, <1>7, <1>8
<1>12. memory.bound + config.cache_capacity <= config.ram
  BY <1>3, <1>6, <1>7, <1>8
<1> QED BY <1>6, <1>9, <1>10, <1>11, <1>12 DEF ConfigurationFits, ctx

\* A configuration fits the machine it was compiled for, whatever plan it is
\* of, made here or loaded (ExecutionPlanCompiler::compile).
THEOREM ConfigurationFitsTheorem == NothingIsNoPlan => (LifecycleSpec => []ConfigurationFits)
<1> SUFFICES ASSUME NothingIsNoPlan PROVE LifecycleSpec => []ConfigurationFits
  OBVIOUS
<1>1. LifecycleInit => ConfigHeld
  BY DEF LifecycleInit, ConfigHeld
<1>2. LifeHeld /\ [LifecycleNext]_lifecycleVars => LifeHeld'
  BY LifeStep
<1> QED BY <1>1, <1>2, LifeInit, ConfigStep, ConfigMeans, PTL DEF LifecycleSpec
=============================================================================
