---------------------------- MODULE PlannerCases ----------------------------
(***************************************************************************)
(* Every release plan and every staging plan of the residency engine over  *)
(* a given set of inventories, policies and measurements, against what the *)
(* plans are for, stated on the sets of pages themselves.                  *)
(***************************************************************************)
EXTENDS ResidencyPlanner

CONSTANTS
    PlannedInventories,   \* the models: sequences of tensors
    PlannedPolicies,      \* the valid policies
    PlannedMeasurements,  \* observed process sizes, or NoValue
    Limits,        \* staging limits
    Profiles       \* reuse orders of an execution profile

ASSUME PlannedPoliciesAssumption == \A policy \in PlannedPolicies : ValidPolicy(policy)

VARIABLES tensorList, plan

plannerVars == <<tensorList, plan>>

PlannerStart(inventories) ==
    /\ tensorList \in inventories
    /\ plan = [kind |-> "none"]

PlannerInit == PlannerStart(PlannedInventories)

ReleasePlanCase(policy, observed, reuse) ==
    /\ plan.kind = "none"
    /\ LET candidates == Candidates(tensorList, policy, TRUE, {}, {})
           selected == Selected(tensorList, policy, observed, reuse, candidates)
       IN  plan' = [kind |-> "release", policy |-> policy,
                    need |-> Need(tensorList, policy, observed),
                    candidates |-> candidates, selected |-> selected,
                    reclaim |-> Reclaim(tensorList, selected)]
    /\ UNCHANGED tensorList

StagingPlanCase(max_bytes, reuse) ==
    /\ plan.kind = "none"
    /\ LET staged == StagingPlan(tensorList, max_bytes, reuse)
       IN  plan' = [kind |-> "staging", max_bytes |-> max_bytes,
                    selected |-> staged.selected, selected_bytes |-> staged.selected_bytes,
                    skipped |-> staged.skipped, overlap_avoided |-> staged.overlap_avoided]
    /\ UNCHANGED tensorList

PlannerNext ==
    \/ \E policy \in PlannedPolicies, observed \in PlannedMeasurements, reuse \in Profiles :
          ReleasePlanCase(policy, observed, reuse)
    \/ \E max_bytes \in Limits, reuse \in Profiles :
          StagingPlanCase(max_bytes, reuse)

PlannerSpec == PlannerInit /\ [][PlannerNext]_plannerVars

-----------------------------------------------------------------------------
\* The bytes of a tensor's pages, as positions of its mapping.
Pages(i) ==
    IF PageBytes(tensorList[i]) = 0 THEN {}
    ELSE {tensorList[i].mapping} \X (tensorList[i].start..(tensorList[i].end - 1))

PagesOf(S) == UNION {Pages(i) : i \in S}

\* The sorted, merged sweep over overlapping ranges counts each shared byte
\* exactly once, whatever the overlaps of three and more tensors
\* (merged_interval_bytes, from_tensor_mappings).
SharingIsExact ==
    \A i \in DOMAIN tensorList :
        SharedPageBytes(tensorList, i)
            = Cardinality(Pages(i) \cap PagesOf(DOMAIN tensorList \ {i}))

\* A release plan never counts on a byte that a retained tensor also maps,
\* and never counts one byte for two tensors: what it says it will reclaim
\* is there (plan_with_profile, unique_reclaimable_bytes).
ReclaimNotOverstated ==
    plan.kind = "release" =>
        plan.reclaim <= Cardinality(PagesOf(plan.selected)
                                      \ PagesOf(DOMAIN tensorList \ plan.selected))

\* The greedy selection misses the soft target only when no choice of
\* candidates would have met it, and then it releases all of them; it never
\* releases anything once the target is met (plan_with_profile's loop).
SelectionMeetsNeedWhenPossible ==
    plan.kind = "release" =>
        /\ plan.reclaim < plan.need => plan.selected = plan.candidates
        /\ \E S \in SUBSET plan.selected :
              /\ Cardinality(S) >= Cardinality(plan.selected) - 1
              /\ plan.selected # {} =>
                   /\ S # plan.selected
                   /\ Reclaim(tensorList, S) < plan.need

\* The bytes a staging plan says it requests are exactly the bytes of the
\* union of the selected tensors' pages and stay within the limit, and with
\* the skipped and the already covered bytes they make up the model: no page
\* is asked for twice or lost, however the ranges were merged
\* (staging_plan_with_profile, covered_bytes, insert_interval).
StagingBytesExact ==
    plan.kind = "staging" =>
        /\ plan.selected_bytes = Cardinality(PagesOf(plan.selected))
        /\ plan.selected_bytes <= plan.max_bytes
        /\ plan.selected_bytes + plan.skipped + plan.overlap_avoided = TotalPageBytes(tensorList)

\* What a plan promises is there: its bytes are counted once, however ranges
\* overlap, and it takes what it needs and no more (plan_with_profile,
\* staging_plan_with_profile).
ResidencyPlansSound ==
    /\ SharingIsExact
    /\ ReclaimNotOverstated
    /\ SelectionMeetsNeedWhenPossible
    /\ StagingBytesExact
=============================================================================
