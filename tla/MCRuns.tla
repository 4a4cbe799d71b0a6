------------------------------- MODULE MCRuns -------------------------------
(***************************************************************************)
(* The two ways a model is run from the command line, one after the other: *)
(* a residency-managed run, and then a run under a supervisor.  They share *)
(* no state, so that side by side they would do nothing they do not do     *)
(* here; each is as fair as it is alone, once it is its turn.              *)
(***************************************************************************)
EXTENDS ResidencyRun, Supervisor

ProcessesInit == SupervisorInit /\ RunInit

ProcessesNext ==
    \/ RunNext /\ UNCHANGED supervisorVars
    \/ pc = "done" /\ SupervisorNext /\ UNCHANGED rvars

ProcessesSpec ==
    /\ ProcessesInit /\ [][ProcessesNext]_<<supervisorVars, rvars>>
    /\ WF_rvars(RunNext)
    /\ WF_supervisorVars(pc = "done" /\ Supervise)
    /\ WF_supervisorVars(pc = "done" /\ Expire)
    /\ WF_supervisorVars(pc = "done" /\ DeadlinePasses)
    /\ WF_supervisorVars(pc = "done" /\ ChildKilled)

-----------------------------------------------------------------------------
(* Inventories with shared pages, an empty range and an anonymous tensor;  *)
(* every policy mode.                                                      *)

Tensor(file_backed, start, end) ==
    [file_backed |-> file_backed, mapping |-> IF file_backed THEN 0 ELSE NoValue,
     start |-> start, end |-> end, layer |-> 0]

MCInventories == {<<Tensor(TRUE, 0, 2), Tensor(TRUE, 1, 3)>>,
                  <<Tensor(TRUE, 0, 1), Tensor(TRUE, 2, 4)>>,
                  <<Tensor(FALSE, 0, 0), Tensor(TRUE, 0, 2), Tensor(TRUE, 2, 2)>>}

MCPolicies == {[mode |-> mode, target |-> 2, reserve |-> 1] : mode \in Modes}

MCMeasurements == {NoValue, 1, 2, 4}
=============================================================================
