----------------------------- MODULE Supervisor -----------------------------
(***************************************************************************)
(* A supervised run (crates/ramforge-cli/src/supervisor.rs) and the cgroup *)
(* it puts its child in (crates/ramforge-runtime/src/cgroup.rs): the       *)
(* supervisor polls, gives up at the timeout, kills and reaps, while the   *)
(* child exits, is killed for memory by the kernel or hangs, in any        *)
(* interleaving.  The file system and the process table are the kernel's:  *)
(* their calls may fail where the code handles a failure.                  *)
(***************************************************************************)
EXTENDS Integers

CONSTANT MaxAttempts   \* how often remove_best_effort tries (20 in the code)

ASSUME AttemptsAssumption == MaxAttempts \in Nat \ {0}

VARIABLES
    stage,         \* where run_supervised is
    child,      \* "none", "running", "exited", "oom", "killed"
    reaped,     \* the supervisor has the child's exit status
    doomed,     \* SIGKILL is on its way to the child
    cgroup,     \* "absent", "bare" (no limit written yet) or "limited"
    expired,    \* the timeout has elapsed
    overdue,    \* the 5 seconds after the kill have elapsed
    timed_out,  \* the flag of the outcome
    stats,      \* the memory events read: "unread", "default", "clean" or "oom"
    attempts,   \* failed attempts of the removal in progress
    ending      \* what run_supervised returns: "none", "Ok" or "Err"

supervisorVars == <<stage, child, reaped, doomed, cgroup, expired, overdue, timed_out, stats, attempts, ending>>
osvars == <<child, doomed, expired, overdue>>

Dead == {"exited", "oom", "killed"}

SupervisorTypeOK ==
    /\ stage \in {"create", "limit", "spawn", "poll", "check", "reap", "wait",
               "stats", "remove", "drop", "done"}
    /\ child \in {"none", "running"} \cup Dead
    /\ reaped \in BOOLEAN /\ doomed \in BOOLEAN
    /\ cgroup \in {"absent", "bare", "limited"}
    /\ expired \in BOOLEAN /\ overdue \in BOOLEAN /\ timed_out \in BOOLEAN
    /\ stats \in {"unread", "default", "clean", "oom"}
    /\ attempts \in 0..(MaxAttempts - 1)
    /\ ending \in {"none", "Ok", "Err"}

SupervisorInit ==
    /\ stage = "create"
    /\ child = "none"
    /\ reaped = FALSE /\ doomed = FALSE
    /\ cgroup = "absent"
    /\ expired = FALSE /\ overdue = FALSE /\ timed_out = FALSE
    /\ stats = "unread"
    /\ attempts = 0
    /\ ending = "none"
-----------------------------------------------------------------------------
(***************************************************************************)
(* The kernel, the child and the clock.                                    *)
(***************************************************************************)
Dies(how) ==
    /\ child = "running"
    /\ child' = how
    /\ UNCHANGED <<stage, reaped, doomed, cgroup, expired, overdue, timed_out, stats, attempts, ending>>

ChildExits == Dies("exited")
ChildOutOfMemory == Dies("oom")
ChildKilled == doomed /\ Dies("killed")

Expire ==
    /\ child # "none" /\ ~expired
    /\ expired' = TRUE
    /\ UNCHANGED <<stage, child, reaped, doomed, cgroup, overdue, timed_out, stats, attempts, ending>>

DeadlinePasses ==
    /\ stage = "reap" /\ ~overdue
    /\ overdue' = TRUE
    /\ UNCHANGED <<stage, child, reaped, doomed, cgroup, expired, timed_out, stats, attempts, ending>>
-----------------------------------------------------------------------------
(***************************************************************************)
(* MemoryCgroup::create and run_supervised.                                *)
(***************************************************************************)

\* An early return with `?`; the cgroup handle, if there is one, is dropped.
ReturnsErr(next) ==
    /\ ending' = "Err"
    /\ stage' = next
    /\ attempts' = 0
    /\ UNCHANGED <<reaped, timed_out, stats>>

\* No limit of less than 1 MiB, a delegated parent, a new directory.
CreateDir ==
    /\ stage = "create"
    /\ \/ ReturnsErr("done") /\ UNCHANGED cgroup
       \/ /\ cgroup' = "bare"
          /\ stage' = "limit"
          /\ UNCHANGED <<reaped, timed_out, stats, attempts, ending>>
    /\ UNCHANGED osvars

\* Mutant: a limit that cannot be written leaves the directory behind.
WriteLimitsLeaking ==
    /\ stage = "limit"
    /\ \/ ReturnsErr("done") /\ UNCHANGED cgroup
       \/ /\ cgroup' = "limited"
          /\ stage' = "spawn"
          /\ UNCHANGED <<reaped, timed_out, stats, attempts, ending>>
    /\ UNCHANGED osvars

\* memory.max, memory.swap.max, memory.oom.group; a failure removes the
\* directory, which is empty.
WriteLimits ==
    /\ stage = "limit"
    /\ \/ ReturnsErr("done") /\ cgroup' = "absent"
       \/ /\ cgroup' = "limited"
          /\ stage' = "spawn"
          /\ UNCHANGED <<reaped, timed_out, stats, attempts, ending>>
    /\ UNCHANGED osvars

\* The child joins the cgroup before it executes; a child that cannot is
\* reported by spawn.
Spawn ==
    /\ stage = "spawn"
    /\ \/ ReturnsErr("drop") /\ UNCHANGED child
       \/ /\ child' = "running"
          /\ stage' = "poll"
          /\ UNCHANGED <<reaped, timed_out, stats, attempts, ending>>
    /\ UNCHANGED <<doomed, cgroup, expired, overdue>>

\* try_wait found the child dead.
Reaps ==
    /\ child \in Dead
    /\ reaped' = TRUE
    /\ stage' = "stats"
    /\ UNCHANGED <<timed_out, stats, attempts, ending>>

Poll ==
    /\ stage = "poll"
    /\ \/ Reaps
       \/ /\ child = "running"
          /\ stage' = "check"
          /\ UNCHANGED <<reaped, timed_out, stats, attempts, ending>>
    /\ UNCHANGED <<cgroup, osvars>>

\* Mutant: the kill is asked for without the clock.
CheckTimeoutEager ==
    /\ stage = "check"
    /\ stage' = "reap" /\ timed_out' = expired /\ doomed' = TRUE
    /\ UNCHANGED <<child, reaped, cgroup, expired, overdue, stats, attempts, ending>>

\* After the poll that found the child running: the child may have died in
\* between.  A kernel without cgroup.kill, or one that refuses it, is ignored.
CheckTimeout ==
    /\ stage = "check"
    /\ IF expired
       THEN stage' = "reap" /\ timed_out' = TRUE /\ doomed' \in {doomed, TRUE}
       ELSE stage' = "poll" /\ UNCHANGED <<timed_out, doomed>>
    /\ UNCHANGED <<child, reaped, cgroup, expired, overdue, stats, attempts, ending>>

\* Mutant: without the fallback to SIGKILL after the deadline.
WaitAfterKillForever ==
    /\ stage = "reap"
    /\ Reaps
    /\ UNCHANGED <<cgroup, osvars>>

\* wait_after_kill: polls until the deadline, then kills the child itself.
WaitAfterKill ==
    /\ stage = "reap"
    /\ \/ Reaps /\ UNCHANGED doomed
       \/ /\ child = "running" /\ overdue
          /\ doomed' = TRUE
          /\ stage' = "wait"
          /\ UNCHANGED <<reaped, timed_out, stats, attempts, ending>>
    /\ UNCHANGED <<cgroup, child, expired, overdue>>

\* The blocking wait that follows.
Wait ==
    /\ stage = "wait"
    /\ Reaps
    /\ UNCHANGED <<cgroup, osvars>>

\* try_wait or wait fails: the child is neither killed nor reaped.
PollFails ==
    /\ stage \in {"poll", "reap", "wait"}
    /\ ReturnsErr("drop")
    /\ UNCHANGED <<cgroup, osvars>>

\* What memory.events says of a cgroup that exists.
Events == IF child = "oom" THEN "oom" ELSE "clean"

ReadStats ==
    /\ stage = "stats"
    /\ stats' \in {Events, "default"}
    /\ stage' = "remove" /\ attempts' = 0 /\ ending' = "Ok"
    /\ UNCHANGED <<reaped, timed_out, cgroup, osvars>>

\* The kernel removes a directory no live process is in, possibly late.
Removable == child # "running"

(***************************************************************************)
(* One attempt of remove_best_effort, first by remove(self), then once     *)
(* more by the drop of the handle.                                         *)
(***************************************************************************)
RemoveBestEffort ==
    /\ stage \in {"remove", "drop"}
    /\ \/ /\ cgroup = "absent" \/ Removable
          /\ cgroup' = "absent"
          /\ stage' = IF stage = "remove" THEN "drop" ELSE "done"
          /\ attempts' = 0
       \/ /\ cgroup # "absent"
          /\ UNCHANGED cgroup
          /\ IF attempts + 1 = MaxAttempts
             THEN attempts' = 0 /\ stage' = IF stage = "remove" THEN "drop" ELSE "done"
             ELSE attempts' = attempts + 1 /\ UNCHANGED stage
    /\ UNCHANGED <<reaped, timed_out, stats, ending, osvars>>
-----------------------------------------------------------------------------
Supervise == CreateDir \/ WriteLimits \/ Spawn \/ Poll \/ CheckTimeout
                \/ WaitAfterKill \/ Wait \/ ReadStats \/ RemoveBestEffort

SupervisorNext == Supervise \/ PollFails \/ ChildExits \/ ChildOutOfMemory \/ ChildKilled \/ Expire \/ DeadlinePasses

\* The supervisor runs, time passes, and a signalled process dies.  Nothing
\* makes the child exit by itself, and nothing makes a poll fail.
Fairness == WF_supervisorVars(Supervise) /\ WF_supervisorVars(Expire) /\ WF_supervisorVars(DeadlinePasses) /\ WF_supervisorVars(ChildKilled)

SupervisorSpec == SupervisorInit /\ [][SupervisorNext]_supervisorVars /\ Fairness
-----------------------------------------------------------------------------
\* exit_code: the code reported to the caller of the command.
ExitCode == IF timed_out THEN "124" ELSE child

(***************************************************************************)
(* A run that returns an outcome has reaped its child, whichever of the    *)
(* child, the kernel and the timeout came first, and the outcome says what *)
(* happened: a child the supervisor killed is reported as timed out, with  *)
(* exit code 124 and never the signal's.  Only a failed poll lets          *)
(* run_supervised return while the child still runs.                       *)
(***************************************************************************)
OutcomeIsTrue ==
    /\ ending = "Ok" => reaped /\ child \in Dead /\ ExitCode \in {"124", "exited", "oom"}
    /\ child = "killed" => timed_out
    /\ stage = "done" /\ child = "running" => ending = "Err" /\ ~reaped

(***************************************************************************)
(* The memory events in the outcome are those after the child's end: an    *)
(* out-of-memory kill is never reported as a clean run.                    *)
(***************************************************************************)
OutOfMemoryReported == ending = "Ok" /\ child = "oom" => stats \in {"oom", "default"}

(***************************************************************************)
(* A supervisor that fails to set the limits up leaves no directory        *)
(* behind, and a child never runs outside a cgroup whose limits are set    *)
(* while the supervisor waits for it.                                      *)
(***************************************************************************)
NoBareCgroupLeft ==
    /\ stage = "done" => cgroup # "bare"
    /\ child # "none" => cgroup = "limited" \/ stage \in {"drop", "done"}

(***************************************************************************)
(* A supervised run ends, even when the child never exits and when the     *)
(* kernel has no cgroup.kill.                                              *)
(***************************************************************************)
RunEnds == <>(stage = "done")
=============================================================================
