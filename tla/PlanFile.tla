------------------------------ MODULE PlanFile ------------------------------
(***************************************************************************)
(* What saving and loading plans promises                                  *)
(* (crates/ramforge-runtime/src/plan_persistence.rs, save_new and load): a *)
(* path is taken once; what it holds is nothing, something that no load    *)
(* accepts, or the plan that was saved; and a load returns what was saved  *)
(* or fails.                                                               *)
(***************************************************************************)
CONSTANTS None, Torn

VARIABLES content,   \* what a load of the file would find
          saved,     \* the plan whose save took the path, None before
          loaded     \* what the last load returned: a plan, Torn or None

fvars == <<content, saved, loaded>>

FileInit == content = None /\ saved = None /\ loaded = None

\* A path is taken by the first save; nothing overwrites it.
Take ==
    /\ saved = None
    /\ saved' \notin {None, Torn} /\ content' = Torn
    /\ UNCHANGED loaded

\* The save completes.
Complete ==
    /\ content = Torn /\ saved # None
    /\ content' = saved
    /\ UNCHANGED <<saved, loaded>>

\* Without a synced file, a power loss may take any of it back; the path is
\* free again if it takes the file.
Lose ==
    /\ saved # None
    /\ \/ content' = Torn /\ UNCHANGED saved
       \/ content' = None /\ saved' = None
    /\ UNCHANGED loaded

\* A load sees the plan that was saved or fails.
Load ==
    /\ loaded' \in {None, Torn, content}
    /\ UNCHANGED <<content, saved>>

FileNext == Take \/ Complete \/ Lose \/ Load

FileSpec == FileInit /\ [][FileNext]_fvars
=============================================================================
