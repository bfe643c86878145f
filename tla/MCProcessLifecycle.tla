-------------------------- MODULE MCProcessLifecycle --------------------------
(***************************************************************************)
(* ProcessLifecycle for TLC: which requests and which faults a run allows. *)
(* Restart tasks are interchangeable, so they are a symmetry set.          *)
(***************************************************************************)
EXTENDS ProcessLifecycle, TLC

AllOps == {"start", "start_existing", "stop", "restart", "delete", "update",
           "set_enabled", "reset"}
AllFaults == {"spawn", "cleanup", "kill", "wait"}

TaskSymmetry == Permutations(Tasks)
=============================================================================
