---------------------------- MODULE CronLifecycle ----------------------------
(***************************************************************************)
(* One scheduled entry of the process manager: its CronScheduler, the      *)
(* trigger queue, the runs cron_trigger_loop starts, the exit handler of   *)
(* each run, and the request that holds the mutation lock.                 *)
(*                                                                         *)
(* ProcessLifecycle has the inside of a termination and of an abandoned    *)
(* spawn; here each is one step, which confirms the tree gone or fails.    *)
(* What is kept apart is what the entry's lock keeps apart from the lock   *)
(* of cron_schedulers: an actor changes the entry in one step and the      *)
(* scheduler map in another.                                               *)
(***************************************************************************)
EXTENDS Integers, FiniteSets

CONSTANTS
  Slots,        \* concurrent run tasks
  UserOps,      \* requests: start, stop, restart, delete, disable, enable
  MaxTrees,     \* bound: OS trees spawned
  MaxTicks,     \* bound: ticks waiting in the trigger queue
  MaxClaims,    \* bound: runs claimed
  MaxOps,       \* bound: requests
  MaxFaults     \* bound: failing hooks, spawns and terminations

ASSUME CronAssumption ==
  /\ UserOps \subseteq {"start", "stop", "restart", "delete", "disable", "enable"}
  /\ {MaxTrees, MaxTicks, MaxClaims, MaxOps, MaxFaults} \subseteq Nat

VARIABLES
  proc,     \* the entry: status, desired, gen, enabled, the tree it holds
  present,  \* whether the registry holds it
  sched,    \* whether cron_schedulers holds a scheduler for it
  ticks,    \* triggers in the queue
  runs,     \* per slot, a run task
  watch,    \* exit handlers, of committed trees
  alive,    \* trees with a live process
  user,     \* the request: its program counter and local variables
  spawned,  \* number of trees spawned so far
  stopGen,  \* history: generation of the last acknowledged stop
  dropped,  \* history: a cancelled run removed the scheduler
  budget    \* requests, faults and claims so far

vars == <<proc, present, sched, ticks, runs, watch, alive, user, spawned,
          stopGen, dropped, budget>>
hist == <<stopGen, dropped>>

NoTree == 0
Trees  == 1 .. MaxTrees

Idle     == [pc |-> "idle", gen |-> 0, child |-> NoTree]
IdleUser == [pc |-> "idle", op |-> "none", gen |-> 0, child |-> NoTree,
             prev |-> "Stopped", prevGen |-> 0, wasEnabled |-> TRUE]

(* register_sleeping: a restored job sleeps before its scheduler exists,   *)
(* which the restore, a request of its own, then starts.                   *)
Init ==
  /\ \/ /\ proc = [status |-> "Stopped", desired |-> FALSE, gen |-> 0,
                   enabled |-> TRUE, tree |-> NoTree]
        /\ user = IdleUser
     \/ /\ proc = [status |-> "Sleeping", desired |-> TRUE, gen |-> 1,
                   enabled |-> TRUE, tree |-> NoTree]
        /\ user = [IdleUser EXCEPT !.pc = "insert", !.op = "restore"]
  /\ present = TRUE /\ sched = FALSE /\ ticks = 0
  /\ runs = [r \in Slots |-> Idle]
  /\ watch = {} /\ alive = {} /\ spawned = 0
  /\ stopGen = -1 /\ dropped = FALSE
  /\ budget = [ops |-> 0, faults |-> 0, claims |-> 0]

Fault == /\ budget.faults < MaxFaults
         /\ budget' = [budget EXCEPT !.faults = @ + 1]

Current(g) == proc.gen = g /\ proc.desired
Busy(s)    == s \in {"Starting", "Stopping", "Running", "Sleeping"}

(* mark_errored_if_current, and the same fields set in line.               *)
Errored == [proc EXCEPT !.status = "Errored", !.desired = FALSE,
                        !.gen = @ + 1, !.tree = NoTree]

-----------------------------------------------------------------------------
(* The scheduler and the trigger loop.                                     *)

(* A tick is queued; aborting the scheduler takes no queued tick back.     *)
Tick ==
  /\ sched /\ ticks < MaxTicks
  /\ ticks' = ticks + 1
  /\ UNCHANGED <<proc, present, sched, runs, watch, alive, user, spawned, hist,
                 budget>>

(* A run task starts for a tick if the entry sleeps, enabled and wanted.   *)
Trigger(r) ==
  /\ ticks > 0 /\ runs[r].pc = "idle"
  /\ ticks' = ticks - 1
  /\ runs' = IF /\ present /\ proc.enabled /\ proc.desired
                /\ proc.status = "Sleeping"
             THEN [runs EXCEPT ![r].pc = "claim"] ELSE runs
  /\ UNCHANGED <<proc, present, sched, watch, alive, user, spawned, hist, budget>>

RunStep(r, pc) == runs' = [runs EXCEPT ![r].pc = pc]

(* The claim, under the write lock: a generation of its own.               *)
RunClaim(r) ==
  /\ runs[r].pc = "claim"
  /\ IF proc.enabled /\ proc.desired /\ proc.status = "Sleeping"
     THEN /\ budget.claims < MaxClaims
          /\ proc' = [proc EXCEPT !.gen = @ + 1, !.status = "Starting"]
          /\ runs' = [runs EXCEPT ![r].pc = "prepare", ![r].gen = proc.gen + 1]
          /\ budget' = [budget EXCEPT !.claims = @ + 1]
     ELSE runs' = [runs EXCEPT ![r] = Idle] /\ UNCHANGED <<proc, budget>>
  /\ UNCHANGED <<present, sched, ticks, watch, alive, user, spawned, hist>>

(* Log directory and writer; a cancelled run ends without a word.          *)
RunPrepare(r) ==
  /\ runs[r].pc = "prepare"
  /\ runs' = [runs EXCEPT ![r] = IF proc.enabled /\ Current(@.gen)
                                 THEN [@ EXCEPT !.pc = "spawn"] ELSE Idle]
  /\ UNCHANGED <<proc, present, sched, ticks, watch, alive, user, spawned, hist,
                 budget>>

(* Slip: a failing hook ends the run without marking the entry.            *)
RunFailQuiet(r) ==
  /\ runs[r].pc \in {"prepare", "spawn"} /\ Fault
  /\ RunStep(r, "drop")
  /\ UNCHANGED <<proc, present, sched, ticks, watch, alive, user, spawned, hist>>

(* Logs, pre_start hook, environment file or OS spawn fail.                *)
RunFail(r) ==
  /\ runs[r].pc \in {"prepare", "spawn"} /\ Fault
  /\ IF Current(runs[r].gen)
     THEN proc' = Errored /\ RunStep(r, "drop")
     ELSE UNCHANGED proc /\ runs' = [runs EXCEPT ![r] = Idle]
  /\ UNCHANGED <<present, sched, ticks, watch, alive, user, spawned, hist>>

RunSpawn(r) ==
  /\ runs[r].pc = "spawn" /\ spawned < MaxTrees
  /\ spawned' = spawned + 1 /\ alive' = alive \cup {spawned'}
  /\ runs' = [runs EXCEPT ![r].pc = "commit", ![r].child = spawned']
  /\ UNCHANGED <<proc, present, sched, ticks, watch, user, hist, budget>>

(* Slip: a run that was cancelled while it spawned commits all the same.   *)
RunCommitCancelled(r) ==
  /\ runs[r].pc = "commit"
  /\ proc' = [proc EXCEPT !.status = "Running", !.tree = runs[r].child]
  /\ watch' = watch \cup {[tree |-> runs[r].child, gen |-> runs[r].gen,
                           via |-> "run", stage |-> "live"]}
  /\ runs' = [runs EXCEPT ![r].pc = "look", ![r].child = NoTree]
  /\ UNCHANGED <<present, sched, ticks, alive, user, spawned, hist, budget>>

(* PID, tree ownership and Running in one critical section.                *)
RunCommit(r) ==
  /\ runs[r].pc = "commit" /\ Current(runs[r].gen)
  /\ proc' = [proc EXCEPT !.status = "Running", !.tree = runs[r].child]
  /\ watch' = watch \cup {[tree |-> runs[r].child, gen |-> runs[r].gen,
                           via |-> "run", stage |-> "live"]}
  /\ runs' = [runs EXCEPT ![r].pc = "look", ![r].child = NoTree]
  /\ UNCHANGED <<present, sched, ticks, alive, user, spawned, hist, budget>>

(* Cancelled, or the identity or the tree guard fails: the child is        *)
(* terminated (the retries of cleanup_failed_spawn taken together) and the *)
(* scheduler goes, whoever started it.                                     *)
RunAbandon(r) ==
  /\ runs[r].pc = "commit"
  /\ IF Current(runs[r].gen) THEN Fault ELSE UNCHANGED budget
  /\ alive' = alive \ {runs[r].child}
  /\ proc' = IF proc.gen = runs[r].gen THEN Errored ELSE proc
  /\ runs' = [runs EXCEPT ![r].pc = "drop", ![r].child = NoTree]
  /\ UNCHANGED <<present, sched, ticks, watch, user, spawned, hist>>

RunDrop(r) ==
  /\ runs[r].pc = "drop"
  /\ sched' = FALSE
  /\ dropped' = (dropped \/ (sched /\ proc.status # "Errored"))
  /\ runs' = [runs EXCEPT ![r] = Idle]
  /\ UNCHANGED <<proc, present, ticks, watch, alive, user, spawned, stopGen,
                 budget>>

(* After the commit, whether the scheduler is still there (it may have     *)
(* been dropped on stop).                                                  *)
RunLook(r) ==
  /\ runs[r].pc = "look"
  /\ runs' = [runs EXCEPT ![r] = IF Current(@.gen) /\ ~sched
                                 THEN [@ EXCEPT !.pc = "ensure"] ELSE Idle]
  /\ UNCHANGED <<proc, present, sched, ticks, watch, alive, user, spawned, hist,
                 budget>>

(* Slip: the new scheduler is inserted without a second look at the entry. *)
RunEnsureBlind(r) ==
  /\ runs[r].pc = "ensure"
  /\ sched' = TRUE
  /\ runs' = [runs EXCEPT ![r] = Idle]
  /\ UNCHANGED <<proc, present, ticks, watch, alive, user, spawned, hist, budget>>

(* Under the lock of the map, with another look at the entry.              *)
RunEnsure(r) ==
  /\ runs[r].pc = "ensure"
  /\ sched' = (sched \/ (Current(runs[r].gen) /\ proc.status # "Stopped"))
  /\ runs' = [runs EXCEPT ![r] = Idle]
  /\ UNCHANGED <<proc, present, ticks, watch, alive, user, spawned, hist, budget>>

-----------------------------------------------------------------------------
(* The exit of a committed tree's root: finish_cron_run for a run of the   *)
(* trigger loop, the Exited branch of restart_loop for the first one.      *)

Move(w, stage) == watch' = (watch \ {w}) \cup {[w EXCEPT !.stage = stage]}

RootExit(w) ==
  /\ w.stage = "live" /\ Move(w, "exited")
  /\ UNCHANGED <<proc, present, sched, ticks, runs, alive, user, spawned, hist,
                 budget>>

(* Slip: the descendants of the exited root are left alone.                *)
FinishTerminateRootOnly(w) ==
  /\ w.stage = "exited"
  /\ IF proc.gen = w.gen
     THEN Move(w, "gone") /\ UNCHANGED <<alive, proc>>
     ELSE watch' = watch \ {w} /\ UNCHANGED <<proc, alive>>
  /\ UNCHANGED <<present, sched, ticks, runs, user, spawned, hist, budget>>

(* The retained tree is confirmed gone; a stale event ends here.           *)
FinishTerminate(w) ==
  /\ w.stage = "exited"
  /\ IF proc.gen = w.gen /\ (w.via = "loop" => proc.desired)
     THEN /\ alive' = alive \ {w.tree}
          /\ proc' = [proc EXCEPT !.tree = NoTree]
          /\ Move(w, "gone")
     ELSE watch' = watch \ {w} /\ UNCHANGED <<proc, alive>>
  /\ UNCHANGED <<present, sched, ticks, runs, user, spawned, hist, budget>>

(* It cannot be confirmed: Errored, with the tree retained.                *)
FinishStuck(w) ==
  /\ w.stage = "exited" /\ proc.gen = w.gen /\ Fault
  /\ IF proc.desired \/ w.via = "loop"
     THEN /\ proc' = [proc EXCEPT !.status = "Errored", !.desired = FALSE]
          /\ IF w.via = "run" THEN Move(w, "drop") ELSE watch' = watch \ {w}
     ELSE watch' = watch \ {w} /\ UNCHANGED proc
  /\ UNCHANGED <<present, sched, ticks, runs, alive, user, spawned, hist>>

FinishDrop(w) ==
  /\ w.stage = "drop"
  /\ sched' = FALSE /\ watch' = watch \ {w}
  /\ dropped' = (dropped \/ (sched /\ proc.status # "Errored"))
  /\ UNCHANGED <<proc, present, ticks, runs, alive, user, spawned, stopGen,
                 budget>>

(* Slip: a stop that came in between is not noticed.                       *)
FinishSleepStale(w) ==
  /\ w.stage = "gone"
  /\ proc' = [proc EXCEPT !.status = "Sleeping"]
  /\ watch' = watch \ {w}
  /\ UNCHANGED <<present, sched, ticks, runs, alive, user, spawned, hist, budget>>

FinishSleep(w) ==
  /\ w.stage = "gone"
  /\ proc' = IF Current(w.gen) THEN [proc EXCEPT !.status = "Sleeping"] ELSE proc
  /\ watch' = watch \ {w}
  /\ UNCHANGED <<present, sched, ticks, runs, alive, user, spawned, hist, budget>>

-----------------------------------------------------------------------------
(* Requests.                                                               *)

UserStep(pc) == user' = [user EXCEPT !.pc = pc]
Done == user' = IdleUser
rest == <<present, ticks, runs, watch, spawned, dropped>>

Enter(op) == CASE op = "start" -> "begin" [] op \in {"enable", "disable"} -> op
               [] OTHER -> "stop"

Request(op) ==
  /\ user.pc = "idle" /\ present /\ budget.ops < MaxOps
  /\ budget' = [budget EXCEPT !.ops = @ + 1]
  /\ user' = [IdleUser EXCEPT !.pc = Enter(op), !.op = op]
  /\ UNCHANGED <<proc, sched, alive, stopGen, rest>>

(* A delete goes on when there is nothing to stop, the others refuse.      *)
Stoppable == \/ Busy(proc.status)
             \/ proc.status = "Errored" /\ proc.tree # NoTree
             \/ proc.status = "Stopped" /\ proc.desired
Resume == CASE user.op = "restart" -> "begin" [] user.op = "delete" -> "remove"
            [] OTHER -> "idle"

StopBegin ==
  /\ user.pc = "stop"
  /\ IF Stoppable
     THEN /\ proc' = [proc EXCEPT !.desired = FALSE, !.gen = @ + 1,
                                  !.status = "Stopping"]
          /\ user' = [user EXCEPT !.pc = "kill", !.gen = proc.gen + 1,
                        !.prev = proc.status, !.prevGen = proc.gen]
     ELSE UNCHANGED proc /\ IF user.op = "disable" THEN UserStep("undo")
                            ELSE IF Resume = "idle" THEN Done ELSE UserStep(Resume)
  /\ UNCHANGED <<sched, alive, stopGen, budget, rest>>

StopKill ==
  /\ user.pc = "kill"
  /\ alive' = alive \ {proc.tree}
  /\ proc' = [proc EXCEPT !.tree = NoTree]
  /\ UserStep("unschedule")
  /\ UNCHANGED <<sched, stopGen, budget, rest>>

(* A failed stop returns to the generation and status it came from; a      *)
(* failed disable enables the entry again and schedules it anew.           *)
StopFail ==
  /\ user.pc = "kill" /\ proc.tree # NoTree /\ Fault
  /\ proc' = [proc EXCEPT !.status = user.prev, !.desired = TRUE,
                          !.gen = user.prevGen]
  /\ IF user.op = "disable" THEN UserStep("undo") ELSE Done
  /\ UNCHANGED <<sched, alive, stopGen, rest>>

ToggleUndo ==
  /\ user.pc = "undo"
  /\ proc' = [proc EXCEPT !.enabled = user.wasEnabled]
  /\ IF user.wasEnabled THEN UserStep("insert") ELSE Done
  /\ UNCHANGED <<sched, alive, stopGen, budget, rest>>

StopUnschedule ==
  /\ user.pc = "unschedule"
  /\ sched' = FALSE /\ UserStep("stopped")
  /\ UNCHANGED <<proc, alive, stopGen, budget, rest>>

StopDone ==
  /\ user.pc = "stopped"
  /\ proc' = [proc EXCEPT !.status = "Stopped", !.tree = NoTree]
  /\ stopGen' = proc.gen
  /\ IF Resume = "idle" THEN Done ELSE UserStep(Resume)
  /\ UNCHANGED <<sched, alive, budget, rest>>

Remove ==
  /\ user.pc = "remove"
  /\ sched' = FALSE /\ present' = FALSE /\ Done
  /\ UNCHANGED <<proc, alive, stopGen, budget, ticks, runs, watch, spawned,
                 dropped>>

(* do_spawn: the first run of a job is not triggered by its scheduler. The *)
(* request holds the mutation lock and every other actor is bound to an    *)
(* older generation, so none of its checks for a cancellation can fail.    *)
SpawnBegin ==
  /\ user.pc = "begin"
  /\ IF proc.enabled /\ ~Busy(proc.status) /\ proc.tree = NoTree
     THEN /\ proc' = [proc EXCEPT !.desired = TRUE, !.gen = @ + 1,
                                  !.status = "Starting"]
          /\ user' = [user EXCEPT !.pc = "exec", !.gen = proc.gen + 1]
     ELSE Done /\ UNCHANGED proc
  /\ UNCHANGED <<sched, alive, stopGen, budget, rest>>

SpawnFail ==
  /\ user.pc = "exec" /\ Fault
  /\ proc' = IF Current(user.gen) THEN Errored ELSE proc
  /\ Done
  /\ UNCHANGED <<sched, alive, stopGen, rest>>

SpawnExec ==
  /\ user.pc = "exec" /\ spawned < MaxTrees
  /\ spawned' = spawned + 1 /\ alive' = alive \cup {spawned'}
  /\ user' = [user EXCEPT !.pc = "schedule", !.child = spawned']
  /\ proc' = [proc EXCEPT !.tree = spawned']
  /\ UNCHANGED <<sched, stopGen, budget, present, ticks, runs, watch, dropped>>

(* Start (or replace) the scheduler, before the commit.                    *)
SpawnSchedule ==
  /\ user.pc = "schedule"
  /\ sched' = TRUE /\ UserStep("commit")
  /\ UNCHANGED <<proc, alive, stopGen, budget, rest>>

SpawnCommit ==
  /\ user.pc = "commit"
  /\ proc' = [proc EXCEPT !.status = "Running"]
  /\ watch' = watch \cup {[tree |-> user.child, gen |-> user.gen,
                           via |-> "loop", stage |-> "live"]}
  /\ Done
  /\ UNCHANGED <<sched, alive, stopGen, budget, present, ticks, runs, spawned,
                 dropped>>

(* set_enabled(false): only a job with a PID still has to be stopped.      *)
ToggleOff ==
  /\ user.pc = "disable"
  /\ proc' = IF proc.tree # NoTree THEN [proc EXCEPT !.enabled = FALSE]
             ELSE [proc EXCEPT !.enabled = FALSE, !.desired = FALSE,
                               !.gen = @ + 1, !.status = "Stopped"]
  /\ user' = [user EXCEPT !.pc = IF proc.tree # NoTree THEN "cancel" ELSE "cancelled",
                          !.wasEnabled = proc.enabled]
  /\ UNCHANGED <<sched, alive, stopGen, budget, rest>>

ToggleCancel ==
  /\ user.pc \in {"cancel", "cancelled"}
  /\ sched' = FALSE
  /\ IF user.pc = "cancel" THEN UserStep("stop") ELSE Done
  /\ stopGen' = IF user.pc = "cancel" THEN stopGen ELSE proc.gen
  /\ UNCHANGED <<proc, alive, budget, rest>>

(* set_enabled(true): a stopped job goes to sleep, then gets a scheduler.  *)
ToggleOn ==
  /\ user.pc = "enable"
  /\ proc' = [proc EXCEPT !.enabled = TRUE]
  /\ IF ~proc.enabled /\ proc.tree = NoTree /\ proc.status = "Stopped"
     THEN UserStep("sleep") ELSE Done
  /\ UNCHANGED <<sched, alive, stopGen, budget, rest>>

ToggleSleep ==
  /\ user.pc = "sleep"
  /\ proc' = [proc EXCEPT !.desired = TRUE, !.gen = @ + 1, !.status = "Sleeping"]
  /\ UserStep("insert")
  /\ UNCHANGED <<sched, alive, stopGen, budget, rest>>

(* A scheduler found in the map is aborted and replaced.                   *)
Insert ==
  /\ user.pc = "insert"
  /\ sched' = TRUE /\ Done
  /\ UNCHANGED <<proc, alive, stopGen, budget, rest>>

-----------------------------------------------------------------------------
RunTask(r) ==
  \/ RunClaim(r) \/ RunPrepare(r) \/ RunSpawn(r) \/ RunCommit(r)
  \/ RunAbandon(r) \/ RunDrop(r) \/ RunLook(r) \/ RunEnsure(r)

Finish(w) == FinishTerminate(w) \/ FinishDrop(w) \/ FinishSleep(w)

UserTask ==
  \/ StopBegin \/ StopKill \/ ToggleUndo \/ StopUnschedule
  \/ StopDone \/ Remove \/ SpawnBegin \/ SpawnExec \/ SpawnSchedule
  \/ SpawnCommit \/ ToggleOff \/ ToggleCancel \/ ToggleOn \/ ToggleSleep
  \/ Insert

Next ==
  \/ Tick
  \/ \E r \in Slots : Trigger(r) \/ RunTask(r) \/ RunFail(r)
  \/ \E w \in watch : RootExit(w) \/ FinishStuck(w) \/ Finish(w)
  \/ \E op \in UserOps : Request(op)
  \/ UserTask \/ StopFail \/ SpawnFail

Spec == Init /\ [][Next]_vars

(* The runtime polls every task that can move; nothing makes a root exit,  *)
(* a request arrive or a fault happen.                                     *)
FairSpec ==
  /\ Spec /\ WF_vars(UserTask)
  /\ \A r \in Slots : WF_vars(RunTask(r))
  /\ WF_vars(\E w \in watch : Finish(w))

-----------------------------------------------------------------------------
Statuses == {"Stopped", "Starting", "Running", "Stopping", "Sleeping", "Errored"}
MaybeTree == Trees \cup {NoTree}

(* Every variable keeps the type its Rust declaration gives it.            *)
TypeOK ==
  /\ proc \in [status : Statuses, desired : BOOLEAN, gen : Nat,
               enabled : BOOLEAN, tree : MaybeTree]
  /\ {present, sched, dropped} \subseteq BOOLEAN
  /\ ticks \in 0 .. MaxTicks
  /\ runs \in [Slots -> [pc : {"idle", "claim", "prepare", "spawn", "commit",
                               "drop", "look", "ensure"},
                         gen : Nat, child : MaybeTree]]
  /\ watch \subseteq [tree : Trees, gen : Nat, via : {"run", "loop"},
                      stage : {"live", "exited", "gone", "drop"}]
  /\ alive \subseteq Trees
  /\ user \in [pc : {"idle", "stop", "kill", "unschedule", "stopped", "undo",
                     "remove", "begin", "exec", "schedule", "commit",
                     "disable", "cancel", "cancelled", "enable", "sleep",
                     "insert"},
               op : UserOps \cup {"none", "restore"}, gen : Nat,
               child : MaybeTree, prev : Statuses, prevGen : Nat,
               wasEnabled : BOOLEAN]
  /\ spawned \in 0 .. MaxTrees /\ stopGen \in Nat \cup {-1}
  /\ budget \in [ops : Nat, faults : Nat, claims : Nat]

(* Children of runs that have not committed: a cancelled run kills its own.*)
Tentative == {runs[r].child : r \in Slots}

(* "Complete one Cron run only after the complete retained process tree is *)
(* confirmed gone": two runs a job has committed are never alive together. *)
NoOverlap == \A s, t \in alive \ Tentative : s = t

(* Nor does the entry sleep, ready for the next tick, while one is.        *)
SleepingIsQuiet == proc.status = "Sleeping" => alive \subseteq Tentative

(* A run claimed before a stop or a disable that was acknowledged never    *)
(* commits, however long its hook or its spawn took.                       *)
StopCancelsRuns ==
  [][\A r \in Slots : runs[r].pc = "commit" /\ runs'[r].pc = "look"
       => runs[r].gen > stopGen]_vars

(* Between requests a scheduler belongs to a job that is wanted, or to one *)
(* that has just failed; a stopped, disabled or deleted job has none, in   *)
(* spite of runs that put a missing scheduler back.  A sleeping job keeps  *)
(* its scheduler through failed stops and disables, unless a run that was  *)
(* cancelled meanwhile removed it.                                         *)
ScheduleMatches ==
  user.pc = "idle" =>
    /\ sched => present /\ (proc.desired \/ proc.status = "Errored")
    /\ proc.status = "Sleeping" => sched \/ dropped

(* A claimed run gets somewhere: the entry does not stay Starting.         *)
StartingSettles == proc.status = "Starting" ~> proc.status # "Starting"
=============================================================================
