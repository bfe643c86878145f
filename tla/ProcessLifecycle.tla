--------------------------- MODULE ProcessLifecycle ---------------------------
(***************************************************************************)
(* The lifecycle of one entry of RunDock's process registry: a             *)
(* ManagedProcess behind an Arc<RwLock<..>>, the OS process trees spawned  *)
(* for it, and every task that works on it.                                *)
(*                                                                         *)
(* Actors.  "user" is the one request that holds                           *)
(* DaemonState.state_mutation_lock; "loop" is restart_loop; Tasks are the  *)
(* tasks restart_loop spawns for Restart events.  Exit watchers and the    *)
(* retry tasks of cleanup_failed_spawn need no program counter.            *)
(*                                                                         *)
(* Granularity.  An action is one critical section of the entry's lock     *)
(* with the awaited call that leads to it; between two sections any other  *)
(* actor may run.  Entries share no lifecycle state, so one is enough.     *)
(* A tree stands for its root PID as well: PIDs are bound to a start       *)
(* identity, so a number the OS uses again is another tree.  Running also  *)
(* stands for Watching, the same state with a file watcher attached.       *)
(***************************************************************************)
EXTENDS Integers, FiniteSets

CONSTANTS
  Tasks,        \* slots for concurrent restart tasks (lifecycle_limit)
  UserOps,      \* the operations requests may ask for
  FaultKinds,   \* what may fail: spawn, cleanup (of a failed spawn), kill
                \* (of the entry's tree), wait (for another actor's kill)
  WatchMode,    \* config.watch
  MaxRestarts,  \* config.max_restarts
  MaxTrees,     \* bound: OS trees spawned
  MaxOps,       \* bound: user operations
  MaxExits,     \* bound: root processes that exit on their own
  MaxFaults,    \* bound: faults
  MaxChanges    \* bound: file changes the watcher reports

User == "user"
Loop == "loop"
Actors == {User, Loop} \cup Tasks
Trees == 1 .. MaxTrees
NoTree == 0
NoGen == -1

ASSUME TasksAssumption == User \notin Tasks /\ Loop \notin Tasks
ASSUME BoundsAssumption ==
  /\ MaxRestarts \in Nat /\ MaxTrees \in Nat /\ MaxOps \in Nat
  /\ MaxExits \in Nat /\ MaxFaults \in Nat /\ MaxChanges \in Nat
ASSUME ModesAssumption ==
  /\ WatchMode \in BOOLEAN
  /\ UserOps \subseteq {"start", "start_existing", "stop", "restart",
                        "delete", "update", "set_enabled", "reset"}
  /\ FaultKinds \subseteq {"spawn", "cleanup", "kill", "wait"}

VARIABLES
  proc,      \* the registry entry
  reg,       \* whether the registry holds it: absent, present or deleted
  spawned,   \* number of trees spawned so far
  alive,     \* trees with a live process
  exit,      \* per tree: none, or how its root exited
  genOf,     \* history: the generation each tree was spawned under
  watch,     \* watch_and_restart tasks, one per committed spawn
  events,    \* RestartEvents sent and not received
  cleaners,  \* retry tasks of cleanup_failed_spawn
  pc,        \* where each actor stands
  loc,       \* its local variables
  budget     \* environment steps taken so far, against the Max bounds

os == <<spawned, alive, exit, genOf>>
tasks == <<watch, events, cleaners>>
vars == <<proc, reg, spawned, alive, exit, genOf, watch, events, cleaners,
          pc, loc, budget>>

-----------------------------------------------------------------------------
(* The entry and the actors' local state.                                  *)

Statuses == {"Stopped", "Starting", "Running", "Stopping", "Errored"}

NewEntry == [status |-> "Stopped", desired |-> FALSE, gen |-> 0,
             pid |-> NoTree, identity |-> FALSE, tree |-> NoTree,
             cleaning |-> FALSE, enabled |-> TRUE, restarts |-> 0]

Fresh == [op |-> "none", gen |-> NoGen, expect |-> NoGen, prev |-> "Stopped",
          prevGen |-> NoGen, hold |-> NoTree, guard |-> FALSE,
          owned |-> NoTree, child |-> NoTree, identity |-> FALSE, count |-> 0]

Init ==
  /\ proc = NewEntry
  /\ reg \in {"absent", "present"}
  /\ spawned = 0 /\ alive = {}
  /\ exit = [t \in Trees |-> "none"]
  /\ genOf = [t \in Trees |-> NoGen]
  /\ watch = {} /\ events = {} /\ cleaners = {}
  /\ pc = [a \in Actors |-> "idle"]
  /\ loc = [a \in Actors |-> Fresh]
  /\ budget = [ops |-> 0, exits |-> 0, faults |-> 0, changes |-> 0]

(* Actor a moves to p with local state l; an actor that is done keeps none. *)
Step(a, p, l) ==
  /\ pc' = [pc EXCEPT ![a] = p]
  /\ loc' = [loc EXCEPT ![a] = IF p = "idle" THEN Fresh ELSE l]

Goto(a, p) == Step(a, p, loc[a])

Spend(kind, bound) ==
  /\ budget[kind] < bound
  /\ budget' = [budget EXCEPT ![kind] = @ + 1]

Fault(kind) == kind \in FaultKinds /\ Spend("faults", MaxFaults)

(* The OS confirms that nothing of tree t is left.                         *)
Terminated(t) ==
  /\ alive' = alive \ {t}
  /\ exit' = [exit EXCEPT ![t] = IF @ = "none" THEN "crash" ELSE @]

Forgotten(p) == [p EXCEPT !.pid = NoTree, !.identity = FALSE]
Cleared(p)   == [Forgotten(p) EXCEPT !.tree = NoTree]

Active(p)    == p.status \in {"Starting", "Stopping", "Running"}
Retained(p)  == \/ p.status = "Errored" /\ p.pid # NoTree
                \/ p.status = "Stopped" /\ p.desired
Current(p, g) == p.enabled /\ p.gen = g /\ p.desired

-----------------------------------------------------------------------------
(* terminate_retained_process_tree(arc, generation), called by any actor.  *)

Terminating(a) == pc[a] = "term"

(* Where the caller resumes when the call returned Ok, or Err.             *)
TermOk(a)  == IF a = User THEN "stopOk" ELSE IF a = Loop THEN "exitOk"
              ELSE "clear"
(* Slip: a restart task respawns although the old tree was not terminated. *)
TermErrIgnored(a) == IF a = User THEN "stopErr"
                     ELSE IF a = Loop THEN "exitErr" ELSE "clear"

TermErr(a) == IF a = User THEN "stopErr" ELSE IF a = Loop THEN "exitErr"
              ELSE "restore"

(* Another cleanup is in progress and outlasts the 240 waits of 25 ms.     *)
TermTimeout(a) ==
  /\ Terminating(a) /\ proc.cleaning
  /\ Fault("wait") /\ Goto(a, TermErr(a))
  /\ UNCHANGED <<proc, reg, os, tasks>>

(* A newer lifecycle, nothing to clean up, or a PID nobody can verify.     *)
TermReturn(a) ==
  /\ Terminating(a) /\ ~proc.cleaning
  /\ \/ proc.gen # loc[a].gen /\ Goto(a, TermErr(a))
     \/ /\ proc.gen = loc[a].gen /\ proc.tree = NoTree
        /\ \/ proc.pid = NoTree /\ Goto(a, TermOk(a))
           \/ proc.pid # NoTree /\ ~proc.identity /\ Goto(a, TermErr(a))
  /\ UNCHANGED <<proc, reg, os, tasks, budget>>

(* Slip: the generation is not looked at again under the lock.             *)
TermTakeStale(a) ==
  /\ Terminating(a) /\ ~proc.cleaning
  /\ LET guard == proc.tree # NoTree
     IN /\ guard \/ (proc.pid # NoTree /\ proc.identity)
        /\ proc' = [proc EXCEPT !.tree = NoTree, !.cleaning = TRUE]
        /\ Step(a, "kill",
                [loc[a] EXCEPT !.guard = guard, !.owned = proc.pid,
                               !.hold = IF guard THEN proc.tree ELSE proc.pid])
  /\ UNCHANGED <<reg, os, tasks, budget>>

(* Takes the guard out of the entry, or falls back to PID and identity.    *)
TermTake(a) ==
  /\ Terminating(a) /\ ~proc.cleaning /\ proc.gen = loc[a].gen
  /\ LET guard == proc.tree # NoTree
     IN /\ guard \/ (proc.pid # NoTree /\ proc.identity)
        /\ proc' = [proc EXCEPT !.tree = NoTree, !.cleaning = TRUE]
        /\ Step(a, "kill",
                [loc[a] EXCEPT !.guard = guard, !.owned = proc.pid,
                               !.hold = IF guard THEN proc.tree ELSE proc.pid])
  /\ UNCHANGED <<reg, os, tasks, budget>>

(* The entry still describes the tree the actor took.                      *)
StillOwned(a) == proc.tree = NoTree /\ proc.pid = loc[a].owned

(* Slip: an early return that skips the reset of the in-progress flag.     *)
KillOkFlagged(a) ==
  /\ pc[a] = "kill"
  /\ Terminated(loc[a].hold)
  /\ proc' = IF StillOwned(a) THEN Forgotten(proc) ELSE proc
  /\ Step(a, TermOk(a), [loc[a] EXCEPT !.hold = NoTree, !.guard = FALSE])
  /\ UNCHANGED <<reg, spawned, genOf, tasks, budget>>

KillOk(a) ==
  /\ pc[a] = "kill"
  /\ Terminated(loc[a].hold)
  /\ LET done == [proc EXCEPT !.cleaning = FALSE]
     IN proc' = IF StillOwned(a) THEN Forgotten(done) ELSE done
  /\ Step(a, TermOk(a), [loc[a] EXCEPT !.hold = NoTree, !.guard = FALSE])
  /\ UNCHANGED <<reg, spawned, genOf, tasks, budget>>

(* Slip: the error path leaves the in-progress flag set.                   *)
KillFailFlagged(a) ==
  /\ pc[a] = "kill"
  /\ Fault("kill")
  /\ proc' = [proc EXCEPT
                !.tree = IF loc[a].guard /\ StillOwned(a) THEN loc[a].hold ELSE @]
  /\ Step(a, TermErr(a), [loc[a] EXCEPT !.hold = NoTree, !.guard = FALSE])
  /\ UNCHANGED <<reg, os, tasks>>

(* A guard the entry cannot take back is dropped, which kills nothing      *)
(* (preserve_on_drop).                                                     *)
KillFail(a) ==
  /\ pc[a] = "kill"
  /\ Fault("kill")
  /\ proc' = [proc EXCEPT !.cleaning = FALSE,
                !.tree = IF loc[a].guard /\ StillOwned(a) THEN loc[a].hold ELSE @]
  /\ Step(a, TermErr(a), [loc[a] EXCEPT !.hold = NoTree, !.guard = FALSE])
  /\ UNCHANGED <<reg, os, tasks>>

-----------------------------------------------------------------------------
(* ProcessManager::stop, run by the user operation.                        *)

AfterStop(op) == CASE op = "restart" -> "check"
                   [] op = "delete"  -> "remove"
                   [] op = "update"  -> "patch"
                   [] OTHER          -> "idle"

StopRefused ==
  /\ pc[User] = "stop" /\ ~(Active(proc) \/ Retained(proc))
  /\ Goto(User, "idle")
  /\ UNCHANGED <<proc, reg, os, tasks, budget>>

StopBegin ==
  /\ pc[User] = "stop" /\ (Active(proc) \/ Retained(proc))
  /\ proc' = [proc EXCEPT !.desired = FALSE, !.gen = @ + 1,
                          !.status = "Stopping"]
  /\ Step(User, "term", [loc[User] EXCEPT !.gen = proc.gen + 1,
                           !.prev = proc.status, !.prevGen = proc.gen])
  /\ UNCHANGED <<reg, os, tasks, budget>>

(* Slip: a failed stop does not want the process running again.            *)
StopErrUndesired ==
  /\ pc[User] = "stopErr"
  /\ proc' = IF proc.gen # loc[User].gen THEN proc
             ELSE [proc EXCEPT !.status = loc[User].prev,
                               !.gen = loc[User].prevGen]
  /\ Goto(User, "idle")
  /\ UNCHANGED <<reg, os, tasks, budget>>

(* Slip: a failed stop returns one generation too far.                     *)
StopErrRewound ==
  /\ pc[User] = "stopErr"
  /\ proc' = IF proc.gen # loc[User].gen THEN proc
             ELSE [proc EXCEPT !.status = loc[User].prev, !.desired = TRUE,
                               !.gen = IF @ < 2 THEN 0 ELSE @ - 2]
  /\ Goto(User, "idle")
  /\ UNCHANGED <<reg, os, tasks, budget>>

StopErr ==
  /\ pc[User] = "stopErr"
  /\ proc' = IF proc.gen # loc[User].gen THEN proc
             ELSE [proc EXCEPT !.status = loc[User].prev, !.desired = TRUE,
                               !.gen = loc[User].prevGen]
  /\ Goto(User, "idle")
  /\ UNCHANGED <<reg, os, tasks, budget>>

StopOk ==
  /\ pc[User] = "stopOk"
  /\ proc' = IF proc.gen # loc[User].gen THEN proc
             ELSE [Cleared(proc) EXCEPT !.status = "Stopped"]
  /\ Goto(User, AfterStop(loc[User].op))
  /\ UNCHANGED <<reg, os, tasks, budget>>

-----------------------------------------------------------------------------
(* do_spawn_with_event, run by the user operation (no expected generation) *)
(* and by restart tasks (the generation of the event they serve).          *)

Spawners == {User} \cup Tasks

SpawnOk(a) == IF a = User /\ loc[a].op = "restart" THEN "bump" ELSE "idle"
SpawnErr(a) == IF a # User THEN "failed"
               ELSE CASE loc[a].op = "start"  -> "unstart"
                      [] loc[a].op = "update" -> "rollback"
                      [] OTHER                -> "idle"

(* get_arc and the checks under the read lock.                             *)
SpawnCheck(a) ==
  /\ pc[a] = "check"
  /\ Goto(a, IF /\ reg = "present" /\ proc.enabled
                /\ loc[a].expect # NoGen \/ ~(Active(proc) \/ proc.pid # NoTree)
             THEN "begin" ELSE SpawnErr(a))
  /\ UNCHANGED <<proc, reg, os, tasks, budget>>

SpawnAllowed(a) ==
  /\ proc.enabled
  /\ loc[a].expect # NoGen => (proc.desired /\ proc.gen = loc[a].expect)

(* Slip: a restart reuses the generation of the event it serves.           *)
SpawnBeginReused(a) ==
  /\ pc[a] = "begin" /\ SpawnAllowed(a)
  /\ LET g == IF loc[a].expect = NoGen THEN proc.gen + 1 ELSE proc.gen
     IN /\ proc' = [proc EXCEPT !.gen = g, !.status = "Starting",
                               !.desired = @ \/ loc[a].expect = NoGen]
        /\ Step(a, "exec", [loc[a] EXCEPT !.gen = g])
  /\ UNCHANGED <<reg, os, tasks, budget>>

SpawnBegin(a) ==
  /\ pc[a] = "begin" /\ SpawnAllowed(a)
  /\ proc' = [proc EXCEPT !.gen = @ + 1, !.status = "Starting",
                          !.desired = @ \/ loc[a].expect = NoGen]
  /\ Step(a, "exec", [loc[a] EXCEPT !.gen = proc.gen + 1])
  /\ UNCHANGED <<reg, os, tasks, budget>>

(* Cancelled by a newer request, or the log files cannot be opened.        *)
SpawnRefused(a) ==
  /\ pc[a] = "begin"
  /\ \/ ~SpawnAllowed(a) /\ UNCHANGED budget
     \/ SpawnAllowed(a) /\ Fault("spawn")
  /\ Goto(a, SpawnErr(a))
  /\ UNCHANGED <<proc, reg, os, tasks>>

(* Slip: a spawn that fails returns its error without marking the entry.   *)
SpawnExecFailQuiet(a) ==
  /\ pc[a] = "exec" /\ Fault("spawn") /\ Goto(a, SpawnErr(a))
  /\ UNCHANGED <<proc, reg, os, tasks>>

(* pre_start, the environment file or the OS spawn fails:                  *)
(* mark_errored_if_current.                                                *)
SpawnExecFail(a) ==
  /\ pc[a] = "exec" /\ Fault("spawn")
  /\ proc' = IF proc.gen # loc[a].gen \/ ~proc.desired THEN proc
             ELSE [Cleared(proc) EXCEPT !.status = "Errored",
                                        !.desired = FALSE, !.gen = @ + 1]
  /\ Goto(a, SpawnErr(a))
  /\ UNCHANGED <<reg, os, tasks>>

SpawnExec(a) ==
  /\ pc[a] = "exec" /\ spawned < MaxTrees
  /\ LET t == spawned + 1
     IN /\ spawned' = t /\ alive' = alive \cup {t}
        /\ genOf' = [genOf EXCEPT ![t] = loc[a].gen]
        /\ Step(a, "identify", [loc[a] EXCEPT !.child = t])
  /\ UNCHANGED <<proc, reg, exit, tasks, budget>>

(* capture_process_identity_with_retry, then preserve_process_tree.        *)
SpawnIdentify(a) ==
  /\ pc[a] = "identify"
  /\ \/ Step(a, "pid", [loc[a] EXCEPT !.identity = TRUE]) /\ UNCHANGED budget
     \/ \E known \in BOOLEAN :
          Fault("spawn") /\ Step(a, "abandon", [loc[a] EXCEPT !.identity = known])
  /\ UNCHANGED <<proc, reg, os, tasks>>

SpawnPid(a) ==
  /\ pc[a] = "pid"
  /\ IF Current(proc, loc[a].gen)
     THEN /\ proc' = [proc EXCEPT !.pid = loc[a].child, !.identity = TRUE]
          /\ Goto(a, "attach")
     ELSE UNCHANGED proc /\ Goto(a, "abandon")
  /\ UNCHANGED <<reg, os, tasks, budget>>

(* Captures restart_count for the RestartPolicy, then attaches the health  *)
(* probe and the file watcher.                                             *)
SpawnAttach(a) ==
  /\ pc[a] = "attach"
  /\ \/ /\ Step(a, IF Current(proc, loc[a].gen) THEN "commit" ELSE "abandon",
                [loc[a] EXCEPT !.count = proc.restarts])
        /\ UNCHANGED budget
     \/ WatchMode /\ Fault("spawn") /\ Goto(a, "abandon")
  /\ UNCHANGED <<proc, reg, os, tasks>>

(* Only a commit makes the tree the entry's and starts its exit watcher.   *)
SpawnCommit(a) ==
  /\ pc[a] = "commit" /\ Current(proc, loc[a].gen)
  /\ proc' = [proc EXCEPT !.status = "Running", !.tree = loc[a].child]
  /\ watch' = watch \cup {[tree |-> loc[a].child, gen |-> loc[a].gen,
                           count |-> loc[a].count]}
  /\ Step(a, SpawnOk(a), [loc[a] EXCEPT !.child = NoTree])
  /\ UNCHANGED <<reg, os, events, cleaners, budget>>

SpawnCancelled(a) ==
  /\ pc[a] = "commit" /\ ~Current(proc, loc[a].gen)
  /\ Goto(a, "abandon")
  /\ UNCHANGED <<proc, reg, os, tasks, budget>>

(* cleanup_failed_spawn: the entry after it, when it still is this         *)
(* spawn's, keeps the PID only of a child that survived.                   *)
Abandoned(a, pid) ==
  IF proc.gen # loc[a].gen THEN proc
  ELSE [proc EXCEPT !.status = "Errored", !.desired = FALSE, !.gen = @ + 1,
          !.pid = pid, !.identity = pid # NoTree /\ loc[a].identity]

AbandonOk(a) ==
  /\ pc[a] = "abandon"
  /\ Terminated(loc[a].child)
  /\ proc' = Abandoned(a, NoTree)
  /\ Step(a, SpawnErr(a), [loc[a] EXCEPT !.child = NoTree, !.identity = FALSE])
  /\ UNCHANGED <<reg, spawned, genOf, tasks, budget>>

(* Slip: nobody keeps retrying to terminate the child.                     *)
AbandonFailLost(a) ==
  /\ pc[a] = "abandon"
  /\ Fault("cleanup")
  /\ proc' = Abandoned(a, loc[a].child)
  /\ Step(a, SpawnErr(a), [loc[a] EXCEPT !.child = NoTree, !.identity = FALSE])
  /\ UNCHANGED <<reg, os, tasks>>

AbandonFail(a) ==
  /\ pc[a] = "abandon"
  /\ Fault("cleanup")
  /\ proc' = Abandoned(a, loc[a].child)
  /\ cleaners' = cleaners \cup
       {[tree |-> loc[a].child,
         retained |-> IF proc.gen = loc[a].gen THEN proc.gen + 1 ELSE NoGen]}
  /\ Step(a, SpawnErr(a), [loc[a] EXCEPT !.child = NoTree, !.identity = FALSE])
  /\ UNCHANGED <<reg, os, watch, events>>

Spawn(a) ==
  \/ SpawnCheck(a) \/ SpawnBegin(a) \/ SpawnRefused(a)
  \/ SpawnExec(a) \/ SpawnExecFail(a) \/ SpawnIdentify(a) \/ SpawnPid(a)
  \/ SpawnAttach(a) \/ SpawnCommit(a) \/ SpawnCancelled(a)
  \/ AbandonOk(a) \/ AbandonFail(a)

(* The retry task: recaptures a missing identity, and in the end outlasts  *)
(* the child it holds.                                                     *)
Retains(c) == proc.gen = c.retained /\ proc.pid = c.tree

CleanerIdentify(c) ==
  /\ Retains(c) /\ ~proc.identity
  /\ proc' = [proc EXCEPT !.identity = TRUE]
  /\ UNCHANGED <<reg, os, tasks, pc, loc, budget>>

CleanerDone(c) ==
  /\ Terminated(c.tree)
  /\ proc' = IF Retains(c) THEN [Forgotten(proc) EXCEPT !.status = "Stopped"]
             ELSE proc
  /\ cleaners' = cleaners \ {c}
  /\ UNCHANGED <<reg, spawned, genOf, watch, events, pc, loc, budget>>

-----------------------------------------------------------------------------
(* The user operations: the first critical section of each, and the ones   *)
(* between and after stop and do_spawn.                                    *)

Request(op, p) ==
  /\ op \in UserOps /\ pc[User] = "idle"
  /\ Spend("ops", MaxOps)
  /\ Step(User, p, [Fresh EXCEPT !.op = op])

OpStart ==
  /\ reg = "absent" /\ Request("start", "check")
  /\ reg' = "present" /\ proc' = NewEntry
  /\ UNCHANGED <<os, tasks>>

(* start() forgets an entry whose first spawn left no PID behind.          *)
OpUnstart ==
  /\ pc[User] = "unstart" /\ Goto(User, "idle")
  /\ reg' = IF proc.pid = NoTree THEN "deleted" ELSE reg
  /\ UNCHANGED <<proc, os, tasks, budget>>

OpStartExisting ==
  /\ reg = "present" /\ proc.enabled /\ proc.status \in {"Stopped", "Errored"}
  /\ Request("start_existing", "check")
  /\ UNCHANGED <<proc, reg, os, tasks>>

OpStop ==
  /\ reg = "present" /\ Request("stop", "stop")
  /\ UNCHANGED <<proc, reg, os, tasks>>

OpRestart ==
  /\ reg = "present" /\ proc.enabled
  /\ Request("restart",
       IF proc.status \in {"Starting", "Running"} \/ proc.pid # NoTree
       THEN "stop" ELSE "check")
  /\ UNCHANGED <<proc, reg, os, tasks>>

(* The end of restart_internal, unless the restart was superseded.         *)
OpBump ==
  /\ pc[User] = "bump" /\ Goto(User, "idle")
  /\ proc' = IF proc.desired /\ proc.status = "Running"
             THEN [proc EXCEPT !.restarts = @ + 1] ELSE proc
  /\ UNCHANGED <<reg, os, tasks, budget>>

OpDelete ==
  /\ reg = "present"
  /\ Request("delete",
       IF proc.status \in {"Starting", "Running"} \/ Retained(proc)
       THEN "stop" ELSE "remove")
  /\ UNCHANGED <<proc, reg, os, tasks>>

OpRemove ==
  /\ pc[User] = "remove" /\ Goto(User, "idle")
  /\ reg' = "deleted"
  /\ UNCHANGED <<proc, os, tasks, budget>>

OpUpdate ==
  /\ reg = "present" /\ proc.status \notin {"Starting", "Stopping"}
  /\ Request("update",
       IF proc.status = "Running" \/ Retained(proc) THEN "stop" ELSE "idle")
  /\ UNCHANGED <<proc, reg, os, tasks>>

(* The patched configuration of a process that was active is started.      *)
OpPatch ==
  /\ pc[User] = "patch" /\ Goto(User, IF proc.enabled THEN "check" ELSE "idle")
  /\ UNCHANGED <<proc, reg, os, tasks, budget>>

(* It failed to start: the original configuration is.                      *)
OpRollback ==
  /\ pc[User] = "rollback"
  /\ Step(User, "check", [loc[User] EXCEPT !.op = "rollback"])
  /\ UNCHANGED <<proc, reg, os, tasks, budget>>

(* The route's checks, then ProcessManager::set_enabled.                   *)
OpSetEnabled ==
  /\ reg = "present" /\ proc.status \notin {"Starting", "Stopping"}
  /\ Request("set_enabled", IF proc.enabled THEN "disable" ELSE "enable")
  /\ UNCHANGED <<proc, reg, os, tasks>>

OpToggle ==
  /\ pc[User] \in {"disable", "enable"} /\ Goto(User, "idle")
  /\ proc' = IF pc[User] = "disable" /\ proc.pid = NoTree
             THEN [proc EXCEPT !.enabled = FALSE, !.desired = FALSE,
                               !.gen = @ + 1, !.status = "Stopped"]
             ELSE [proc EXCEPT !.enabled = pc[User] = "enable"]
  /\ UNCHANGED <<reg, os, tasks, budget>>

OpReset ==
  /\ reg = "present" /\ Request("reset", "idle")
  /\ proc' = [proc EXCEPT !.restarts = 0]
  /\ UNCHANGED <<reg, os, tasks>>

Requests ==
  \/ OpStart \/ OpStartExisting \/ OpStop \/ OpRestart \/ OpDelete \/ OpUpdate
  \/ OpSetEnabled \/ OpReset

UserStep ==
  \/ OpUnstart \/ OpBump \/ OpRemove \/ OpPatch \/ OpRollback \/ OpToggle
  \/ StopRefused \/ StopBegin \/ StopErr \/ StopOk

-----------------------------------------------------------------------------
(* restart_loop.  A Restart event gets a task of its own; Exited and       *)
(* MaxRestartsReached are handled inline, so later events wait.            *)

Take(e) == pc[Loop] = "idle" /\ e \in events /\ events' = events \ {e}

(* Slip: the task calls do_spawn(id), which expects no generation.         *)
LoopRestartUnbound(e) ==
  /\ e.kind = "Restart" /\ Take(e)
  /\ IF reg # "present" THEN UNCHANGED <<pc, loc>>
     ELSE \E a \in Tasks : pc[a] = "idle" /\ Step(a, "claim", [Fresh EXCEPT !.gen = e.gen])
  /\ UNCHANGED <<proc, reg, os, watch, cleaners, budget>>

LoopRestart(e) ==
  /\ e.kind = "Restart" /\ Take(e)
  /\ IF reg # "present" THEN UNCHANGED <<pc, loc>>
     ELSE \E a \in Tasks :
            /\ pc[a] = "idle"
            /\ Step(a, "claim", [Fresh EXCEPT !.gen = e.gen, !.expect = e.gen])
  /\ UNCHANGED <<proc, reg, os, watch, cleaners, budget>>

CountMatches(kind, count) == kind = "Max" => proc.restarts = count

LoopExit(e) ==
  /\ e.kind # "Restart" /\ Take(e)
  /\ IF /\ reg = "present" /\ proc.desired /\ proc.gen = e.gen
        /\ CountMatches(e.kind, e.count)
     THEN Step(Loop, "term", [Fresh EXCEPT !.op = e.kind, !.gen = e.gen,
                                           !.count = e.count])
     ELSE UNCHANGED <<pc, loc>>
  /\ UNCHANGED <<proc, reg, os, watch, cleaners, budget>>

LoopExitErr ==
  /\ pc[Loop] = "exitErr" /\ Goto(Loop, "idle")
  /\ proc' = IF proc.gen # loc[Loop].gen THEN proc
             ELSE [proc EXCEPT !.status = "Errored", !.desired = FALSE]
  /\ UNCHANGED <<reg, os, tasks, budget>>

LoopExitOk ==
  /\ pc[Loop] = "exitOk" /\ Goto(Loop, "idle")
  /\ proc' = IF \/ ~proc.desired \/ proc.gen # loc[Loop].gen
                \/ ~CountMatches(loc[Loop].op, loc[Loop].count) THEN proc
             ELSE IF loc[Loop].op = "Exited"
             THEN [Cleared(proc) EXCEPT !.status = "Stopped"]
             ELSE [Cleared(proc) EXCEPT !.status = "Errored", !.desired = FALSE]
  /\ UNCHANGED <<reg, os, tasks, budget>>

LoopNext == (\E e \in events : LoopRestart(e) \/ LoopExit(e))
            \/ LoopExitErr \/ LoopExitOk

(* The task of one Restart event: terminate the old tree, then respawn.    *)
TaskClaim(a) ==
  /\ pc[a] = "claim"
  /\ IF Current(proc, loc[a].gen) /\ proc.status # "Stopping"
     THEN /\ proc' = [proc EXCEPT !.status = "Stopping"]
          /\ Step(a, "term", [loc[a] EXCEPT !.prev = proc.status])
     ELSE UNCHANGED proc /\ Goto(a, "idle")
  /\ UNCHANGED <<reg, os, tasks, budget>>

TaskRestore(a) ==
  /\ pc[a] = "restore" /\ Goto(a, "idle")
  /\ proc' = IF proc.gen # loc[a].gen THEN proc
             ELSE [proc EXCEPT !.status = loc[a].prev]
  /\ UNCHANGED <<reg, os, tasks, budget>>

TaskClear(a) ==
  /\ pc[a] = "clear"
  /\ IF Current(proc, loc[a].gen)
     THEN /\ proc' = [Cleared(proc) EXCEPT !.restarts = @ + 1]
          /\ Goto(a, "check")
     ELSE /\ proc' = IF proc.enabled \/ proc.gen # loc[a].gen THEN proc
                     ELSE [Cleared(proc) EXCEPT !.status = "Stopped",
                                                !.desired = FALSE]
          /\ Goto(a, "idle")
  /\ UNCHANGED <<reg, os, tasks, budget>>

(* mark_respawn_failed, on the entry if the registry still has it.         *)
TaskFailed(a) ==
  /\ pc[a] = "failed" /\ Goto(a, "idle")
  /\ LET g == loc[a].expect
     IN proc' = IF reg = "present" /\ proc.desired /\ proc.gen \in {g, g + 1}
                THEN [Cleared(proc) EXCEPT !.gen = g + 1, !.status = "Errored",
                                           !.desired = FALSE]
                ELSE proc
  /\ UNCHANGED <<reg, os, tasks, budget>>

TaskNext(a) == TaskClaim(a) \/ TaskRestore(a) \/ TaskClear(a) \/ TaskFailed(a)

Terminate(a) == TermTimeout(a) \/ TermReturn(a) \/ TermTake(a)
                \/ KillOk(a) \/ KillFail(a)

-----------------------------------------------------------------------------
(* The OS, the exit watchers and the file watcher.                         *)

(* A root process exits; its descendants may outlive it.                   *)
RootExit(t) ==
  /\ t \in alive /\ exit[t] = "none"
  /\ Spend("exits", MaxExits)
  /\ \E how \in {"clean", "crash"} : exit' = [exit EXCEPT ![t] = how]
  /\ \E leftover \in BOOLEAN : alive' = IF leftover THEN alive ELSE alive \ {t}
  /\ UNCHANGED <<proc, reg, spawned, genOf, tasks, pc, loc>>

(* Slip: the event carries the count the restart would bring.              *)
ExitEventAhead(w) ==
  [kind |-> IF exit[w.tree] = "clean" THEN "Exited"
            ELSE IF w.count >= MaxRestarts THEN "Max" ELSE "Restart",
   gen |-> w.gen, count |-> w.count + 1]

(* watch_and_restart decides by the policy captured at the spawn.          *)
ExitEvent(w) ==
  [kind |-> IF exit[w.tree] = "clean" THEN "Exited"
            ELSE IF w.count >= MaxRestarts THEN "Max" ELSE "Restart",
   gen |-> w.gen, count |-> w.count]

WatchExit(w) ==
  /\ exit[w.tree] # "none"
  /\ watch' = watch \ {w} /\ events' = events \cup {ExitEvent(w)}
  /\ UNCHANGED <<proc, reg, os, cleaners, pc, loc, budget>>

(* The relay of the file watcher reads the entry's generation and sends.   *)
FileChanged ==
  /\ WatchMode /\ reg = "present" /\ proc.desired /\ proc.status = "Running"
  /\ Spend("changes", MaxChanges)
  /\ events' = events \cup {[kind |-> "Restart", gen |-> proc.gen, count |-> 0]}
  /\ UNCHANGED <<proc, reg, os, watch, cleaners, pc, loc>>

Environment == FileChanged \/ \E t \in Trees : RootExit(t)

Next ==
  \/ Requests \/ UserStep \/ LoopNext
  \/ \E a \in Spawners : Spawn(a)
  \/ \E a \in Tasks : TaskNext(a)
  \/ \E a \in Actors : Terminate(a)
  \/ \E c \in cleaners : CleanerIdentify(c) \/ CleanerDone(c)
  \/ \E w \in watch : WatchExit(w)
  \/ Environment

Spec == Init /\ [][Next]_vars

(* The runtime keeps polling every task and its timers fire; nothing says  *)
(* that a request or a file change ever comes, or that a root exits.       *)
Fairness ==
  /\ WF_vars(UserStep) /\ WF_vars(LoopNext)
  /\ \A a \in Spawners : WF_vars(Spawn(a))
  /\ \A a \in Tasks : WF_vars(TaskNext(a))
  /\ \A a \in Actors : WF_vars(Terminate(a))
  /\ \A t \in Trees : WF_vars(\E c \in cleaners : c.tree = t /\ CleanerDone(c))
  /\ \A t \in Trees : WF_vars(\E w \in watch : w.tree = t /\ WatchExit(w))

FairSpec == Spec /\ Fairness

-----------------------------------------------------------------------------
(* Properties.                                                             *)

Pcs == {"idle", "term", "kill", "stop", "stopErr", "stopOk", "exitErr",
        "exitOk", "restore", "clear", "check", "begin", "exec", "identify",
        "pid", "attach", "commit", "abandon", "failed", "unstart", "rollback",
        "bump", "remove", "patch", "disable", "enable", "claim"}
Gens == Nat \cup {NoGen}
MaybeTree == Trees \cup {NoTree}

Locals ==
  [op : UserOps \cup {"none", "rollback", "Exited", "Max"}, gen : Gens,
   expect : Gens, prev : Statuses, prevGen : Gens, hold : MaybeTree,
   guard : BOOLEAN, owned : MaybeTree, child : MaybeTree,
   identity : BOOLEAN, count : Nat]

Entries ==
  [status : Statuses, desired : BOOLEAN, gen : Nat, pid : MaybeTree,
   identity : BOOLEAN, tree : MaybeTree, cleaning : BOOLEAN,
   enabled : BOOLEAN, restarts : Nat]

EntryType == proc \in Entries /\ reg \in {"absent", "present", "deleted"}

OsType ==
  /\ spawned \in 0 .. MaxTrees /\ alive \subseteq Trees
  /\ exit \in [Trees -> {"none", "clean", "crash"}]
  /\ genOf \in [Trees -> Gens]

TasksType ==
  /\ watch \subseteq [tree : Trees, gen : Nat, count : Nat]
  /\ events \subseteq [kind : {"Exited", "Max", "Restart"}, gen : Nat, count : Nat]
  /\ cleaners \subseteq [tree : Trees, retained : Gens]

ActorsType == pc \in [Actors -> Pcs] /\ loc \in [Actors -> Locals]

BudgetType == budget \in [ops : Nat, exits : Nat, faults : Nat, changes : Nat]

(* Every variable keeps the type its Rust declaration gives it.            *)
TypeOK == EntryType /\ OsType /\ TasksType /\ ActorsType /\ BudgetType

(* process_tree_cleanup_in_progress works as a lock: it is set exactly     *)
(* while one actor terminates the tree it took, and only one does, so it   *)
(* is never left behind to make every later stop and delete time out.      *)
CleanupExclusive ==
  /\ proc.cleaning <=> \E a \in Actors : pc[a] = "kill"
  /\ \A a, b \in Actors : pc[a] = "kill" /\ pc[b] = "kill" => a = b

(* The generation names one spawn although a failed stop winds it back:    *)
(* no two trees of the entry ever ran under the same one.                  *)
SpawnsDistinct ==
  \A s, t \in 1 .. spawned : genOf[s] = genOf[t] => s = t

(* Why: every generation a spawn has taken is at most the entry's; while a *)
(* stop runs, which may fail and return to the generation it came from, at *)
(* most that one, and only the stop moves the generation.                  *)
StopRuns == pc[User] \in {"term", "kill", "stopErr", "stopOk"}
InFlight == {a \in Spawners : pc[a] = "exec"}
Ceiling == IF StopRuns THEN loc[User].prevGen ELSE proc.gen

GenerationsOrdered ==
  /\ StopRuns => /\ ~proc.desired /\ proc.gen = loc[User].gen
                 /\ proc.gen = loc[User].prevGen + 1
  /\ \A t \in 1 .. spawned : genOf[t] \in 0 .. Ceiling
  /\ \A a \in InFlight : /\ loc[a].gen \in 0 .. Ceiling
                         /\ \A t \in 1 .. spawned : genOf[t] # loc[a].gen
                         /\ \A b \in InFlight : loc[a].gen = loc[b].gen => a = b

(* A stale exit or restart event never terminates a newer spawn: what a    *)
(* background actor kills was spawned under its event's generation.        *)
KillsOwnSpawn ==
  \A a \in Actors \ {User} : pc[a] = "kill" => genOf[loc[a].hold] = loc[a].gen

Owned(t) ==
  \/ proc.tree = t \/ proc.pid = t
  \/ \E a \in Actors : loc[a].hold = t \/ loc[a].child = t
  \/ \E c \in cleaners : c.tree = t

(* No live process tree is lost: while the entry is registered, each is    *)
(* known to it, in the hands of an actor, or retried by a cleaner, through *)
(* failing spawns, failing terminations and superseded restarts alike.     *)
LiveTreesOwned == reg = "present" => \A t \in alive : Owned(t)

(* Never two committed trees alive at once: a replacement is spawned only  *)
(* after the complete old tree is confirmed gone.                          *)
Serving(t) == /\ t \in alive
              /\ \A a \in Actors : loc[a].child # t
              /\ \A c \in cleaners : c.tree # t
OneServing == \A s, t \in Trees : Serving(s) /\ Serving(t) => s = t

(* An entry shown as running is meant to run, so exits are acted on.       *)
RunningIsDesired == proc.status = "Running" => proc.desired

(* Restart and watch events must not respawn a process after a manual      *)
(* stop: between requests nothing turns desired_running on, and nothing    *)
(* is committed while it is off.                                           *)
ManualStopSticks ==
  [][pc[User] = "idle" /\ pc'[User] = "idle" /\ ~proc.desired
       => ~proc'.desired /\ watch' \subseteq watch]_vars

(* Every request ends, so the mutation lock is released: waiting for       *)
(* another actor's cleanup never becomes a deadlock.                       *)
RequestsFinish == []<>(pc[User] = "idle")

(* Starting and Stopping are passed through, never the end of the story.   *)
TransitionsSettle == []<>(proc.status \notin {"Starting", "Stopping"})

(* A crash of the committed root is acted on: its tree does not stay the   *)
(* entry's for ever.                                                       *)
CrashIsNoticed ==
  \A t \in Trees : proc.tree = t /\ exit[t] = "crash" ~> proc.tree # t

(* docs/ECOSYSTEM_CONFIG.md: max_restarts is the maximum number of restart *)
(* attempts before marking as errored.                                     *)
ExhaustedIsErrored ==
  \A t \in Trees :
    proc.tree = t /\ exit[t] = "crash" /\ proc.restarts >= MaxRestarts
      ~> proc.status = "Errored" \/ proc.tree # t

(* "Delete a process (stop + remove from registry)": when every actor has  *)
(* come to rest, nothing of a deleted process is left running.             *)
DeletedIsStopped ==
  reg = "deleted" /\ cleaners = {} /\ (\A a \in Actors : pc[a] = "idle")
    => alive = {}
=============================================================================
