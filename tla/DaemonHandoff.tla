---------------------------- MODULE DaemonHandoff ----------------------------
(***************************************************************************)
(* Daemon processes of one data directory: who owns the PID file, who      *)
(* listens on the control port, and how a restart hands both to a          *)
(* replacement that the old daemon spawned, or takes them back.            *)
(*                                                                         *)
(* A process is a number and is never used twice (the PID file pins the    *)
(* start time).  Waiting loops have deadlines: a deadline may pass at any  *)
(* time, so it needs no bound.  Timers apart, a step is what happens       *)
(* between two awaits, or between two operations on shared files.          *)
(***************************************************************************)
EXTENDS Integers, FiniteSets

CONSTANTS
  MaxProcs,     \* bound: daemon processes started
  MaxRestarts,  \* bound: restart requests
  MaxSignals,   \* bound: external shutdowns
  MaxMishaps    \* bound: failing preflights, restores, saves and releases,
                \*   and processes killed from outside, together

ASSUME HandoffAssumption ==
  MaxProcs \in Nat \ {0} /\ {MaxRestarts, MaxSignals, MaxMishaps} \subseteq Nat

Procs == 1 .. MaxProcs
None  == 0

VARIABLES
  pc,        \* per process, where it stands
  after,     \* where it goes on once it owns the PID file
  pidFile,   \* the process the PID file names
  seen,      \* the stale owner a claimer wants to remove
  moved,     \* what a claimer moved into quarantine
  port,      \* the process that listens
  parent,    \* the daemon that spawned it as a replacement
  handoff,   \* phase in its handoff file: none, prepared, ready
  child,     \* the replacement a running restart request waits for
  slot,      \* restart_attempt: the replacement that is armed
  attempt,   \* the armed replacement a daemon took from the slot
  flags,     \* shutdown_requested, restart_shutdown_requested, committed
  started,   \* processes started so far
  budget     \* restarts, signals, faults and crashes so far

vars == <<pc, after, pidFile, seen, moved, port, parent, handoff, child,
          slot, attempt, flags, started, budget>>
claims == <<seen, moved>>
spawns == <<parent, started>>
tries  == <<slot, attempt>>

Init ==
  /\ pc = [d \in Procs |-> IF d = 1 THEN "claim" ELSE "none"]
  /\ after = [d \in Procs |-> "restore"]
  /\ pidFile = None /\ port = None
  /\ seen = [d \in Procs |-> None] /\ moved = [d \in Procs |-> None]
  /\ parent = [d \in Procs |-> None]
  /\ handoff = [d \in Procs |-> "none"]
  /\ child = [d \in Procs |-> None] /\ slot = [d \in Procs |-> None]
  /\ attempt = [d \in Procs |-> None]
  /\ flags = [d \in Procs |-> [ext |-> FALSE, rst |-> FALSE, done |-> FALSE]]
  /\ started = 1
  /\ budget = [restarts |-> 0, signals |-> 0, faults |-> 0, crashes |-> 0]

Alive(d) == d # None /\ pc[d] \notin {"none", "dead"}
Spend(kind) == budget' = [budget EXCEPT ![kind] = @ + 1]
Mishap(kind) == budget.faults + budget.crashes < MaxMishaps /\ Spend(kind)
Fault == Mishap("faults")
Goto(d, p) == pc' = [pc EXCEPT ![d] = p]
Unless(d, x) == IF x = d THEN None ELSE x

-----------------------------------------------------------------------------
(* write_pid_file: create the file, or remove the one of a dead owner.     *)

ClaimCreate(d) ==
  /\ pc[d] = "claim" /\ pidFile = None
  /\ pidFile' = d /\ Goto(d, after[d])
  /\ UNCHANGED <<after, claims, port, spawns, handoff, child, tries, flags,
                 budget>>

(* Slip: an existing file is always taken for stale.                       *)
ClaimStaleBlind(d) ==
  /\ pc[d] = "claim" /\ pidFile # None
  /\ seen' = [seen EXCEPT ![d] = pidFile] /\ Goto(d, "rename")
  /\ UNCHANGED <<after, pidFile, moved, port, spawns, handoff, child, tries,
                 flags, budget>>

(* "another RunDock daemon owns PID file", or its owner is gone.           *)
ClaimStale(d) ==
  /\ pc[d] = "claim" /\ pidFile # None
  /\ IF Alive(pidFile)
     THEN Goto(d, "exit") /\ UNCHANGED seen
     ELSE seen' = [seen EXCEPT ![d] = pidFile] /\ Goto(d, "rename")
  /\ UNCHANGED <<after, pidFile, moved, port, spawns, handoff, child, tries,
                 flags, budget>>

(* The rename takes whatever is there by now.                              *)
ClaimRename(d) ==
  /\ pc[d] = "rename"
  /\ moved' = [moved EXCEPT ![d] = pidFile] /\ pidFile' = None
  /\ Goto(d, IF pidFile = None THEN "exit" ELSE "verify")
  /\ UNCHANGED <<after, seen, port, spawns, handoff, child, tries, flags,
                 budget>>

(* Slip: what was moved is deleted unread.                                 *)
ClaimVerifyBlind(d) ==
  /\ pc[d] = "verify" /\ Goto(d, "claim")
  /\ moved' = [moved EXCEPT ![d] = None]
  /\ UNCHANGED <<after, pidFile, seen, port, spawns, handoff, child, tries,
                 flags, budget>>

(* Somebody else's file is put back, or preserved in the quarantine if     *)
(* another file took its place meanwhile.                                  *)
ClaimVerify(d) ==
  /\ pc[d] = "verify"
  /\ Goto(d, IF moved[d] = seen[d] THEN "claim" ELSE "exit")
  /\ LET back == moved[d] # seen[d] /\ pidFile = None
         gone == moved[d] = seen[d] \/ pidFile = None
     IN  /\ pidFile' = IF back THEN moved[d] ELSE pidFile
         /\ moved' = IF gone THEN [moved EXCEPT ![d] = None] ELSE moved
  /\ seen' = [seen EXCEPT ![d] = None]
  /\ UNCHANGED <<after, port, spawns, handoff, child, tries, flags,
                 budget>>

-----------------------------------------------------------------------------
(* From a start to a listening server.                                     *)

(* ensure_daemon: the CLI or the desktop shell finds nobody listening.     *)
Start ==
  /\ port = None /\ started < MaxProcs
  /\ started' = started + 1 /\ Goto(started', "claim")
  /\ UNCHANGED <<after, pidFile, claims, port, parent, handoff, child, tries,
                 flags, budget>>

(* A replacement proves that it can load everything, then waits.           *)
Prepare(d) ==
  /\ pc[d] = "prepare"
  /\ \/ handoff' = [handoff EXCEPT ![d] = "prepared"] /\ Goto(d, "waitPort")
        /\ UNCHANGED budget
     \/ Fault /\ Goto(d, "exit") /\ UNCHANGED handoff
  /\ UNCHANGED <<after, pidFile, claims, port, spawns, child, tries, flags>>

WaitPort(d) ==
  /\ pc[d] = "waitPort" /\ port = None
  /\ Goto(d, "waitPid")
  /\ UNCHANGED <<after, pidFile, claims, port, spawns, handoff, child, tries,
                 flags, budget>>

WaitPid(d) ==
  /\ pc[d] = "waitPid" /\ ~Alive(pidFile)
  /\ Goto(d, "claim")
  /\ UNCHANGED <<after, pidFile, claims, port, spawns, handoff, child, tries,
                 flags, budget>>

GiveUp(d) ==
  /\ pc[d] \in {"waitPort", "waitPid"}
  /\ Goto(d, "exit")
  /\ UNCHANGED <<after, pidFile, claims, port, spawns, handoff, child, tries,
                 flags, budget>>

(* Recover, load, restore and save; the signal handler is registered last. *)
Restore(d) ==
  /\ pc[d] = "restore"
  /\ \/ Goto(d, "bind") /\ UNCHANGED budget
     \/ Fault /\ Goto(d, "exit")
  /\ UNCHANGED <<after, pidFile, claims, port, spawns, handoff, child, tries,
                 flags>>

(* The listener, then the second phase of the handoff.  A port in use ends *)
(* the daemon after one more save.                                         *)
Bind(d) ==
  /\ pc[d] = "bind"
  /\ IF port = None
     THEN /\ port' = d /\ Goto(d, "serve")
          /\ handoff' = [handoff EXCEPT
                           ![d] = IF parent[d] = None THEN @ ELSE "ready"]
     ELSE Goto(d, "exit") /\ UNCHANGED <<port, handoff>>
  /\ UNCHANGED <<after, pidFile, claims, spawns, child, tries, flags, budget>>

-----------------------------------------------------------------------------
(* The restart request, which holds the mutation lock, and signals.  The   *)
(* lock is first come, first served: an accepted request gets it after the *)
(* listener is closed, but before the final save that queues for it later. *)

RestartBegin(d) ==
  /\ pc[d] \in {"serve", "save"} /\ child[d] = None
  /\ started < MaxProcs /\ budget.restarts < MaxRestarts /\ Spend("restarts")
  /\ started' = started + 1
  /\ pc' = [pc EXCEPT ![started'] = "prepare"]
  /\ parent' = [parent EXCEPT ![started'] = d]
  /\ child' = [child EXCEPT ![d] = started']
  /\ UNCHANGED <<after, pidFile, claims, port, handoff, tries, flags>>

(* arm_restart: a second restart loses its replacement.                    *)
RestartArm(d) ==
  /\ Alive(d) /\ Alive(child[d])
  /\ handoff[child[d]] = "prepared"
  /\ child' = [child EXCEPT ![d] = None]
  /\ IF slot[d] = None
     THEN /\ slot' = [slot EXCEPT ![d] = child[d]]
          /\ flags' = [flags EXCEPT ![d].rst = TRUE, ![d].done = FALSE]
          /\ UNCHANGED pc
     ELSE /\ Goto(child[d], "dead")
          /\ flags' = [flags EXCEPT ![d].done = FALSE] /\ UNCHANGED slot
  /\ UNCHANGED <<after, pidFile, claims, port, spawns, handoff, attempt, budget>>

(* The replacement died or did not acknowledge in time: it is terminated.  *)
RestartFail(d) ==
  /\ Alive(d) /\ child[d] # None
  /\ Goto(child[d], "dead") /\ port' = Unless(child[d], port)
  /\ child' = [child EXCEPT ![d] = None]
  /\ UNCHANGED <<after, pidFile, claims, spawns, handoff, tries, flags, budget>>

(* SIGTERM, Ctrl-C or POST /system/shutdown; after the commit it comes too *)
(* late to change anything.                                                *)
Signal(d) ==
  /\ pc[d] \in {"bind", "serve", "save", "release", "await", "commit", "cancel"}
  /\ ~flags[d].ext /\ budget.signals < MaxSignals /\ Spend("signals")
  /\ flags' = [flags EXCEPT ![d].ext = TRUE]
  /\ UNCHANGED <<pc, after, pidFile, claims, port, spawns, handoff, child,
                 tries>>

-----------------------------------------------------------------------------
(* From a listening server to the end of the process, or back.             *)

(* The server and the Telegram poller stop.                                *)
Drain(d) ==
  /\ pc[d] = "serve" /\ (flags[d].ext \/ flags[d].rst)
  /\ port' = None /\ Goto(d, "save")
  /\ UNCHANGED <<after, pidFile, claims, spawns, handoff, child, tries, flags,
                 budget>>

(* take_restart_attempt, then go to the first place with one, or the second*)
TakeAttempt(d, armed, unarmed) ==
  /\ attempt' = [attempt EXCEPT ![d] = slot[d]]
  /\ slot' = [slot EXCEPT ![d] = None]
  /\ Goto(d, IF slot[d] = None THEN unarmed ELSE armed)

(* The final snapshot needs the mutation lock.                             *)
FinalSave(d) ==
  /\ pc[d] = "save" /\ child[d] = None
  /\ TakeAttempt(d, "release", "exit")
  /\ UNCHANGED <<after, pidFile, claims, port, spawns, handoff, child, flags,
                 budget>>

(* It fails, or a restart request that holds the lock outlasts its five    *)
(* seconds.  Without an armed replacement the daemon ends with an error.   *)
FinalSaveFail(d) ==
  /\ pc[d] = "save" /\ ((child[d] # None /\ UNCHANGED budget) \/ Fault)
  /\ TakeAttempt(d, "cancel", "exit")
  /\ after' = [after EXCEPT ![d] = "resume"]
  /\ UNCHANGED <<pidFile, claims, port, spawns, handoff, child, flags>>

(* release_with_retry; a missing file counts as released.                  *)
Release(d) ==
  /\ pc[d] = "release"
  /\ \/ pidFile \in {d, None} /\ pidFile' = None /\ Goto(d, "await")
        /\ UNCHANGED <<after, budget>>
     \/ /\ IF pidFile \in {d, None} THEN Fault ELSE UNCHANGED budget
        /\ Goto(d, "cancel") /\ after' = [after EXCEPT ![d] = "resume"]
        /\ UNCHANGED pidFile
  /\ UNCHANGED <<claims, port, spawns, handoff, child, tries, flags>>

(* wait_for_replacement_ready: ready and answering, with no shutdown asked *)
(* for in between; otherwise, or when the deadline passes, it is an error. *)
AwaitReady(d) ==
  /\ pc[d] = "await"
  /\ Alive(attempt[d]) /\ handoff[attempt[d]] = "ready" /\ port # None
  /\ ~flags[d].ext
  /\ Goto(d, "commit")
  /\ UNCHANGED <<after, pidFile, claims, port, spawns, handoff, child, tries,
                 flags, budget>>

AwaitFail(d) ==
  /\ pc[d] = "await"
  /\ Goto(d, "cancel") /\ after' = [after EXCEPT ![d] = "resume"]
  /\ UNCHANGED <<pidFile, claims, port, spawns, handoff, child, tries, flags,
                 budget>>

(* Slip: the handoff is committed without another look at the shutdown.    *)
CommitBlind(d) ==
  /\ pc[d] = "commit"
  /\ flags' = [flags EXCEPT ![d].done = TRUE] /\ Goto(d, "exit")
  /\ attempt' = [attempt EXCEPT ![d] = None]
  /\ UNCHANGED <<after, pidFile, claims, port, spawns, handoff, child, slot,
                 budget>>

(* The linearization point: under the coordination lock, an external       *)
(* shutdown recorded before wins.                                          *)
Commit(d) ==
  /\ pc[d] = "commit"
  /\ IF flags[d].ext
     THEN /\ Goto(d, "cancel") /\ after' = [after EXCEPT ![d] = "exit"]
          /\ UNCHANGED <<flags, tries>>
     ELSE /\ flags' = [flags EXCEPT ![d].done = TRUE] /\ Goto(d, "exit")
          /\ attempt' = [attempt EXCEPT ![d] = None] /\ UNCHANGED after
  /\ UNCHANGED <<pidFile, claims, port, spawns, handoff, child, slot,
                 budget>>

(* Slip: the old daemon resumes beside the replacement it gave up on.      *)
CancelAlive(d) ==
  /\ pc[d] = "cancel"
  /\ attempt' = [attempt EXCEPT ![d] = None]
  /\ Goto(d, IF pidFile = d THEN after[d] ELSE "claim")
  /\ UNCHANGED <<after, pidFile, claims, port, spawns, handoff, child, slot, flags,
                 budget>>

(* stop_replacement, then the PID file again: still ours, or claimed anew. *)
Cancel(d) ==
  /\ pc[d] = "cancel"
  /\ pc' = [pc EXCEPT ![attempt[d]] = "dead",
                      ![d] = IF pidFile = d THEN after[d] ELSE "claim"]
  /\ port' = Unless(attempt[d], port)
  /\ attempt' = [attempt EXCEPT ![d] = None]
  /\ UNCHANGED <<after, pidFile, claims, spawns, handoff, child, slot, flags,
                 budget>>

(* Slip: the request to stop for the restart outlives it.                  *)
ResumeForgetful(d) ==
  /\ pc[d] = "resume"
  /\ Goto(d, IF flags[d].ext THEN "exit" ELSE "bind")
  /\ UNCHANGED <<after, pidFile, claims, port, spawns, handoff, child, tries,
                 flags, budget>>

(* resume_after_failed_restart.                                            *)
Resume(d) ==
  /\ pc[d] = "resume"
  /\ flags' = [flags EXCEPT ![d].rst = FALSE, ![d].done = FALSE]
  /\ Goto(d, IF flags[d].ext THEN "exit" ELSE "bind")
  /\ UNCHANGED <<after, pidFile, claims, port, spawns, handoff, child, tries,
                 budget>>

(* The PID file is released if it is still ours.                           *)
Exit(d) ==
  /\ pc[d] = "exit"
  /\ Goto(d, "dead") /\ pidFile' = Unless(d, pidFile)
  /\ UNCHANGED <<after, claims, port, spawns, handoff, child, tries, flags,
                 budget>>

(* SIGKILL, or a starter that terminates the daemon it gave up on.         *)
Crash(d) ==
  /\ Alive(d) /\ Mishap("crashes")
  /\ Goto(d, "dead") /\ port' = Unless(d, port)
  /\ UNCHANGED <<after, pidFile, claims, spawns, handoff, child, tries, flags>>

-----------------------------------------------------------------------------
Progress(d) ==
  \/ ClaimCreate(d) \/ ClaimStale(d) \/ ClaimRename(d) \/ ClaimVerify(d)
  \/ Prepare(d) \/ WaitPort(d) \/ WaitPid(d) \/ GiveUp(d) \/ Restore(d)
  \/ Bind(d) \/ Drain(d) \/ FinalSave(d) \/ Release(d) \/ AwaitReady(d)
  \/ AwaitFail(d) \/ Commit(d) \/ Cancel(d) \/ Resume(d) \/ Exit(d)
Handler(d) == RestartArm(d) \/ RestartFail(d)

Next ==
  \/ Start
  \/ \E d \in Procs : \/ Progress(d) \/ Handler(d) \/ FinalSaveFail(d)
                      \/ RestartBegin(d) \/ Signal(d) \/ Crash(d)

Spec == Init /\ [][Next]_vars

-----------------------------------------------------------------------------
MaybeProc == Procs \cup {None}

(* Every variable keeps its type.                                          *)
TypeOK ==
  /\ pc \in [Procs -> {"none", "dead", "claim", "rename", "verify", "prepare",
                       "waitPort", "waitPid", "restore", "bind", "serve",
                       "save", "release", "await", "commit", "cancel",
                       "resume", "exit"}]
  /\ after \in [Procs -> {"restore", "resume", "exit"}]
  /\ {pidFile, port} \subseteq MaybeProc
  /\ {seen, moved, parent, child, slot, attempt} \subseteq [Procs -> MaybeProc]
  /\ handoff \in [Procs -> {"none", "prepared", "ready"}]
  /\ flags \in [Procs -> [ext : BOOLEAN, rst : BOOLEAN, done : BOOLEAN]]
  /\ started \in Procs
  /\ budget \in [restarts : Nat, signals : Nat, faults : Nat, crashes : Nat]

(* Processes that read and write the state files: from the restore to the  *)
(* final snapshot.                                                         *)
Owning == {"restore", "bind", "serve", "save"}

(* Live owners whose file a third claimer holds in quarantine: it renamed  *)
(* the file that replaced the stale one it had looked at.                  *)
Displaced == {d \in Procs : \E c \in Procs : moved[c] = d /\ Alive(d)}

(* "prevents duplicate daemon instances": two processes never work on the  *)
(* same state, through stale PID files, races to remove one, restarts,     *)
(* restarts taken back and daemons started in between.                     *)
OneOwner ==
  \A d, e \in Procs :
    pc[d] \in Owning /\ pc[e] \in Owning /\ d # e => Displaced \cap {d, e} # {}

(* The daemon that listens is the one the PID file names.                  *)
ListenerOwnsPid == port # None /\ port \notin Displaced => pidFile = port

(* No replacement outlives the restart it was spawned for: when its daemon *)
(* serves, it is the one being prepared or the one armed.                  *)
NoStrayReplacement ==
  \A d, n \in Procs : parent[n] = d /\ Alive(n) /\ pc[d] = "serve"
                        => n \in {child[d], slot[d]}

(* "A concurrent hot restart must not hand service to its replacement": an *)
(* external shutdown recorded before the handoff is committed ends both    *)
(* daemons; only a restart request that still waits for its replacement    *)
(* when its daemon exits, a daemon that is itself taken back by its parent *)
(* in the middle of a restart, or a crash, leaves one on its own.          *)
ShutdownSticks ==
  \A d, n \in Procs :
    flags[d].ext /\ pc[d] = "dead" /\ parent[n] = d /\ Alive(n)
      => budget.crashes > 0 \/ n \in {child[d], slot[d], attempt[d]}

(* A single restart, whether it succeeds or is taken back, ends with a     *)
(* daemon that listens, even if one step of it fails, unless a shutdown    *)
(* was asked for, a daemon was killed, or somebody else's start got hold   *)
(* of the PID file in between and ended.                                   *)
ServiceReturns ==
  /\ budget.restarts = 1 /\ \A d \in Procs : pc[d] \in {"none", "dead", "serve"}
  /\ budget.crashes = 0 /\ \A d \in Procs : ~flags[d].ext
  => port # None \/ \E n \in Procs \ {1} : parent[n] = None /\ pc[n] = "dead"
=============================================================================
