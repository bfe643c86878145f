---------------------------- MODULE MutationCommit ----------------------------
(***************************************************************************)
(* The requests that change managed processes - API routes, bulk routes,   *)
(* project routes, Telegram commands - as transactions: take the mutation  *)
(* lock, change the manager, save, and on a failed save compensate and     *)
(* save again; beside them the manager's own background changes, the task  *)
(* that persists those, a crash of the daemon and the restore after it.    *)
(*                                                                         *)
(* ProcessLifecycle has the inside of a manager operation and              *)
(* StateTransaction the inside of a save: here an operation is one step    *)
(* per entry, with every outcome it can have, and a failed save leaves on  *)
(* disk what recovery will make of it, the old image or the new one.       *)
(***************************************************************************)
EXTENDS Integers, FiniteSets

CONSTANTS
  Entries,      \* entries of the registry
  Cron,         \* those with a cron expression
  Watched,      \* those with watch mode
  Requests,     \* the requests clients send, by name
  MaxTrees,     \* bound: OS trees per entry
  MaxOps,       \* bound: requests
  MaxOff,       \* bound: entries disabled in the beginning
  MaxMishaps,   \* bound: failing saves, spawns and terminations, processes
                \* that end by themselves, crashes of the daemon
  MaxAttempts   \* attempts of background persistence (8 in the code)

ASSUME MutationAssumption ==
  /\ Cron \subseteq Entries /\ Watched \subseteq Entries
  /\ {MaxTrees, MaxOps, MaxOff, MaxMishaps} \subseteq Nat
  /\ MaxAttempts \in Nat \ {0}

VARIABLES
  mem,      \* the registry
  live,     \* per entry, its trees with a live process
  made,     \* per entry, the number of trees spawned
  label,    \* the project store
  disk,     \* the image recovery finds: SavedState and ProjectStore
  phase,    \* the daemon: down, loading, up
  job,      \* the transaction that holds state_mutation_lock
  pending,  \* a persistence event is queued
  saver,    \* attempt the background persistence is at, 0 when it waits
  flag,     \* background_persistence_error is set
  told,     \* history: only an error in an answer names an unsaved change
  ack,      \* history: per entry, the configuration last acknowledged
  lost,     \* history: trees no image named when the daemon crashed
  budget    \* requests and mishaps so far

vars == <<mem, live, made, label, disk, phase, job, pending, saver, flag, told,
          ack, lost, budget>>

None == 0
Gone == [there |-> FALSE, on |-> FALSE, tag |-> 0, status |-> "gone",
         desired |-> FALSE, tree |-> None]
Unknown == [there |-> FALSE, on |-> FALSE, tag |-> 2]

Config(m)  == [there |-> m.there, on |-> m.on, tag |-> m.tag]
Serving(s) == s \in {"running", "watching"}
Shown(m)   == m.status \in {"starting", "running", "watching", "sleeping"}

(* process_is_active, and is_active of the project routes.                 *)
Active(m) == m.tree # None \/ Shown(m)

Stoppable(m) ==
  \/ Shown(m)
  \/ m.status = "errored" /\ m.tree # None
  \/ m.status = "stopped" /\ m.desired

(* saved_app_from_snapshot: what a save keeps of an entry. (Stopping, which *)
(* it also takes as active, lies inside one step of a stop here.)          *)
Saved(e, m) ==
  [there |-> m.there, on |-> m.on, tag |-> m.tag, tree |-> m.tree,
   active |-> /\ e \in Cron /\ m.desired
              /\ m.status \in {"sleeping", "starting", "running"}]

(* saved_state_snapshot: the image of the registry and the store.          *)
Image == [apps |-> [e \in Entries |-> Saved(e, mem[e])], label |-> label]

Idle == [stage |-> "idle", via |-> "none", kind |-> "none", undo |-> "none",
         targets |-> {}, todo |-> {}, done |-> {},
         before |-> [e \in Entries |-> Gone], label |-> 0,
         img |-> [apps |-> [e \in Entries |-> Saved(e, Gone)], label |-> 0],
         err |-> FALSE, answer |-> "none"]

(* A daemon at rest: an entry is not there yet, stopped, serving or, when  *)
(* scheduled, asleep, and perhaps disabled since.                          *)
Rest(e) ==
  LET at(on, status, tree) ==
        [there |-> TRUE, on |-> on, tag |-> 0, status |-> status,
         desired |-> status # "stopped", tree |-> tree]
  IN {Gone} \cup {at(on, "stopped", None) : on \in BOOLEAN} \cup
     (IF e \in Cron THEN {at(TRUE, "sleeping", None)}
      ELSE {at(on, IF e \in Watched THEN "watching" ELSE "running", 1) :
              on \in BOOLEAN})

Init ==
  /\ mem \in [Entries -> UNION {Rest(e) : e \in Entries}]
  /\ \A e \in Entries : mem[e] \in Rest(e)
  /\ Cardinality({e \in Entries : mem[e].there /\ ~mem[e].on}) <= MaxOff
  /\ live = [e \in Entries |-> {mem[e].tree} \ {None}]
  /\ made = [e \in Entries |-> mem[e].tree]
  /\ label = 0 /\ disk = Image
  /\ phase = "up" /\ job = Idle
  /\ pending = FALSE /\ saver = 0 /\ flag = FALSE /\ told = FALSE
  /\ ack = [e \in Entries |-> Config(mem[e])]
  /\ lost = [e \in Entries |-> {}]
  /\ budget = [ops |-> 0, mishaps |-> 0]

hist == <<ack, lost>>

Spend(f, n) == budget' = [budget EXCEPT ![f] = @ + n]

-----------------------------------------------------------------------------
(* Manager operations. Each maps the world of one entry - its record, its  *)
(* trees - to the set of worlds it may leave, and says whether it          *)
(* succeeded, whether it queued a persistence event and how many faults    *)
(* that took.                                                              *)

World(e) == [id |-> e, m |-> mem[e], live |-> live[e], made |-> made[e],
             ok |-> TRUE, note |-> FALSE, bad |-> 0]

Fail(w)  == [w EXCEPT !.ok = FALSE]
Fault(w) == [w EXCEPT !.ok = FALSE, !.bad = @ + 1]
Note(w)  == [w EXCEPT !.note = TRUE]

Then(W, Op(_)) == UNION {IF w.ok THEN Op(w) ELSE {w} : w \in W}

Ended(w, status) ==
  [w EXCEPT !.m.status = status, !.m.desired = FALSE, !.m.tree = None,
            !.live = @ \ {w.m.tree}]

(* stop: the whole tree is confirmed gone, or the entry is as before,      *)
(* except that it is wanted again.                                         *)
Stop(w) ==
  IF ~Stoppable(w.m) THEN {Fail(w)}
  ELSE {Ended(w, "stopped")} \cup
       (IF w.m.tree \in w.live
        THEN {Fault([w EXCEPT !.m.desired = TRUE])} ELSE {})

(* A spawn commits, fails before a process exists, or fails after and      *)
(* cannot kill what it started. Past the bound on trees every spawn fails. *)
Spawned(w) ==
  [w EXCEPT !.made = @ + 1, !.live = @ \cup {w.made + 1},
            !.m.tree = w.made + 1, !.m.desired = TRUE,
            !.m.status = IF w.id \in Watched THEN "watching" ELSE "running"]

Errored(w)  == Note([w EXCEPT !.m.status = "errored", !.m.desired = FALSE])

Launch(w) ==
  IF w.made = MaxTrees THEN {Errored(Fail(w))}
  ELSE {Spawned(w), Errored(Fault(w)), Errored(Fault(Spawned(w)))}

(* do_spawn: refused when disabled, active or still cleaning up.           *)
Spawn(w) == IF w.m.on /\ ~Active(w.m) THEN Launch(w) ELSE {Fail(w)}

StartExisting(w) ==
  IF w.m.status \in {"stopped", "errored"} THEN Spawn(w) ELSE {Fail(w)}

Restart(w) ==
  IF ~w.m.on THEN {Fail(w)}
  ELSE IF Active(w.m) THEN Then(Stop(w), Spawn) ELSE Spawn(w)

(* start: a new entry; one whose failed spawn left no process is removed.  *)
Create(w) ==
  LET fresh == [w EXCEPT !.m = [Gone EXCEPT !.there = TRUE, !.on = TRUE,
                                            !.status = "stopped"]]
  IN {IF o.ok \/ o.m.tree # None THEN o ELSE [o EXCEPT !.m = Gone] :
        o \in Spawn(fresh)}

(* Slip: an entry between two spawns is taken as inactive.                 *)
DeleteRunning(w) ==
  IF Serving(w.m.status)
  THEN Then(Stop(w), LAMBDA v : {[v EXCEPT !.m = Gone]})
  ELSE {[w EXCEPT !.m = Gone]}

Delete(w) ==
  IF Stoppable(w.m) THEN Then(Stop(w), LAMBDA v : {[v EXCEPT !.m = Gone]})
  ELSE {[w EXCEPT !.m = Gone]}

Tag(w, t) == {[w EXCEPT !.m.tag = t]}

(* update: stop what is active, exchange the configuration, start again,   *)
(* and with the old configuration if the new one does not start.           *)
Update(w) ==
  LET active == Stoppable(w.m)
      start(v) == UNION {IF o.ok THEN {o}
                         ELSE {Fail(u) : u \in Then(
                                 Tag([o EXCEPT !.ok = TRUE], w.m.tag), Spawn)} :
                           o \in Spawn(v)}
      patch(v) == IF active /\ v.m.on THEN Then(Tag(v, 1 - w.m.tag), start)
                  ELSE Tag(v, 1 - w.m.tag)
  IN IF w.m.status = "starting" THEN {Fail(w)}
     ELSE IF active THEN Then(Stop(w), patch) ELSE patch(w)

(* set_enabled: a running scheduled job is stopped, an ordinary process    *)
(* keeps running; enabling a scheduled job puts it to sleep.               *)
SetEnabled(w, on) ==
  LET v == [w EXCEPT !.m.on = on]
      cron == w.id \in Cron
  IN IF ~on /\ cron /\ w.m.tree # None
     THEN {IF o.ok THEN o ELSE [o EXCEPT !.m.on = w.m.on] : o \in Stop(v)}
     ELSE IF ~on /\ w.m.tree = None
     THEN {[v EXCEPT !.m.status = "stopped", !.m.desired = FALSE]}
     ELSE IF on /\ ~w.m.on /\ cron /\ w.m.tree = None /\ w.m.status = "stopped"
     THEN {[v EXCEPT !.m.status = "sleeping", !.m.desired = TRUE]}
     ELSE {v}

(* restore_snapshot, after what runs now was stopped and removed: a job    *)
(* that slept is scheduled, a process that ran is started, anything else   *)
(* is registered as it was, without a process.                             *)
Register(w, b) ==
  LET fresh == [w EXCEPT !.m = [b EXCEPT !.status = "stopped", !.tree = None,
                                         !.desired = FALSE]]
      runs  == b.desired /\ (b.tree # None \/ b.status \in
                 {"starting", "stopped", "running", "watching"})
  IN IF b.status = "sleeping" /\ b.desired
     THEN {[fresh EXCEPT !.m.status = "sleeping", !.m.desired = TRUE]}
     ELSE IF runs THEN StartExisting(fresh)
     ELSE {[fresh EXCEPT !.m.status = IF Shown(b) THEN "stopped" ELSE b.status]}

(* Slip: the entry comes back with the configuration it has now.           *)
RestoreSnapshotKept(w, b) ==
  LET kept == [b EXCEPT !.tag = w.m.tag]
  IN IF w.m.there /\ (Shown(w.m) \/ w.m.tree # None)
     THEN Then(Stop(w), LAMBDA v : Register(v, kept)) ELSE Register(w, b)

RestoreSnapshot(w, b) ==
  IF w.m.there /\ (Shown(w.m) \/ w.m.tree # None)
  THEN Then(Stop(w), LAMBDA v : Register(v, b)) ELSE Register(w, b)

RestoreEnabled(w, b) ==
  IF w.id \in Cron \/ b.tree = None THEN RestoreSnapshot(w, b)
  ELSE SetEnabled(w, b.on)

-----------------------------------------------------------------------------
(* Requests. Each takes the mutation lock, checks its guard on what it     *)
(* reads then, and remembers the entries as they are.                      *)

Take(name, via, kind, undo, targets) ==
  /\ name \in Requests
  /\ job' = [Idle EXCEPT !.stage = "apply", !.via = via, !.kind = kind,
                         !.undo = undo, !.targets = targets, !.todo = targets,
                         !.before = [e \in Entries |->
                                       IF e \in targets THEN mem[e] ELSE Gone],
                         !.label = label]
  /\ Spend("ops", 1)
  /\ UNCHANGED <<mem, live, made, disk, phase, pending, saver, flag, told, hist>>

Known(e) == mem[e].there
Busy(e)  == mem[e].status = "starting"
Members  == {e \in Entries : Known(e)}

StartProcess(e) ==
  ~Known(e) /\ Take("create", "api", "create", "delete", {e}) /\ label' = label

(* A copy of a known entry's configuration, enabled or not.                *)
CloneProcess(e) ==
  /\ ~Known(e) /\ \E f \in Members : mem[f].on
  /\ Take("clone", "api", "create", "delete", {e}) /\ label' = label

DeleteProcess(e) ==
  Known(e) /\ Take("delete", "api", "delete", "snapshot", {e}) /\ label' = label

StopProcess(e) ==
  /\ Known(e) /\ Active(mem[e])
  /\ Take("stop", "api", "stop", "snapshot", {e}) /\ label' = label

StartStopped(e) ==
  /\ Known(e) /\ mem[e].on /\ ~Active(mem[e])
  /\ Take("start", "api", "start", "snapshot", {e}) /\ label' = label

RestartProcess(e) ==
  /\ Known(e) /\ mem[e].on /\ ~Busy(e)
  /\ Take("restart", "api", "restart", "snapshot", {e}) /\ label' = label

UpdateProcess(e) ==
  /\ Known(e) /\ ~Busy(e)
  /\ Take("update", "api", "update", "snapshot", {e}) /\ label' = label

SetProcessEnabled(e) ==
  /\ Known(e) /\ ~Busy(e)
  /\ Take("toggle", "api", IF mem[e].on THEN "disable" ELSE "enable", "enabled", {e})
  /\ label' = label

(* Changes of the entry's record alone: its notification settings, its     *)
(* restart counter, its project.                                           *)
SetNotifications(e) ==
  Known(e) /\ Take("notify", "api", "tag", "tag", {e}) /\ label' = label

ResetProcess(e) ==
  Known(e) /\ Take("reset", "api", "tag", "tag", {e}) /\ label' = label

AssignProject(e) ==
  Known(e) /\ Take("assign", "api", "tag", "tag", {e}) /\ label' = 1 - label

(* A file of applications, each started; one save for all of them.         *)
LoadEcosystem ==
  /\ Members # Entries
  /\ Take("ecosystem", "api", "create", "delete", Entries \ Members)
  /\ label' = 1 - label

(* The members of a namespace a bulk operation goes through.               *)
Startable == {e \in Members : mem[e].on /\ mem[e].status \in {"stopped", "errored"}}
Runners   == {e \in Members : Serving(mem[e].status) \/ mem[e].status = "sleeping"}

NamespaceStart ==
  Take("nsStart", "api", "spawn", "snapshot", Startable) /\ label' = label

NamespaceStop ==
  Take("nsStop", "api", "stop", "snapshot", Runners) /\ label' = label

NamespaceRestart ==
  Take("nsRestart", "api", "restart", "snapshot", Members) /\ label' = label

(* The metadata of a project and, when asked, the flag of its members.     *)
UpdateProject(on) ==
  /\ Members # {}
  /\ \A e \in Members : mem[e].on # on => ~Busy(e)
  /\ Take("project", "api", IF on THEN "enable" ELSE "disable", "enabled",
          {e \in Members : mem[e].on # on})
  /\ label' = 1 - label

(* A project action: members already as asked are left alone.              *)
ProjectAction(kind) ==
  /\ Members # {}
  /\ kind \in {"start", "restart"} => \A e \in Members : mem[e].on
  /\ Take("projectAction", "api", kind, "snapshot",
          {e \in Members : \/ kind = "restart"
                           \/ kind = "start" /\ ~Active(mem[e])
                           \/ kind = "stop" /\ Active(mem[e])})
  /\ label' = label

(* Telegram: no guard of their own, and a compensation without snapshots.  *)
CmdStart(e) ==
  Known(e) /\ Take("tgStart", "telegram", "start", "stop", {e}) /\ label' = label

CmdStop(e) ==
  Known(e) /\ Take("tgStop", "telegram", "stop", "start", {e}) /\ label' = label

CmdRestart(e) ==
  Known(e) /\ Take("tgRestart", "telegram", "restart", "stop", {e}) /\ label' = label

(* Telegram compares statuses before and after instead of snapshots.       *)
CmdStartNamespace ==
  Take("tgStartNs", "telegram", "spawn", "activity", Startable) /\ label' = label

CmdStopNamespace ==
  Take("tgStopNs", "telegram", "stop", "activity", Runners) /\ label' = label

CmdRestartNamespace ==
  Take("tgRestartNs", "telegram", "restart", "inactive", Members) /\ label' = label

(* Stop the process that holds a port; its rollback is not saved.          *)
KillPort(e) ==
  /\ mem[e].tree # None
  /\ Take("killPort", "port", "stop", "snapshot", {e}) /\ label' = label

(* A pull of the working copy ends with a restart and a save that is tried *)
(* twice and never rolled back.                                            *)
Pull(e) ==
  Known(e) /\ Take("pull", "git", "pull", "none", {e}) /\ label' = label

(* POST /system/save.                                                      *)
SaveState == Take("save", "api", "save", "none", {}) /\ label' = label

Request ==
  /\ phase = "up" /\ job.stage = "idle" /\ budget.ops < MaxOps
  /\ \/ \E e \in Entries :
          \/ StartProcess(e) \/ CloneProcess(e) \/ DeleteProcess(e) \/ StopProcess(e)
          \/ StartStopped(e) \/ RestartProcess(e) \/ UpdateProcess(e)
          \/ SetProcessEnabled(e) \/ SetNotifications(e) \/ ResetProcess(e)
          \/ AssignProject(e) \/ CmdStart(e) \/ CmdStop(e) \/ CmdRestart(e)
          \/ KillPort(e) \/ Pull(e)
     \/ LoadEcosystem \/ SaveState
     \/ NamespaceStart \/ NamespaceStop \/ NamespaceRestart
     \/ CmdStartNamespace \/ CmdStopNamespace \/ CmdRestartNamespace
     \/ \E on \in BOOLEAN : UpdateProject(on)
     \/ \E kind \in {"start", "stop", "restart"} : ProjectAction(kind)

-----------------------------------------------------------------------------
(* The transaction: one manager operation per target, the save, and on its *)
(* failure one compensation per changed entry and a second save.           *)

(* The worlds reached must be within the bound on faults; they are written *)
(* back to the entry.                                                      *)
Become(e, w) ==
  /\ budget.mishaps + w.bad <= MaxMishaps
  /\ mem' = [mem EXCEPT ![e] = w.m]
  /\ live' = [live EXCEPT ![e] = w.live]
  /\ made' = [made EXCEPT ![e] = w.made]
  /\ pending' = (pending \/ w.note)
  /\ Spend("mishaps", w.bad)

(* The pull's restart; if it fails, the process is put back.               *)
PullRestart(w) ==
  UNION {IF o.ok THEN {o}
         ELSE {Fail(u) : u \in RestoreSnapshot([o EXCEPT !.ok = TRUE], w.m)} :
           o \in Restart(w)}

Operate(kind, w) ==
  CASE kind = "create"  -> Create(w)
    [] kind = "delete"  -> Delete(w)
    [] kind = "stop"    -> Stop(w)
    [] kind = "start"   -> StartExisting(w)
    [] kind = "spawn"   -> Spawn(w)
    [] kind = "restart" -> Restart(w)
    [] kind = "update"  -> Update(w)
    [] kind = "enable"  -> SetEnabled(w, TRUE)
    [] kind = "disable" -> SetEnabled(w, FALSE)
    [] kind = "tag"     -> Tag(w, 1 - w.m.tag)
    [] kind = "pull"    -> PullRestart(w)

ProjectEdit == job.kind \in {"enable", "disable"} /\ job.label # label

(* A member of a project that cannot be changed ends the request, and the  *)
(* members changed before it are put back.                                 *)
Apply(e) ==
  /\ job.stage = "apply" /\ e \in job.todo
  /\ \E w \in Operate(job.kind, World(e)) :
       /\ Become(e, w)
       /\ job' = IF w.ok THEN [job EXCEPT !.todo = @ \ {e}, !.done = @ \cup {e}]
                 ELSE IF ProjectEdit
                 THEN [job EXCEPT !.stage = "undo", !.todo = job.done]
                 ELSE [job EXCEPT !.todo = @ \ {e}]
  /\ UNCHANGED <<label, disk, phase, saver, flag, told, hist>>

(* A request that changed nothing saves nothing; an edited project is      *)
(* saved in any case.                                                      *)
ToSave == job.done # {} \/ ProjectEdit \/ job.kind = "save"

Unchanged ==
  /\ job.stage = "apply" /\ job.todo = {} /\ ~ToSave
  /\ job' = [job EXCEPT !.stage = "answer", !.answer = "failed"]
  /\ UNCHANGED <<mem, live, made, label, disk, phase, pending, saver, flag, told,
                 hist, budget>>

(* The image is taken entry by entry while background tasks go on; the     *)
(* commit works on that image.                                             *)
Snapshot ==
  /\ \/ job.stage = "apply" /\ job.todo = {} /\ ToSave
     \/ job.stage \in {"save", "again"}
  /\ job' = [job EXCEPT !.img = Image,
                        !.stage = IF @ = "again" THEN "rewrite" ELSE "write"]
  /\ UNCHANGED <<mem, live, made, label, disk, phase, pending, saver, flag, told,
                 hist, budget>>

Written ==
  /\ job.stage \in {"write", "rewrite"}
  /\ disk' = job.img /\ told' = FALSE
  /\ job' = [job EXCEPT !.stage = "answer", !.img = Idle.img,
                        !.answer = IF job.stage = "write" \/ job.via = "git"
                                   THEN "ok"
                                   ELSE IF job.err THEN "incomplete" ELSE "refused"]
  /\ UNCHANGED <<mem, live, made, label, phase, pending, saver, flag, hist, budget>>

(* A failed save: recovery may still complete it.                          *)
WriteFails ==
  /\ job.stage \in {"write", "rewrite"} /\ budget.mishaps < MaxMishaps
  /\ Spend("mishaps", 1)
  /\ disk' \in {disk, job.img}
  /\ job' = IF job.stage = "rewrite" \/ job.via = "background"
            THEN [job EXCEPT !.stage = "answer", !.answer = "incomplete"]
            ELSE IF job.kind = "save"
            THEN [job EXCEPT !.stage = "answer", !.answer = "failed"]
            ELSE IF job.via = "git" THEN [job EXCEPT !.stage = "again"]
            ELSE [job EXCEPT !.stage = "undo", !.todo = job.done]
  /\ UNCHANGED <<mem, live, made, label, phase, pending, saver, flag, told, hist>>

(* The compensations; the last two are the bulk modes of Telegram.         *)
Compensate(w, b) ==
  CASE job.undo = "snapshot" -> RestoreSnapshot(w, b)
    [] job.undo = "enabled"  -> RestoreEnabled(w, b)
    [] job.undo = "delete"   -> Delete(w)
    [] job.undo = "tag"      -> Tag(w, b.tag)
    [] job.undo = "stop"     -> Stop(w)
    [] job.undo = "start"    -> StartExisting(w)
    [] job.undo = "activity" -> IF Shown(b) /\ ~Shown(w.m) THEN StartExisting(w)
                                ELSE IF ~Shown(b) /\ Shown(w.m) THEN Stop(w)
                                ELSE {w}
    [] job.undo = "inactive" -> IF Shown(w.m) THEN Stop(w) ELSE {w}

Undo(e) ==
  /\ job.stage = "undo" /\ e \in job.todo
  /\ \E w \in Compensate(World(e), job.before[e]) :
       /\ Become(e, w)
       /\ job' = [job EXCEPT !.todo = @ \ {e}, !.err = @ \/ ~w.ok]
  /\ UNCHANGED <<label, disk, phase, saver, flag, told, hist>>

(* Slip: what was put back in memory is not saved.                         *)
UndoneUnsaved ==
  /\ job.stage = "undo" /\ job.todo = {}
  /\ label' = job.label
  /\ job' = [job EXCEPT !.stage = "answer",
                        !.answer = IF job.err THEN "incomplete" ELSE "refused"]
  /\ UNCHANGED <<mem, live, made, disk, phase, pending, saver, flag, told, hist,
                 budget>>

Undone ==
  /\ job.stage = "undo" /\ job.todo = {}
  /\ label' = job.label
  /\ job' = IF job.via = "port"
            THEN [job EXCEPT !.stage = "answer", !.answer = "unsaved"]
            ELSE [job EXCEPT !.stage = "rewrite", !.img = [Image EXCEPT !.label = job.label]]
  /\ UNCHANGED <<mem, live, made, disk, phase, pending, saver, flag, told, hist,
                 budget>>

(* The answer. An incomplete rollback sets background_persistence_error;   *)
(* Telegram, a port that was not freed and a pull that did not restart     *)
(* leave it at an error in their answer. What the client knows of the      *)
(* configuration of the targets follows from it.                           *)
Answer ==
  /\ job.stage = "answer" /\ job.via # "background"
  /\ job' = Idle
  /\ flag' = (flag \/ (job.answer = "incomplete" /\ job.via \in {"api", "git"}))
  /\ told' = (told \/ (job.answer = "incomplete" /\ job.via = "telegram")
                   \/ job.answer = "unsaved"
                   \/ (job.answer = "failed" /\ job.kind = "pull"))
  /\ ack' = [e \in Entries |->
               IF job.answer = "ok" /\ e \in job.done THEN Config(mem[e])
               ELSE IF \/ job.answer = "incomplete" /\ e \in job.targets
                       \/ job.kind = "create" /\ e \in job.targets \ job.done
               THEN Unknown ELSE ack[e]]
  /\ UNCHANGED <<mem, live, made, label, disk, phase, pending, saver, lost, budget>>

-----------------------------------------------------------------------------
(* Background persistence: an event starts a round of attempts, each a     *)
(* save under the mutation lock.                                           *)

Event ==
  /\ phase = "up" /\ pending /\ saver = 0
  /\ pending' = FALSE /\ saver' = 1
  /\ UNCHANGED <<mem, live, made, label, disk, phase, job, flag, told, hist, budget>>

Attempt ==
  /\ phase = "up" /\ saver > 0 /\ job.stage = "idle"
  /\ job' = [Idle EXCEPT !.stage = "save", !.via = "background"]
  /\ UNCHANGED <<mem, live, made, label, disk, phase, pending, saver, flag, told,
                 hist, budget>>

AttemptEnds ==
  /\ job.stage = "answer" /\ job.via = "background"
  /\ job' = Idle
  /\ IF job.answer = "ok" THEN saver' = 0 /\ flag' = FALSE
     ELSE IF saver < MaxAttempts THEN saver' = saver + 1 /\ flag' = flag
     ELSE saver' = 0 /\ flag' = TRUE
  /\ UNCHANGED <<mem, live, made, label, disk, phase, pending, told, hist, budget>>

-----------------------------------------------------------------------------
(* What changes entries without a request.                                 *)

Background(e, W) ==
  /\ phase = "up"
  /\ \E w \in W : Become(e, w)
  /\ UNCHANGED <<label, disk, phase, job, saver, flag, told, hist>>

(* A process ends by itself, watched or not.                               *)
Die(e) ==
  /\ budget.mishaps < MaxMishaps /\ Spend("mishaps", 1)
  /\ \E t \in live[e] : live' = [live EXCEPT ![e] = @ \ {t}]
  /\ UNCHANGED <<mem, made, label, disk, phase, job, pending, saver, flag, told,
                 hist>>

(* The exit event. A scheduled job sleeps again; a process is claimed for  *)
(* a restart, which queues its persistence event at its end, or has        *)
(* stopped, or has used up its restarts. An adopted process is polled      *)
(* for, to the same end.                                                   *)
Exited(e) ==
  LET m == mem[e]
      w == [World(e) EXCEPT !.m.tree = None]
  IN /\ Serving(m.status) /\ m.desired /\ m.tree \notin live[e]
     /\ Background(e, IF e \in Cron
                      THEN {Note([w EXCEPT !.m.status = "sleeping"])}
                      ELSE {Note([w EXCEPT !.m.status = "stopped"]), Errored(w)} \cup
                           (IF m.on THEN {[w EXCEPT !.m.status = "starting"]} ELSE {}))

(* Slip: the restart does not ask for its new process to be saved.         *)
RespawnQuiet(e) ==
  /\ mem[e].status = "starting"
  /\ Background(e, {[w EXCEPT !.note = FALSE] : w \in Launch(World(e))})

(* The claimed restart spawns under the generation it claimed.             *)
Respawn(e) ==
  /\ mem[e].status = "starting"
  /\ Background(e, {Note(w) : w \in Launch(World(e))})

(* A scheduled run that commits; it is shown as running, watched or not.   *)
CronRun(e) ==
  /\ e \in Cron /\ mem[e].status = "sleeping" /\ mem[e].on /\ made[e] < MaxTrees
  /\ Background(e, {Note([Spawned(World(e)) EXCEPT !.m.status = "running"])})

(* The retry task of an abandoned spawn kills the child at last.           *)
Cleanup(e) ==
  /\ mem[e].status = "errored" /\ mem[e].tree # None
  /\ Background(e, {Note(Ended(World(e), "stopped"))})

-----------------------------------------------------------------------------
(* Crash, load and restore.                                                *)

(* Processes outlive the daemon. A save under way may be completed by      *)
(* recovery. What was asked for and not answered may come back either way. *)
Crash ==
  /\ phase # "down" /\ budget.mishaps < MaxMishaps /\ Spend("mishaps", 1)
  /\ phase' = "down"
  /\ disk' \in {disk} \cup (IF job.stage \in {"write", "rewrite"} THEN {job.img}
                            ELSE {})
  /\ ack' = [e \in Entries |-> IF e \in job.targets THEN Unknown ELSE ack[e]]
  /\ lost' = [e \in Entries |->
                lost[e] \cup (live[e] \ {disk'.apps[e].tree, mem[e].tree}) \cup
                (IF job.stage # "idle" \/ pending \/ saver > 0 \/ flag \/ told
                 THEN live[e] \ {disk'.apps[e].tree} ELSE {})]
  /\ mem' = [e \in Entries |-> Gone] /\ label' = 0
  /\ job' = Idle /\ pending' = FALSE /\ saver' = 0 /\ flag' = FALSE /\ told' = FALSE
  /\ UNCHANGED <<live, made>>

Load ==
  /\ phase = "down"
  /\ phase' = "loading" /\ label' = disk.label
  /\ job' = [Idle EXCEPT !.stage = "restore", !.via = "background",
                         !.todo = {e \in Entries : disk.apps[e].there}]
  /\ UNCHANGED <<mem, live, made, disk, pending, saver, flag, told, hist, budget>>

(* register_running_adopted: without ownership of the tree the process is  *)
(* killed, or retained as errored when that fails too.                     *)
Adopt(w, t) ==
  LET up == [w EXCEPT !.m.tree = t, !.m.desired = TRUE,
               !.m.status = IF w.id \in Watched THEN "watching" ELSE "running"]
  IN {up, [Ended(up, "stopped") EXCEPT !.bad = 1],
      [up EXCEPT !.m.status = "errored", !.m.desired = FALSE, !.bad = 2]}

(* One entry of restore. Its PID is its process if the start times agree;  *)
(* killing it can fail, and then it is adopted after all.                  *)
RestoreOutcomes(e, s) ==
  LET w == [World(e) EXCEPT !.m = [there |-> TRUE, on |-> s.on, tag |-> s.tag,
              status |-> "stopped", desired |-> FALSE, tree |-> None]]
      verified == s.tree \in live[e]
      killed   == [w EXCEPT !.live = @ \ {s.tree}]
      sleep(v) == IF s.active THEN [v EXCEPT !.m.status = "sleeping", !.m.desired = TRUE]
                  ELSE v
      reused   == IF s.tree # None THEN {w} ELSE {}
      spared   == {[v EXCEPT !.bad = @ + 1] : v \in Adopt(w, s.tree)}
  IN IF ~s.on THEN IF verified THEN {killed} \cup spared ELSE {w}
     ELSE IF e \in Cron
     THEN IF verified THEN {sleep(killed)} \cup spared ELSE {sleep(w)} \cup reused
     ELSE IF verified THEN Adopt(w, s.tree) ELSE {w}

Restore(e) ==
  /\ phase = "loading" /\ job.stage = "restore" /\ e \in job.todo
  /\ \E w \in RestoreOutcomes(e, disk.apps[e]) : Become(e, w)
  /\ job' = [job EXCEPT !.todo = @ \ {e}]
  /\ UNCHANGED <<label, disk, phase, saver, flag, told, hist>>

(* The restored registry is saved before the daemon serves; if that fails  *)
(* it does not start.                                                      *)
RestoreSaved ==
  /\ phase = "loading" /\ job.stage = "restore" /\ job.todo = {}
  /\ \/ /\ disk' = Image /\ phase' = "up" /\ pending' = FALSE
        /\ UNCHANGED <<mem, label, budget>>
     \/ /\ budget.mishaps < MaxMishaps /\ Spend("mishaps", 1)
        /\ disk' \in {disk, Image} /\ phase' = "down" /\ pending' = FALSE
        /\ mem' = [e \in Entries |-> Gone] /\ label' = 0
  /\ job' = Idle
  /\ UNCHANGED <<live, made, saver, flag, told, hist>>

-----------------------------------------------------------------------------
Transaction == \/ \E e \in Entries : Apply(e) \/ Undo(e)
               \/ Unchanged \/ Snapshot \/ Written \/ WriteFails \/ Undone
               \/ Answer \/ AttemptEnds

Boot == Load \/ RestoreSaved \/ \E e \in Entries : Restore(e)

Next ==
  \/ Request \/ Transaction \/ Event \/ Attempt \/ Crash \/ Boot
  \/ \E e \in Entries : Die(e) \/ Exited(e) \/ Respawn(e) \/ CronRun(e) \/ Cleanup(e)

Spec == Init /\ [][Next]_vars

-----------------------------------------------------------------------------
(* Properties.                                                             *)

(* What a crash must not lose of an entry: its configuration, the process  *)
(* it has, and whether its schedule is armed. A job shown as watching is   *)
(* saved as not armed whatever its schedule (state.rs:767-777, as the test *)
(* at 840-854 fixes), so that status is not one of an armed schedule.      *)
HeldOf(e, m, trees) ==
  [there |-> m.there, on |-> m.on, tag |-> m.tag, running |-> {m.tree} \cap trees,
   armed |-> /\ e \in Cron /\ m.desired
             /\ m.status \in {"sleeping", "starting", "running"}]

KeptOf(s, trees) ==
  [there |-> s.there, on |-> s.on, tag |-> s.tag, running |-> {s.tree} \cap trees,
   armed |-> s.active]

Held(e) == HeldOf(e, mem[e], live[e])
Kept(e) == KeptOf(disk.apps[e], live[e])

Agree == label = disk.label /\ \A e \in Entries : Held(e) = Kept(e)

Quiet == phase = "up" /\ job.stage = "idle" /\ ~pending /\ saver = 0

(* Whenever no request is under way and no persistence event waits, the    *)
(* disk holds what memory holds, unless the failure has been reported: no  *)
(* request, exit, restart, scheduled run or rollback leaves a change that  *)
(* only memory knows.                                                      *)
DiskFollowsMemory == Quiet /\ ~flag /\ ~told => Agree

(* A request answered "could not be persisted and was rolled back" has     *)
(* left no trace: configuration and project store are as before, in memory *)
(* and on disk, and no entry that was stopped runs or is about to.         *)
RollbackRestores ==
  job.stage = "answer" /\ job.answer = "refused" =>
    /\ label = job.label /\ disk.label = label
    /\ \A e \in job.done :
         LET b == job.before[e] IN
         /\ Config(mem[e]) = Config(b)
         /\ Config(disk.apps[e]) = Config(b)
         /\ ~Active(b) /\ ~b.desired => ~Shown(mem[e])

(* The configuration a client saw acknowledged is the one in force, also   *)
(* after a crash and a restore, whatever failed in between.                *)
AcknowledgedSurvives ==
  phase = "up" /\ job.stage = "idle" =>
    \A e \in Entries : ack[e] # Unknown => Config(mem[e]) = ack[e]

(* Every process the daemon started is the one its entry holds, across     *)
(* failed starts, deletions, rollbacks, crashes and restores; only a crash *)
(* before the save of a spawn can orphan it.                               *)
TreesAccounted ==
  phase = "up" => \A e \in Entries : live[e] \ lost[e] \subseteq {mem[e].tree}

(* "state persisted after every process change" (docs/CHANGELOG.md:229):   *)
(* the same without the exemption of changes that only an answer names.    *)
(* Freeing a port restores the process when its save fails, under a new    *)
(* PID, and saves nothing.                                                 *)
EveryChangeSaved == Quiet /\ ~flag => Agree

=============================================================================
