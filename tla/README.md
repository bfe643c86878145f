# RunDock, specified

TLA+ specifications of RunDock (the `alter` daemon and its clients): what is
modelled, what TLC checks, what TLAPS proves and what is still to do. Paths are
relative to the repository's `src/` directory unless they start with `docs/`.

## 1. The system

RunDock is a process manager. A daemon (tokio, axum) keeps a registry of
processes, spawns and supervises them, restarts them on a crash, a cron tick or
a file change, and persists what it manages. A CLI, a web UI, a desktop shell
and a Telegram bot drive it over HTTP.

| Component | State | Operations | What makes it correct |
|---|---|---|---|
| Process manager, `process/manager.rs`, `instance.rs` | per entry, behind `Arc<RwLock<ManagedProcess>>`: status, `desired_running`, `generation`, PID with identity, process-tree guard, cleanup flag, restart count | start, stop, restart, delete, update, set_enabled, reset, bulk forms, `do_spawn`, `restart_loop` | no live tree is lost or doubled, a manual stop is final, a stale event harms nothing, every request ends |
| Exit watcher, `process/restarter.rs` | policy captured at the spawn | one event per root exit, after a backoff | a crash is acted on, the restart budget is respected |
| Trees, `process/tree.rs`, `runner.rs`, `identity.rs` | OS group or job, start identity | spawn, terminate and wait, preserve | termination is confirmed, never guessed from a PID |
| File watcher, `process/watcher.rs` | debounce | a relay turns a change into a Restart event | no restart of a process that is not wanted |
| Cron, `process/scheduler.rs`, `manager.rs:2243-2760` | scheduler per entry, `Sleeping` | tick, run, finish | no tick after a stop, no overlapping runs |
| Transaction, `config/state_transaction.rs`, `atomic_file.rs` | `state.json`, `projects.json`, backups, stages, marker | commit, recover | the two files are one atomic cell |
| Daemon state, `daemon/state.rs` | locks, background persistence, shutdown flags | save, load, restore, handoff | what is saved is what ran; saves are retried |
| Daemon, `daemon/mod.rs`, `signals.rs`, `utils/pid.rs` | PID file, replacement child | run, restart, shut down | at most one daemon serves, one always ends up serving |
| Routes, `api/routes/` | none | a request takes `state_mutation_lock`, changes the manager, saves, and compensates if the save fails | memory and disk agree after a failure |
| Project store, `config/project_store.rs` | projects and reservations | create, assign, remove | assignments name existing projects |
| Access, `api/routes/auth.rs`, `api/middleware.rs`, `config/auth_config.rs` | password and PIN with their file, sessions, tickets, attempts, a generation | set-up, login, change, disable, tickets | no session outlives its credential, a password does not vanish |
| Tunnels, `tunnel/mod.rs` | a record, a registered PID and a watcher task per tunnel | create, stop, remove | no provider runs unseen |
| Children of requests, `scripts.rs`, `terminal.rs`, `tunnels.rs`, `git.rs`, `hooks.rs` | a permit or lock, a child, its guard | run, stream, end, drop | nothing outlives its request |
| Script files, `api/routes/scripts.rs` | one file per name, a staged one, snapshots | save, delete, run | no acknowledged save is lost |
| Logs, `logging/writer.rs`, `rotation.rs` | `out.log`, its numbered and dated rotations, open handles | write, rotate, delete | no line is lost but to the bounds |
| Telegram poller, `telegram/bot.rs` | offset, checkpoint file | poll, handle, save | no command lost or repeated |
| Notifications, AI, CLI, UI, packaging | mostly I/O | | |

`PROJECT.json` lists every component with its status, and the hazards by line.

How they interact: a route holds `DaemonState.state_mutation_lock` and awaits a
manager operation, which takes the entry's lock for short sections and releases
it around every await. `do_spawn` starts, per committed spawn, an exit task that
sends one `RestartEvent` over a channel to the single `restart_loop`; a Restart
event gets a task of its own there (at most `lifecycle_limit` of them), the
others are handled inline. None of these background actors holds the mutation
lock, so each may run between any two sections of a request. What holds the
design together is the entry's `generation`: every spawn and stop takes a new
one, and every later step of an actor compares it.

Hard behaviours: interleavings of one request, the loop, its tasks, exit
watchers and retry tasks; partial failure of a spawn or of a termination; events
delayed past newer spawns; a stop that fails and winds the generation *back*;
crashes and power loss between the file operations of a save; saves that fail
after the change they should keep; clients that disconnect and drop a handler at
an await while its blocking job goes on; two daemons around one PID file.

## 2. Modules

| Module | Content |
|---|---|
| `ProcessLifecycle` | one registry entry, its OS trees and everything that acts on it; its properties |
| `MCProcessLifecycle` | the sets of requests and faults, and the symmetry, for TLC |
| `ProcessLifecycleProofs` | generations, the cleanup flag, manual stops and what events terminate: inductive invariants, theorems, proofs |
| `ProcessTreeProofs` | where live trees and desired statuses come from, without a file watcher; extends `ProcessLifecycleProofs` |
| `AtomicPair` | abstract: one cell holding one saved version, and what may be in doubt about it |
| `StateTransaction` | the transaction over two documents; implements `AtomicPair` |
| `CronLifecycle` | one scheduled entry: ticks, runs, exit handlers, scheduler map and requests |
| `MutationCommit` | every request that changes the registry as a transaction with its compensation, background persistence, crash and restore |
| `DaemonHandoff` | daemon processes around one PID file and one port, and a restart of the daemon |
| `Access`, `Tunnels`, `RequestChildren`, `TelegramBot`, `ScriptFiles`, `LogFiles` | one component each, see below |
| `StateTransactionProofs`, `CronLifecycleProofs`, `DaemonHandoffProofs`, `MutationCommitProofs` | inductive invariant, theorems and proofs of the module they name |
| `ServiceProofs` | the same for `Tunnels`, `RequestChildren`, `TelegramBot` and `Access` |
| `FileProofs` | the same for `ScriptFiles` and `LogFiles` |
| `MCServices`, `MCDaemon` | instances of the components that share no state, one of which a behaviour exercises |

Definitions whose comment starts with "Slip:" are not part of the specification:
each is a plausible mistake in the definition that follows it, there to show
that a property notices.

### ProcessLifecycle

State. `proc` is the `ManagedProcess`: `status`, `desired` (`desired_running`),
`gen`, `pid`, `identity` (whether `process_identity` is there), `tree` (the
`ProcessTreeGuard`), `cleaning` (`process_tree_cleanup_in_progress`), `enabled`,
`restarts` (`restart_count`). `reg` says whether the registry holds it. `alive`,
`exit` and `spawned` are the OS; `genOf` is a history variable. `watch`,
`events` and `cleaners` are the background tasks without a program counter.
`pc` and `loc` place the user's request, `restart_loop` and its tasks.

Actions. One action is one critical section of the entry's lock together with
the awaited call before it. Names follow the functions: `Term*` and `Kill*` are
`terminate_retained_process_tree`, `Stop*` is `stop`, `Spawn*` is
`do_spawn_with_event_inner`, `Abandon*` and `Cleaner*` are
`cleanup_failed_spawn`, `Loop*` and `Task*` are `restart_loop`, `Op*` are the
operations of the API.

Abstractions.
- Lifecycle state is per entry and entries share none of it, so one entry is
  modelled. `lifecycle_limit` is the set of task slots.
- At most one request is active: every route that reaches these operations holds
  `state_mutation_lock`. Saving afterwards is assumed to succeed (the
  compensation of failing saves is planned).
- A tree stands for its root PID: a PID counts only together with its start
  identity, so a reused number is another tree.
- `Running` also stands for `Watching`. `Sleeping` and cron are left out;
  `Crashed` is never assigned by the code, although `docs/ARCHITECTURE.md` draws
  it between a crash and the restart.
- An exit is "clean" or "crash"; clean also stands for any exit with
  `autorestart` off, for which the watcher sends the same event.
- Pending events form a set, which allows every delivery order; the channel and
  the backoff allow fewer. Two equal events of the file watcher count as one.
- A termination may fail at any time, also after the tree is gone (the OS could
  not confirm it). The retry tasks succeed in the end.
- Health probes, hooks of `post_start`, notifications, logs and metrics change
  none of this state. `pre_start` is part of a failing spawn; the failure of
  `pre_stop` is ignored by the code.

### StateTransaction

A file holds the version it was written with, or nothing. `disk` is what a
running daemon reads, `synced` what the last sync of the directory made durable.
A write (`replace_bytes`) is temporary file, sync, rename, sync of the
directory, so it happens, or fails before the rename, or fails after it with the
rename not durable. A sync makes all earlier changes to the directory durable; a
crash keeps or loses each later one. `phase` and `todo` follow `commit`,
`recover_paths` and `cleanup`: each phase is a list of writes, `Put` and
`PutFails` execute its next one, and `Failed` is the error path of the phase.
Saves are serialised by `persistence_write_lock`. Files never become unreadable
by themselves, only absent; a reading fault during recovery is
`RecoverImpossible`.

`AtomicPair` is the promise: a save that returns Ok is what every later load
finds; one that fails or is cut short leaves in doubt whether its version or an
earlier one is found, until a later save returns Ok. The refinement maps
`stored` to `Found("state")`, what a load preceded by recovery would find, and
`doubt` to itself; `SameVersion` says the other document agrees.

### How the modules fit together

`ProcessLifecycle` has the inside of an operation of the manager, and
`StateTransaction` the inside of a save. `MutationCommit` stands above both: an
operation is one step per entry with every outcome it can have, and a failed
save leaves either image. `CronLifecycle` takes a termination and an abandoned
spawn as one step each, as `ProcessLifecycle` shows them to be for their caller.
The other modules meet these only through OS processes and files of their own,
which is why `MCServices` and `MCDaemon` let a behaviour choose one of them
instead of interleaving them.

### CronLifecycle

The queue of triggers, `cron_trigger_loop`'s checks, the run task (hook, spawn,
commit, cleanup), `finish_cron_run` on the exit of the root, and one request at
a time. The entry and `cron_schedulers` have different locks, so an actor changes
them in two steps. A restored job sleeps before its scheduler exists. `dropped`
remembers that a cancelled run removed the scheduler of a job that sleeps again,
which the code does.

### MutationCommit

`mem` is the registry, `disk` the image recovery finds, `job` the transaction
that holds `state_mutation_lock`: apply entry by entry, save, and, if the save
fails, undo entry by entry and save again, in the forms that the routes, bulk
routes, projects, ecosystem files, Telegram commands, the port route and a pull
have. Beside it: exits, restarts, scheduled runs, background persistence with its
attempts, a crash at any point, and the restore with its adoption of live PIDs.
History variables name what the properties exempt: `told` is a change that only
the error in an answer names (the second save failed too), `lost` a tree no image
named when the daemon crashed.

### DaemonHandoff

A step is what happens between two awaits or between two operations on shared
files. The PID file is created exclusively; a stale one is renamed to a
quarantine and put back if it changed. A restart arms a replacement that waits
for port and PID file; the old daemon drains, saves, releases and waits for the
replacement's health, or takes everything back. Any step may fail, a daemon may
be killed, and others may be started at any time. `Displaced` are live owners
whose file a third starter has in quarantine: for that moment the file
protects nobody, and the properties exempt exactly those.

### Access

A request carries what its handler read before an await: the generation, the
verified password, the candidate configuration. The three locks, the blocking
saves (which go on when a request is dropped, `orphans`), expiry, damaged files
and restarts are actions. `late` remembers that such a save landed after its
request had given back the locks; it may then replace a newer configuration on
disk, and `NeverOpenByAccident` exempts it.

### Tunnels and RequestChildren

In both a child leads a process group of its own, SIGKILL reaches the whole
group, and a PID is free only when its root is reaped and the group is empty.
`Tunnels` has the create lock, the registered PID, the watcher of output and exit
and requests dropped at any await. In `RequestChildren` each kind of request has
its own way to start, to expire and to clean up, and `OtherProgram` lets the rest
of the machine take a PID that became free. Assumed: such a program starts in a
later second than the root it replaces (`identity.rs:59` compares whole seconds);
a child that left its own group before the guard was made is not followed
further (`CleanupRefused`); the commands of one pull are taken one request at a
time. A crash of the daemon leaves such children running; that is not modelled.

### TelegramBot

Telegram forgets an update when a later poll names a higher offset. `excused` are
the updates that may be handled twice: their poller ended between handling and
saving, or the one checkpoint made room for another token. Update ids are bounded;
their overflow is not modelled.

### ScriptFiles

One script name with a file per extension. A save of another language writes the
new file, stages the old one, removes it, and goes back on a failure; every file
operation may fail, a write also after its rename, and the daemon may end between
two of them. Content `n` is what the `n`-th save wrote.

### LogFiles

One stream of one process. Inodes and names are apart, so that a handle may
outlive its file's name. A dropped writer loses its queue, but a line or a daily
rotation it had handed to a blocking thread goes on beside its successor
(`beside`), and then the order of lines, and for a moment the name under which a
line can be found, are not promised. `lost` is what may be missing: lines that
fell out of the channel, out of the rotations, or to an error, a dropped writer
or a deletion. A rotation that fails may have renamed some files, or all and then
not opened the new one: its writer goes on in what is now `out.log.1`. `Room`
bounds the inodes; no instance reaches it. `LogWriter::clear` and `api/routes/logs.rs` are not mounted
anywhere and are left out.

## 3. What the runs check

| Run | Instance | Shows |
|---|---|---|
| `lifecycle_safety` | every request and fault; 1 restart task, 3 requests, 2 exits, 2 faults | `LiveTreesOwned`, `OneServing`, `RunningIsDesired` |
| `lifecycle_watch` | the same with a file watcher; 2 symmetric tasks, 2 requests, 1 exit, 1 fault, 1 change | `CleanupExclusive`, `SpawnsDistinct`, `GenerationsOrdered`, `KillsOwnSpawn`, `ManualStopSticks` |
| `lifecycle_liveness` | start, stop, update; spawn and cleanup faults; `FairSpec` | `RequestsFinish`, `TransitionsSettle`, `CrashIsNoticed` |
| `transaction` | 3 saves, 1 fault, 2 crashes | `SameVersion`, `OneCell` (refinement), `NeverStuck`, `BackupsForgetFailures` |
| `delete_race` | start and delete, one crash, no fault | `DeletedIsStopped` is violated |
| `max_restarts` | start and restart, one crash, no fault; `FairSpec` | `ExhaustedIsErrored` is violated |
| `rollback_pending` | one save, two faults | `RollbackRemainsPending` is violated |
| `cron` | 2 run slots, 2 claims, 2 requests of 6 kinds, 1 fault; `FairSpec` | `NoOverlap`, `SleepingIsQuiet`, `ScheduleMatches`, `StopCancelsRuns`, `StartingSettles` |
| `mutation` | a watched and a scheduled entry, one request of 26 kinds, 3 mishaps | `DiskFollowsMemory`, `RollbackRestores`, `AcknowledgedSurvives`, `TreesAccounted` |
| `port_kill` | freeing a port, one mishap | `EveryChangeSaved` is violated |
| `daemon` | handoff: 4 processes, 2 restarts, 1 signal, 1 mishap; logs: 3 lines, 2 runs of the process, files of one line, 2 dates, 1 error | `OneOwner`, `ListenerOwnsPid`, `NoStrayReplacement`, `ShutdownSticks`, `ServiceReturns`; `LinesKept` |
| `services` | access: 2 clients, 2 passwords, 3 requests, 2 chances; tunnels: 2 callers, 2 tunnels, 4 requests; children: 2 requests, 2 PIDs; poller: 2 tokens, 2 updates, 2 switches, 2 mishaps; scripts: 2 extensions, 4 saves, 3 faults | `CredentialsCurrent`, `NeverOpenByAccident`, `TunnelsAccounted`, `ChildrenContained`, `CommandsAccounted`, `ScriptsKept` |

Why the bounds are enough. The races need one request, one stale event and one
newer spawn: two requests and one exit give that, the third request lets a
deletion or a restart follow a failed stop. One fault reaches each error path,
two reach a failing cleanup after a failing spawn. `MaxRestarts = 1` gives one
restart before the budget is exhausted. `MaxTrees = 8` is never reached by the
other bounds; it only makes the set of trees finite. For the transaction, a
second crash interrupts the recovery from the first, and a third save follows a
failed and a successful one.

A scheduled job needs a run that is under way while the next one is claimed: two
slots. A failed save, a failed second save and a crash are three mishaps. A race
for a stale PID file needs a dead owner and two starters, a restart a replacement
besides: four processes. A change of credentials that meets a login is two
clients; a ticket, a session and the change make three requests. A PID that is
used again is two requests and a foreign program on two PIDs. A rotation by size,
one by date and a line after them are three lines; with four lines and a queue of
two `LinesKept` holds as well (6.1 million states, too slow to keep as a run).
Scripts with one limit stand for a gate that is full or not. `SYMMETRY` in
`services` exchanges clients, passwords, and the names of tokens, tunnels, PIDs
and bots, which no definition distinguishes; no liveness is checked there.

The violations are disagreements between code and documentation:
- `delete_race`: `delete` does not regard `Stopping`, set by a restart task, as
  active. It skips the stop and removes the entry while the task goes on; the
  task then commits a process nobody can find in the registry.
- `max_restarts`: the exit watcher captures `restart_count` before
  `restart_internal` increments it. When the captured count has reached
  `max_restarts`, the event no longer matches the entry and is dropped: the entry
  stays `Running` with a crashed root instead of `Errored`.
- `rollback_pending`: when writing the `CommitNext` marker fails after its rename
  and the rollback fails too, the error announces a pending rollback but the next
  recovery rolls forward.
- `port_kill`: `kill_port_process` restores the process when its save fails, under
  a new PID, and does not save again, as the other routes do.

Seen while modelling, without a run of its own:
- A save of a script that is cut off, or whose directory sync fails after the
  rename, leaves two extensions. The error at `scripts.rs:286` says "save it again
  to repair the conflict"; `save_script` refuses that at 436.
- `delete_logs` wants the process stopped "so active writers can close safely"
  (`processes.rs:935`), but a process that a restart has claimed is `Stopping`
  without a PID, which `process_is_active` does not count. The new run may then
  write to a file that has been unlinked: `LogsReachable` fails in `LogFiles` as
  soon as a deletion is allowed.
- `docs/CLI.md:262` says that flushing logs leaves the process alone; the route
  (`processes.rs:933`) refuses an active process with a conflict.
- A scheduled job in watch mode that a request starts is shown as `Watching`.
  `saved_app_from_snapshot` (`state.rs:767`) does not count that status, and the
  test at 840-854 fixes it so: until that run ends, its schedule is saved as not
  armed, though `docs/CLI.md:293-298` says that the state records "whether a cron
  scheduler was active". `DiskFollowsMemory` compares the armed schedules of all
  other statuses.
- A create of a tunnel that is dropped while the process is being attached leaves
  its record `Starting`.

Deadlock is not checked in any run: a daemon without requests and events really comes to
rest, and the bounds stop the environment.

Fairness (`FairSpec`) is weak fairness of each actor's own steps: the tokio
runtime polls every task that can run, and its timers fire. Request arrivals,
file changes, root exits and the recapture of an identity are not fair. That
retry tasks end assumes that the OS confirms a repeated kill at some time;
`cleanup_failed_spawn` retries for ever. An enabled spawn goes on although it may
fail, so faults need no fairness. A slot for a restart task is available in the
end because its tasks end.

What the instances leave out on purpose, because the property is known not to
hold there, and is not documented to:
- In watch mode, `do_spawn` for a request checks the status under a read lock and
  does not look again under the write lock (`manager.rs:1427`, `1453`); a watch
  event claimed in between breaks `LiveTreesOwned`, `OneServing` and
  `RunningIsDesired`. They are therefore checked without the watcher.
- Liveness is checked with spawn and cleanup faults. A stop that begins after a
  restart task has set `Stopping` returns to `Stopping` when its kill fails or its
  wait runs out, and only another request leaves it (`TransitionsSettle`); an exit
  event dropped during a stop is not sent again when the stop fails, and after
  disabling a running process its crash is not acted on (`CrashIsNoticed`).
- `DiskFollowsMemory` exempts what only an answer names (`told`),
  `TreesAccounted` what a crash before a save orphaned (`lost`), `OneOwner` and
  `ListenerOwnsPid` a `Displaced` owner, `NeverOpenByAccident` a `late` save,
  `LinesKept` a writer `beside` another; each is something the code does.
- `NeverStuck` is checked with one fault per history. With two, a marker whose
  removal was renamed but not synced can come back after a later failed prepare
  deleted its stages.

## 4. What is proved

A theorem holds for every value of the constants: any finite or infinite set of
restart tasks, slots or extensions, any number of processes, requests, crashes
and faults. Hypotheses beyond the named assumptions of the modules (a bound is a
natural, a task is not the user, ...) are given below, with the reason.

| Module | Theorem | Statement |
|---|---|---|
| `ProcessLifecycleProofs` | `InvariantHolds`, `TypeCorrect` | `Spec => []IInv`, `Spec => []TypeOK` |
| | `CleanupIsLock` | `Spec => []CleanupExclusive` |
| | `GenerationsRise` | `Spec => []GenerationsOrdered` |
| | `GenerationNamesSpawn` | `Spec => []SpawnsDistinct` |
| | `ManualStopIsFinal` | `Spec => ManualStopSticks` |
| | `KillInvariantHolds` | `Spec => [](IInv /\ KInv)` |
| | `EventsKillTheirSpawn` | `Spec => []KillsOwnSpawn` |
| `ProcessTreeProofs`, if `~WatchMode` | `TreeInvariantHolds` | `Spec => [](IInv /\ KInv /\ TInv)` |
| | `RunningEntriesAreWanted` | `Spec => []RunningIsDesired` |
| | `NoTreeIsLost` | `Spec => []LiveTreesOwned` |
| | `TreesServeAlone` | `Spec => []OneServing` |
| `StateTransactionProofs`, if `MaxFaults <= 1` | `TransactionInvariantHolds` | `Spec => []IInv` |
| | `DocumentsAgree` | `Spec => []SameVersion` |
| | `MarkerHasStages` | `Spec => []NeverStuck` |
| | `TransactionIsOneCell` | `Spec => OneCell`, the refinement of `AtomicPair` |
| | `BackupsHoldNoFailure` | `Spec => []BackupsForgetFailures` |
| `CronLifecycleProofs` | `CronInvariantHolds` | `Spec => [](TypeOK /\ IInv)` |
| | `RunsNeverOverlap` | `Spec => []NoOverlap` |
| | `SleepIsQuiet` | `Spec => []SleepingIsQuiet` |
| | `ScheduleFollowsStatus` | `Spec => []ScheduleMatches` |
| | `StopsCancelRuns` | `Spec => StopCancelsRuns` |
| `DaemonHandoffProofs` | `HandoffInvariantHolds` | `Spec => [](TypeOK /\ IInv /\ SoloInv)` |
| | `OneOwnerAtATime` | `Spec => []OneOwner` |
| | `ListenerIsInPidFile` | `Spec => []ListenerOwnsPid` |
| | `ReplacementsAreWanted` | `Spec => []NoStrayReplacement` |
| | `ShutdownsStick` | `Spec => []ShutdownSticks` |
| | `RestartReturnsService` | `Spec => []ServiceReturns` |
| `ServiceProofs` | `TunnelInvariantHolds`, `TunnelsAreAccounted` | `TunnelSpec => [](TunnelTypes /\ TunnelInv)`, `[]TunnelsAccounted` |
| | `ChildInvariantHolds`, `ChildrenAreContained` | `ChildSpec => [](ChildTypes /\ ChildInv)`, `[]ChildrenContained` |
| | `BotInvariantHolds`, `CommandsAreAccounted` | `BotSpec => [](BotTypes /\ BotInv)`, `[]CommandsAccounted` |
| | `AccessInvariant`, `SessionsMatchCredentials`, `DashboardStaysClosed` | `AccessSpec => [](AccessTypes /\ AccessInv)`, `[]CredentialsCurrent`, `[]NeverOpenByAccident` |
| `FileProofs` | `ScriptsNeverLost` | `ScriptSpec => []ScriptsKept` |
| | `LogInvariant`, `LinesAreKept` | `LogSpec => [](LogTypes /\ LogInv)`, `[]LinesKept` |
| `MutationCommitProofs` | `MutationInvariantHolds` | `Spec => []MutationInvariant` |
| | `DiskAlwaysFollowsMemory` | `Spec => []DiskFollowsMemory` |
| | `RefusalsRestore` | `Spec => []RollbackRestores` |
| | `AcknowledgedStays` | `Spec => []AcknowledgedSurvives` |
| | `TreesAlwaysAccounted` | `Spec => []TreesAccounted` |

Each invariant was checked by TLC on an instance before it was proved, and every
proof has one lemma or step per action, and under it one per conjunct the action
can disturb.

The two hypotheses are not conveniences; without them the theorems are false.
- `~WatchMode`. With a watcher `RunningIsDesired` fails (TLC, 24 states): a task that
  serves a file change claims a running entry; the root exits and the loop takes
  the event; a stop begins, the task gives up but has yet to restore the status,
  the stop cannot terminate the tree and winds the generation back; the loop gives
  the entry up (`Errored`, no longer desired), and only then does the task write
  the `Running` it had saved. `lifecycle_safety` sets the same constant, and section
  3 says how a watch event breaks the other two.
- `MaxFaults <= 1`. TLC finds `SameVersion`, `NeverStuck` and `OneCell` violated by
  two failing operations and a power loss (section 3, `NeverStuck`).
  `BackupsForgetFailures` still holds with two on the instance of the run; its proof
  rests on the same invariant and so on the same bound. The theorems allow any
  number of saves and of crashes, at any point, recoveries included.

**Generations.** `SpawnsDistinct` would hold trivially if the generation only grew,
but a failed stop restores the one before it. `GenerationsOrdered` says why that is
harmless: while a stop runs, nothing else moves the generation, because `desired`
is off and every other actor that would take a generation needs it on; so every
generation a spawn has taken stays at most the one the stop may return to
(`Ceiling`). This needs facts about local variables: `StopLocals` (the generation a
stop saved), `SpawnLocals` (what a spawn remembers at each of its steps),
`TaskLocals` (a restart task expects the generation of its event) and `Untouched`
(trees not yet spawned have no generation). `ManualStopIsFinal` follows from the same
invariant: of the actions that can commit or set `desired`, those of a request are
excluded and those of a task are guarded by `desired` itself.

**What events kill.** The handlers compare generations when they take the tree, and
terminate it later under the PID. `KInv` says that a generation for which some
watcher, event, task or stop could still act is *announced*: its spawn is over
(`AnnouncedPast`), and while it is the latest one the entry has no tree and no PID but
those of that spawn (`Settled`). A spawn about to commit has put its PID into the
entry (`Attached`), and retry tasks hold children of older generations
(`CleanersFit`), so none of them can put a foreign tree under an announced
generation.

**Trees.** `TInv` adds that a generation is the business of one actor: of its exit
watcher, of its event, of whoever handles that, or of whoever spawns
(`Stake`, `Exclusive`). That actor alone may clear the entry, end its tree or begin
the next spawn, which gives the places their meaning: a spawn of the latest
generation finds no other tree (`SpawnsAlone`), a termination terminates what the
entry's PID names (`KillsEntry`), a task that waits to respawn has left the entry
empty or to somebody newer (`WaitsEmpty`, `LeavesEmpty`). `LiveTreesKnown` is the
account of the live trees. A file watcher announces a generation that its exit
watcher announces too, which is why `Exclusive` fails there.

**Transaction.** The invariant speaks of the disk and of what the last sync kept
alike, because a crash may leave any mixture. `Recoverable` says that for each marker
a crash may leave there is one version in doubt that every mixture is read as. Each
phase knows which files are settled (both hold the same version) and which it will
still write (`Pending`, `Coming`), so that a fault or a crash between two writes
leaves `Recoverable` behind. The step-by-step refinement follows: a step that
changes what is found moves it to a version in doubt, the end of a successful save
leaves one version, all others are stutters of `AtomicPair`. `ForgetInv` follows the
version of the save under way: nothing holds it before the save stages it
(`FreshInv`, `EarlyInv`), so what the stages keep for a rollback is older
(`OlderInv`); wherever a crash may find no marker, or find `CommitNext`, either the
backups are free of it or it is what a load finds (`CleanInv`, `CommitInv`); and the
writes a recovery or a rollback has left end with both backups at the version it
restores (`Lands`).

**Cron.** Runs and exit handlers are bound to the generation they were started with,
and again a failed stop winds it back. `Base` and `Shown` are the generation and
status the entry has or would return to. Nobody is bound to a generation beyond
`Base`, at most one run or handler to `Base` itself, and the one that is owns the
only tree outside the runs (`RunsBound`, `WatchesBound`, `TreesOwned`).
`ScheduleInv` follows the scheduler through the gaps between the two locks.
`StopsCancelRuns` holds because a run that commits has the current generation, while
a stop that was acknowledged moved it (`StopsCount`).

**Handoff.** `HoldsPid` says that whoever works on the state has its PID in the PID
file or in some claimer's quarantine, so two of them mean that one is `Displaced`;
`FilesName` says that a claimer takes only the file of a dead process for stale.
`Known` says whom a live replacement belongs to: it is being prepared, armed or tried
by the daemon that spawned it, or that daemon is leaving for good and no shutdown was
asked of it. `Kin` and `Attempts` say where these three can be set.
`RestartReturnsService` is about one restart that nobody disturbs: `Pair` lists, for
every step of the old daemon, what the replacement may be doing and whose the PID
file is, so both being gone is impossible.

**Tunnels.** A stop writes `Stopped` some awaits after it confirmed that a tunnel is
down, or found it unregistered. `StopConfirms` says that such a tunnel is down or being
taken down by its watcher, `CreateOwns` and `StopOwns` that `create_lock` keeps a
create and a stop apart, so that no stop takes a tunnel for unregistered that is
about to be registered (the mutant of the run drops that lock). `Recorded` says who
will correct a record that still says `Active`.

**Children.** `Guarded` gives each stage of a request its guard, and a dead group
outside of it; `PidsApart` that a PID is not given away while the group or an unreaped
root holds it. Only with both can the check of `owned_unix_group_exists` be shown to
spare others: a guard outlives its root by a whole report to a slow client. The gates
need an argument about sizes, since a capacity is a number: `GatesKept` counts the
holders, and the live trees behind a gate are among its holders.

**Telegram.** `CommandsAccounted` forbids losing an update and repeating one without
a cause. `DoneBehind` says that what is below an offset was handled, for the four
places an offset can be (Telegram, the file, the poller, a detached save); so
acknowledging it loses nothing. `HandledKnown` says that what was handled is
remembered by Telegram or the file, is in hand, or is excused; the poller may still
not know what the file says, when a detached save overtook it, and then
`UnseenExcused` says the repetition has its cause.

**Access.** Both properties relate what a request read before it waited to what holds
when it goes on. `LocksHeld` says which of the three locks a change of the
configuration holds at each step; so what it saves is still the change of the
configuration in force, and a request to disable that met no password cannot be
overtaken by a set-up (`Prepared`, `StaysClosed`). A login holds no lock while it
verifies: `LoginsCounted` says that one whose generation still holds was verified
against the configuration in force, or a change was written and is about to be
counted (`ChangePending`), and that change holds the session lock, so no session can
be created in between. `SessionsCurrent` and `TicketsCurrent` then only have the
revocation under way as an exception, which holds the locks the property asks to be
free.

**Scripts.** `ScriptsKept` is not inductive: a save that cleans up after a failure
removes the file it wrote, and nothing in the property says that the acknowledged
content is elsewhere by then. `Shape` says what each step of a save finds: before
the write it knows every other file of the name (`AtWrite`), before the staging there
are exactly the two (`AtStage`), while a staged file is to be removed it is there and
not older than what was acknowledged (`AtRemove`), and before its own file is removed
another one, hidden or not, is not older either (`AtClean`). `Fresh` says that no
visible file is older than what was acknowledged, and `Tidy` that the places where
something is left aside are reached by faults only.

**Logs.** `LinesKept` speaks of files only, and is kept by what is true of lines that
are not in a file yet. `OnePlace` says that a line a writer has in hand is in no
file, in no queue and in no other writer's hand, so that writing it makes no second
copy. `InOrder` orders the files before the line in hand and that before the queue,
and the dated files before `out.log`, so that appending a line keeps a file in
order, and so does joining `out.log` to the file of its date. Both need to know who
may write: `Alone` says that as long as no writer has been `beside` another, only the
last one has anything to do, and that its handle is `out.log`, or a rotation failed
after its last rename, or the file was deleted. `FilesNamed` says that an inode not
yet created has no name and no content. The assumption that `MaxSize` is positive is
the code's: `max_log_size_mb` is validated to be at least 1 (`manager.rs:740`).

**Mutations.** The four properties speak of moments when a transaction is over, or
has been refused; `MutationInvariant` says what they rest on while it is under way.
`Sync` relates, stage by stage, the disk to the entries the transaction has not
touched, the image it took to memory, and the disk to memory again at the end; each
may lag behind only if something is `Dirty`: a persistence event is queued, a round
of attempts is running, or the failure is known. Exits, restarts and scheduled runs
go on between any two stages. They are dealt with at once: whatever they do to an
entry, they queue an event or change nothing a save keeps (`Unsaid`), keep the
configuration, and leave an entry alone that is neither active nor wanted
(`Stirring`); `StirStep` shows that such a step keeps every part. The same four
facts are proved of each manager operation and each compensation
(`OperateFacts`, `CompensateFacts`), from lemmas on stop, launch, restart, update
and so on that follow the definitions. `Targets` says what an undo finds: that it
meets the configuration it was chosen for, and that a target at rest is as it was
until its turn. With it `CompensateFacts` gives `Rollback`: what was compensated
without an error is as before. `Acks` follows the acknowledged configuration to the
disk and into memory, and for the target of the transaction into what the
transaction remembers of it. `Accounted` does so for trees: a daemon that goes down
with nothing under way leaves the trees of its entries on disk by `Sync`, and what
it leaves otherwise is `lost`. The mutants of the run show that each part has work
to do: a restart that does not ask to be saved breaks `Unsaid`, a snapshot restored
with the configuration of now breaks `Rollback`, a rollback that is not saved
breaks `Acks`, a deletion that skips the stop breaks `Accounted`.

Every invariant and every action property the runs check is proved. Only
model-checked: liveness (`RequestsFinish`, `TransitionsSettle`, `CrashIsNoticed`,
`StartingSettles`), which rests on fairness, and the proof system does not treat
`ENABLED`.

## 5. Plan and limits

Worth stating next: a refinement that shows an operation of `ProcessLifecycle` to be
the step `MutationCommit` takes it for.

Not modelled, and why: AI routes, notifications, update downloads, system
information, the log reader and the daemon's own log, which are input and output
without an effect on the state above; parsing of configuration files, CLI, UI
and packaging; health probes, which change one field under a generation check;
`dependencies.rs` and the backoff, pure functions for which a reference definition
would repeat the code; Windows job objects and service control, whose guarantees
come from the operating system; `resurrect` (`system.rs:116`), which loads and
restores when the registry is empty: the image on disk is then empty too, unless a
save failed, and the load and the restore are those `MutationCommit` has at the
start of the daemon.

## 6. Running

    tlc -config lifecycle_safety.cfg MCProcessLifecycle
    tlc -config transaction.cfg StateTransaction
    tlc -workers 2 -config services.cfg MCServices
    tlapm ProcessTreeProofs.tla
    tlapm MutationCommitProofs.tla

The module of each run is in `PROJECT.json`. The longest runs, `lifecycle_safety`,
`services` and `daemon`, take two to three minutes with two workers, each module of
proofs one to five minutes.
