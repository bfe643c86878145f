--------------------------- MODULE StateTransaction ---------------------------
(***************************************************************************)
(* The crash-recoverable transaction over state.json and projects.json     *)
(* (config/state_transaction.rs) on the file primitives it is built from   *)
(* (config/atomic_file.rs), as DaemonState drives it: recovery and load at *)
(* startup, then saves, one at a time under persistence_write_lock.        *)
(*                                                                         *)
(* A file holds the version it was written with, or nothing.  A write is   *)
(* a temporary file, synced, renamed over the target, then a sync of the   *)
(* directory, so no file is ever torn; a write may fail before the rename, *)
(* or after it with the directory not synced.  A crash keeps each change   *)
(* since the last successful sync, or loses it.                            *)
(***************************************************************************)
EXTENDS Naturals, Sequences

CONSTANTS
  None,        \* no file of that name
  MaxSaves,    \* bound: saves asked for
  MaxFaults,   \* bound: file operations that fail
  MaxCrashes   \* bound: crashes

ASSUME NoneAssumption == None \notin Nat \cup {"RollBack", "CommitNext"}
ASSUME BoundsAssumption ==
  MaxSaves \in Nat /\ MaxFaults \in Nat /\ MaxCrashes \in Nat

Versions == 0 .. MaxSaves
Documents == {"state", "projects"}
Stages == [doc : Documents, copy : {"previous", "next"}]
Files == [doc : Documents, copy : {"primary", "backup", "previous", "next"}]
Marker == [doc |-> "transaction", copy |-> "marker"]

VARIABLES
  disk,      \* the files as a running daemon reads them
  synced,    \* the files as they were at the last sync of the directory
  up,        \* whether the daemon has loaded its state
  phase,     \* where the transaction stands
  todo,      \* the writes left in this phase
  next,      \* the version being saved
  previous,  \* per document, the version load found before it was changed
  outcome,   \* what the save will return, or has returned
  refresh,   \* the save compensates a failed request (.._rollback)
  saving,    \* whether commit is past the recovery of an older transaction
  doubt,     \* history: the versions a load may find, see AtomicPair
  budget     \* saves, faults and crashes so far

files == <<disk, synced>>
save == <<next, previous, outcome, refresh, saving>>
vars == <<disk, synced, up, phase, todo, next, previous, outcome, refresh,
          saving, doubt, budget>>

File(d, c) == [doc |-> d, copy |-> c]

-----------------------------------------------------------------------------
(* Reading: load_json_with_backup_validated, and what a recovery that      *)
(* completes would let it find.                                            *)

Load(d) ==
  IF disk[File(d, "primary")] # None THEN disk[File(d, "primary")]
  ELSE IF disk[File(d, "backup")] # None THEN disk[File(d, "backup")]
  ELSE 0

(* The stage recover_paths takes each document from.                       *)
StageOf(marker) == IF marker = "CommitNext" THEN "next" ELSE "previous"
StagesReadable ==
  disk[Marker] # None =>
    \A d \in Documents : disk[File(d, StageOf(disk[Marker]))] # None

Found(d) == IF disk[Marker] = None THEN Load(d)
            ELSE disk[File(d, StageOf(disk[Marker]))]

-----------------------------------------------------------------------------
(* Writing.                                                                *)

Write(f, v) == [file |-> f, version |-> v]

(* write_json_with_backup_validated: the last good content goes to the     *)
(* backup before the primary is replaced.                                  *)
Replace(d, v) ==
  LET primary == File(d, "primary")
      backup == File(d, "backup")
  IN IF disk[primary] # None
     THEN <<Write(backup, disk[primary]), Write(primary, v)>>
     ELSE IF disk[backup] # None
     THEN <<Write(backup, disk[backup]), Write(primary, v), Write(backup, v)>>
     ELSE <<Write(primary, v)>>

ApplyPair(pair) ==
  Replace("state", pair["state"]) \o Replace("projects", pair["projects"])

Both(v) == [d \in Documents |-> v]

RefreshBackups(pair) == <<Write(File("state", "backup"), pair["state"]),
                          Write(File("projects", "backup"), pair["projects"])>>

(* Slip: the primaries change before the transaction is marked.            *)
PrepareUnmarked(old, v) ==
  <<Write(File("state", "previous"), old["state"]),
    Write(File("projects", "previous"), old["projects"]),
    Write(File("state", "next"), v), Write(File("projects", "next"), v)>>

Prepare(old, v) ==
  <<Write(File("state", "previous"), old["state"]),
    Write(File("projects", "previous"), old["projects"]),
    Write(File("state", "next"), v), Write(File("projects", "next"), v),
    Write(Marker, "RollBack")>>

Spend(kind, bound) ==
  /\ budget[kind] < bound
  /\ budget' = [budget EXCEPT ![kind] = @ + 1]

Enter(p, writes) == phase' = p /\ todo' = writes

Return(result) ==
  /\ Enter("idle", <<>>)
  /\ outcome' = result /\ UNCHANGED <<next, previous, refresh, saving>>
  /\ up' = (up \/ result = "ok")
  /\ doubt' = IF up /\ result = "ok" THEN {next} ELSE doubt

-----------------------------------------------------------------------------
Init ==
  /\ disk \in {g \in [Files \cup {Marker} -> {None, 0}] :
                 g[Marker] = None /\ \A f \in Stages : g[f] = None}
  /\ synced = disk
  /\ up = FALSE /\ phase = "idle" /\ todo = <<>>
  /\ next = 0 /\ previous = Both(0) /\ outcome = "ok"
  /\ refresh = FALSE /\ saving = FALSE
  /\ doubt = {0}
  /\ budget = [saves |-> 0, faults |-> 0, crashes |-> 0]

(* load_from_disk, or save_state_and_projects_inner: either recovers what  *)
(* is pending first.                                                       *)
Startup ==
  /\ phase = "idle" /\ ~up
  /\ Enter("check", <<>>) /\ outcome' = "ok" /\ saving' = FALSE
  /\ UNCHANGED <<files, up, next, previous, refresh, doubt, budget>>

Save ==
  /\ phase = "idle" /\ up
  /\ Spend("saves", MaxSaves)
  /\ next' = budget.saves + 1 /\ refresh' \in BOOLEAN
  /\ Enter("check", <<>>) /\ outcome' = "ok" /\ saving' = FALSE
  /\ doubt' = doubt \cup {budget.saves + 1}
  /\ UNCHANGED <<files, up, previous>>

(* recover_paths reads the marker and its stages.                          *)
Recover ==
  /\ phase = "check" /\ disk[Marker] # None /\ StagesReadable
  /\ LET pair == [d \in Documents |-> disk[File(d, StageOf(disk[Marker]))]]
     IN Enter("recover", ApplyPair(pair) \o
              IF disk[Marker] = "RollBack" THEN RefreshBackups(pair) ELSE <<>>)
  /\ UNCHANGED <<files, up, save, doubt, budget>>

(* A stage is missing or cannot be read.                                   *)
RecoverImpossible ==
  /\ phase = "check" /\ disk[Marker] # None
  /\ IF StagesReadable THEN Spend("faults", MaxFaults) ELSE UNCHANGED budget
  /\ Return("err")
  /\ UNCHANGED files

(* No transaction is pending, or the recovery is complete.  A missing      *)
(* backup is repaired, unless that write fails, which load ignores.        *)
Repaired ==
  [f \in DOMAIN disk |->
     IF \E d \in Documents : f = File(d, "backup") /\ disk[f] = None
     THEN disk[File(f.doc, "primary")] ELSE disk[f]]

LoadPrevious ==
  /\ phase = "load" \/ (phase = "check" /\ disk[Marker] = None)
  /\ \/ disk' = Repaired /\ synced' = (IF Repaired = disk THEN synced ELSE disk')
        /\ UNCHANGED budget
     \/ Repaired # disk /\ Spend("faults", MaxFaults) /\ UNCHANGED files
  /\ LET old == [d \in Documents |-> Load(d)]
     IN IF up
        THEN /\ previous' = old /\ saving' = TRUE
             /\ Enter("prepare", Prepare(old, next))
             /\ UNCHANGED <<up, next, outcome, refresh, doubt>>
        ELSE Return("ok")

(* The next write of the phase, if it succeeds.                            *)
Put ==
  /\ todo # <<>>
  /\ disk' = [disk EXCEPT ![Head(todo).file] = Head(todo).version]
  /\ synced' = disk' /\ todo' = Tail(todo)
  /\ UNCHANGED <<up, phase, save, doubt, budget>>

(* What a phase does when a write of it fails.                             *)
Failed ==
  CASE phase = "prepare" ->
         /\ Enter("cleanup", <<>>) /\ outcome' = "err"
         /\ UNCHANGED <<up, next, previous, refresh, saving, doubt>>
    [] phase \in {"apply", "mark"} ->
         /\ phase' = "rollback" /\ todo' = <<>> /\ outcome' = "err"
         /\ UNCHANGED <<up, next, previous, refresh, saving, doubt>>
    [] OTHER -> Return("err")

PutFails ==
  /\ todo # <<>> /\ Spend("faults", MaxFaults)
  /\ \/ UNCHANGED disk
     \/ disk' = [disk EXCEPT ![Head(todo).file] = Head(todo).version]
  /\ Failed /\ UNCHANGED synced

(* Slip: the recovery copies are restored, not the pair that was loaded.   *)
RollBackToBackups ==
  /\ phase = "rollback" /\ todo = <<>>
  /\ Enter("restore", ApplyPair([d \in Documents |->
       IF disk[File(d, "backup")] = None THEN 0 ELSE disk[File(d, "backup")]]))
  /\ UNCHANGED <<files, up, save, doubt, budget>>

(* apply_pair(previous) starts from the files as the failure left them.    *)
RollBack ==
  /\ phase = "rollback" /\ todo = <<>>
  /\ Enter("restore", ApplyPair(previous))
  /\ UNCHANGED <<files, up, save, doubt, budget>>

(* Slip: a rollback leaves the backups as the failed commit left them.     *)
AdvanceNoRepair ==
  /\ todo = <<>>
  /\ \/ phase = "prepare" /\ Enter("apply", ApplyPair(Both(next)))
     \/ phase = "apply" /\ Enter("mark", <<Write(Marker, "CommitNext")>>)
     \/ phase \in {"mark", "restore", "recover"} /\ Enter("cleanup", <<>>)
  /\ UNCHANGED <<files, up, save, doubt, budget>>

Advance ==
  /\ todo = <<>>
  /\ \/ phase = "prepare" /\ Enter("apply", ApplyPair(Both(next)))
     \/ phase = "apply" /\ Enter("mark", <<Write(Marker, "CommitNext")>>)
     \/ phase = "restore" /\ Enter("repair", RefreshBackups(previous))
     \/ phase \in {"mark", "repair", "recover"} /\ Enter("cleanup", <<>>)
  /\ UNCHANGED <<files, up, save, doubt, budget>>

(* Slip: the directory is not synced after the marker was moved away.      *)
MoveMarkerUnsynced ==
  /\ phase = "cleanup"
  /\ disk' = [disk EXCEPT ![Marker] = None]
  /\ Enter("delete", <<>>)
  /\ UNCHANGED <<synced, up, save, doubt, budget>>

(* TransactionPaths::cleanup moves the marker away before it deletes the   *)
(* stages, and its failure is the caller's.                                *)
MoveMarker ==
  /\ phase = "cleanup"
  /\ IF disk[Marker] = None THEN UNCHANGED files
     ELSE disk' = [disk EXCEPT ![Marker] = None] /\ synced' = disk'
  /\ Enter("delete", <<>>)
  /\ UNCHANGED <<up, save, doubt, budget>>

MoveMarkerFails ==
  /\ phase = "cleanup" /\ disk[Marker] # None
  /\ Spend("faults", MaxFaults)
  /\ \/ UNCHANGED disk
     \/ disk' = [disk EXCEPT ![Marker] = None]
  /\ Return("err") /\ UNCHANGED synced

(* The directory is not synced after the deletions.  A recovery goes on to *)
(* the load, a commit returns; a compensating save refreshes the backups.  *)
DeleteStages ==
  /\ phase = "delete"
  /\ disk' = [f \in DOMAIN disk |-> IF f \in Stages THEN None ELSE disk[f]]
  /\ IF saving /\ (outcome = "err" \/ ~refresh) THEN Return(outcome)
     ELSE /\ IF saving THEN Enter("refresh", RefreshBackups(Both(next)))
             ELSE Enter("load", <<>>)
          /\ UNCHANGED <<up, save, doubt>>
  /\ UNCHANGED <<synced, budget>>

Refreshed ==
  /\ phase = "refresh" /\ todo = <<>>
  /\ Return("ok")
  /\ UNCHANGED <<files, budget>>

(* The process or the machine goes down.                                   *)
Crash ==
  /\ Spend("crashes", MaxCrashes)
  /\ \E lost \in SUBSET {f \in DOMAIN disk : disk[f] # synced[f]} :
       disk' = [f \in DOMAIN disk |-> IF f \in lost THEN synced[f] ELSE disk[f]]
  /\ up' = FALSE /\ Enter("idle", <<>>) /\ outcome' = "err"
  /\ UNCHANGED <<synced, next, previous, refresh, saving, doubt>>

Next ==
  \/ Startup \/ Save \/ Recover \/ RecoverImpossible \/ LoadPrevious
  \/ Put \/ PutFails \/ RollBack \/ Advance
  \/ MoveMarker \/ MoveMarkerFails \/ DeleteStages \/ Refreshed \/ Crash

Spec == Init /\ [][Next]_vars

-----------------------------------------------------------------------------
(* Properties.                                                             *)

Phases == {"idle", "check", "recover", "load", "prepare", "apply", "mark",
           "rollback", "restore", "repair", "cleanup", "delete", "refresh"}

(* Every variable keeps its type; the marker is None or a phase.           *)
TypeOK ==
  /\ DOMAIN disk = Files \cup {Marker} /\ DOMAIN synced = DOMAIN disk
  /\ disk[Marker] \in {None, "RollBack", "CommitNext"}
  /\ \A f \in Files : disk[f] \in Versions \cup {None}
  /\ up \in BOOLEAN /\ phase \in Phases /\ Len(todo) <= 8
  /\ next \in Versions /\ previous \in [Documents -> Versions]
  /\ outcome \in {"ok", "err"} /\ refresh \in BOOLEAN /\ saving \in BOOLEAN
  /\ doubt \subseteq Versions

(* The two files are one cell: through a failing write, crashes during a   *)
(* save or a recovery, and any change the disk loses, what is found is a   *)
(* version still in doubt, and after Ok exactly the one that was saved ... *)
Cell == INSTANCE AtomicPair WITH stored <- Found("state")
OneCell == Cell!Spec

(* ... and the two documents agree on it.                                  *)
SameVersion == Found("state") = Found("projects")

(* A marker never outlives the stages it names, on the disk as it is and   *)
(* on any disk a crash may leave: otherwise recovery, and with it the      *)
(* daemon's start, would fail for ever.                                    *)
NeverStuck == StagesReadable

(* The recovery copies match what was restored, not what failed: once a    *)
(* save came to nothing and no transaction is pending, no backup holds its *)
(* version, so a later fallback does not bring it back.                    *)
BackupsForgetFailures ==
  phase = "idle" /\ up /\ disk[Marker] = None /\ Found("state") # next =>
    \A d \in Documents : disk[File(d, "backup")] # next

(* "rollback remains pending": a save whose rollback failed as well leaves *)
(* the previous pair to be found.                                          *)
RollbackRemainsPending ==
  [][phase = "restore" /\ phase' = "idle" /\ up'
       => \A d \in Documents : Found(d)' = previous[d]]_vars
=============================================================================
