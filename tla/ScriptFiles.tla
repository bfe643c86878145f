---------------------------- MODULE ScriptFiles -----------------------------
(***************************************************************************)
(* The saved scripts, seen for one script name: at most one file per       *)
(* extension, the hidden file a change of language stages the previous     *)
(* one in, and the hidden snapshots that runs execute.  Handlers hold      *)
(* script_mutation_lock and never await under it, so they exclude one      *)
(* another; only the end of the daemon stops one between two file          *)
(* operations, and any file operation may fail.                            *)
(*                                                                         *)
(* The n-th save that begins writes content n; content 0 is no file.       *)
(***************************************************************************)
EXTENDS Integers, FiniteSets

CONSTANTS
  Exts,      \* extensions of the languages
  Runs,      \* runs whose snapshots may exist at the same time
  MaxSaves,  \* bound: saves
  MaxFaults  \* bound: failing file operations, and daemons that end

VARIABLES
  script,    \* the content under each extension
  staged,  \* contents in .alter-run-migrate files
  snaps,   \* the snapshot of each run, and what was acknowledged before it
  save,    \* the save under way
  acked,   \* history: the last save answered with success, 0 once deleted
  saves,   \* saves so far
  faults   \* failures so far

scriptVars == <<script, staged, snaps, save, acked, saves, faults>>

NoSave == [pc |-> "idle"]
NoRun  == [content |-> 0, due |-> 0]
Unlocked == save = NoSave

ScriptTypeOK ==
  /\ script \in [Exts -> 0..MaxSaves] /\ staged \subseteq 1..MaxSaves
  /\ snaps \in [Runs -> [content : 0..MaxSaves, due : 0..MaxSaves]]
  /\ save.pc \in {"idle", "write", "stage", "remove", "undo", "clean"}
  /\ acked \in 0..MaxSaves /\ saves \in 0..MaxSaves /\ faults \in 0..MaxFaults

ScriptInit ==
  /\ script = [e \in Exts |-> 0] /\ staged = {} /\ snaps = [r \in Runs |-> NoRun]
  /\ save = NoSave /\ acked = 0 /\ saves = 0 /\ faults = 0

Fault == faults < MaxFaults /\ faults' = faults + 1
Fine  == UNCHANGED faults

(* list_scripts lists every file that is not hidden. *)
ListScripts == {e \in Exts : script[e] # 0}

(* find_script_path: exactly one file may have the name. *)
FindScriptPath(e) == ListScripts = {e}

-----------------------------------------------------------------------------
(* save_script up to the write: it refuses when it cannot tell which file   *)
(* it replaces.                                                             *)
Previous(e) == ListScripts \ {e}

SaveScript(e) ==
  /\ Unlocked /\ saves < MaxSaves
  /\ Cardinality(Previous(e)) <= 1 /\ (Previous(e) = {} \/ script[e] = 0)
  /\ saves' = saves + 1
  /\ save' = [pc |-> "write", ext |-> e, previous |-> Previous(e),
              moved |-> 0]
  /\ UNCHANGED <<script, staged, snaps, acked, faults>>

Answer == save' = NoSave
Goto(pc) == save' = [save EXCEPT !.pc = pc]
(* The only file of that extension is the one this save replaces.           *)
Old == CHOOSE e \in save.previous : TRUE

(* Slip: the previous extension goes before the new one is written. *)
RemoveFirst ==
  /\ save.pc = "write" /\ UNCHANGED <<staged, snaps, saves>>
  /\ \/ /\ Fine /\ save.previous # {} /\ script' = [script EXCEPT ![Old] = 0]
        /\ save' = [save EXCEPT !.previous = {}] /\ UNCHANGED acked
     \/ /\ Fine /\ save.previous = {} /\ Answer /\ acked' = saves
        /\ script' = [script EXCEPT ![save.ext] = saves]
     \/ Fault /\ Answer /\ UNCHANGED <<script, acked>>

(* write_with_backup without a backup.  It may fail before the replacement, *)
(* or after it, when the directory cannot be synced or the content cannot   *)
(* be read back; what was replaced stays replaced.                          *)
WriteWithBackup ==
  /\ save.pc = "write" /\ UNCHANGED <<staged, snaps, saves>>
  /\ \/ /\ Fine /\ script' = [script EXCEPT ![save.ext] = saves]
        /\ IF save.previous = {} THEN Answer /\ acked' = saves
                                 ELSE Goto("stage") /\ UNCHANGED acked
     \/ /\ Fault /\ Answer /\ UNCHANGED acked
        /\ script' \in {script, [script EXCEPT ![save.ext] = saves]}

(* The previous extension is moved aside; if it cannot be, the new one goes. *)
StagePrevious ==
  /\ save.pc = "stage" /\ UNCHANGED <<snaps, saves, acked>>
  /\ \/ /\ Fine /\ script' = [script EXCEPT ![Old] = 0]
        /\ staged' = staged \union {script[Old]}
        /\ save' = [save EXCEPT !.pc = "remove", !.moved = script[Old]]
     \/ Fault /\ Goto("clean") /\ UNCHANGED <<script, staged>>

RemoveStaged ==
  /\ save.pc = "remove" /\ UNCHANGED <<script, snaps, saves>>
  /\ \/ /\ Fine /\ staged' = staged \ {save.moved} /\ Answer /\ acked' = saves
     \/ Fault /\ Goto("undo") /\ UNCHANGED <<staged, acked>>

RestorePrevious ==
  /\ save.pc = "undo" /\ Goto("clean") /\ UNCHANGED <<snaps, saves, acked>>
  /\ \/ /\ Fine /\ staged' = staged \ {save.moved}
        /\ script' = [script EXCEPT ![Old] = save.moved]
     \/ Fault /\ UNCHANGED <<script, staged>>

CleanReplacement ==
  /\ save.pc = "clean" /\ Answer /\ UNCHANGED <<staged, snaps, saves, acked>>
  /\ \/ Fine /\ script' = [script EXCEPT ![save.ext] = 0]
     \/ Fault /\ UNCHANGED script

DeleteScript(e) ==
  /\ Unlocked /\ FindScriptPath(e)
  /\ script' = [script EXCEPT ![e] = 0] /\ acked' = 0
  /\ UNCHANGED <<staged, snaps, save, saves, faults>>

-----------------------------------------------------------------------------
(* run_script executes a snapshot that it takes under the lock, and that is *)
(* removed when the run is over.                                            *)
CreateScriptSnapshot(r, e) ==
  /\ Unlocked /\ FindScriptPath(e) /\ snaps[r] = NoRun
  /\ snaps' = [snaps EXCEPT ![r] = [content |-> script[e], due |-> acked]]
  /\ UNCHANGED <<script, staged, save, acked, saves, faults>>

DropSnapshot(r) ==
  /\ snaps[r] # NoRun /\ snaps' = [snaps EXCEPT ![r] = NoRun]
  /\ UNCHANGED <<script, staged, save, acked, saves, faults>>

(* The daemon ends, and its runs with it; the next one finds the files as   *)
(* they are.                                                                *)
ScriptCrash ==
  /\ Fault /\ Answer /\ snaps' = [r \in Runs |-> NoRun]
  /\ UNCHANGED <<script, staged, acked, saves>>

ScriptNext ==
  \/ \E e \in Exts : SaveScript(e) \/ DeleteScript(e)
  \/ WriteWithBackup \/ StagePrevious \/ RemoveStaged \/ RestorePrevious
  \/ CleanReplacement \/ ScriptCrash
  \/ \E r \in Runs : DropSnapshot(r) \/ \E e \in Exts : CreateScriptSnapshot(r, e)

(* A save that was acknowledged is never lost to a later one that failed or  *)
(* was cut off: a file, if only the staged one, has it or what a later save  *)
(* wrote.  Two extensions of one name, which nothing but a hand can resolve, *)
(* and a staged file are left by faults only, and a run executes nothing     *)
(* older than what was acknowledged before it.  (save_script,                *)
(* create_script_snapshot.)                                                  *)
ScriptsKept ==
  /\ acked # 0 => \E c \in {script[e] : e \in Exts} \union staged : c >= acked
  /\ Unlocked /\ faults = 0 => Cardinality(ListScripts) <= 1 /\ staged = {}
  /\ \A r \in Runs : snaps[r].content >= snaps[r].due
=============================================================================
