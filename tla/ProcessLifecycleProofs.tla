------------------------- MODULE ProcessLifecycleProofs -------------------------
(***************************************************************************)
(* Proofs about ProcessLifecycle for every set of restart tasks, every     *)
(* selection of requests and faults and every bound.                       *)
(***************************************************************************)
EXTENDS ProcessLifecycle, TLAPS

-----------------------------------------------------------------------------
(* What the local variables hold depends on where their actor stands.      *)

Spawning == {"exec", "identify", "pid", "attach", "commit", "abandon"}
HoldingChild == Spawning \ {"exec"}

(* A stop knows the generation it took and the one it would return to.     *)
StopLocals == StopRuns => loc[User].gen \in Nat /\ loc[User].prevGen \in Nat

(* A spawn knows its generation, and its child was spawned under it.       *)
SpawnLocals ==
  \A a \in Spawners :
    /\ pc[a] \in Spawning => loc[a].gen \in Nat
    /\ pc[a] \in HoldingChild => /\ loc[a].child \in 1 .. spawned
                                 /\ genOf[loc[a].child] = loc[a].gen

(* A restart task is bound to the generation of its event.                 *)
TaskLocals == \A a \in Tasks : pc[a] # "idle" => loc[a].expect \in Nat

(* Nothing has happened before the process is registered.                  *)
Untouched ==
  reg = "absent" => /\ proc = NewEntry
                    /\ watch = {} /\ events = {} /\ cleaners = {}
                    /\ \A a \in Actors : pc[a] = "idle"

IInv == /\ TypeOK /\ StopLocals /\ SpawnLocals /\ TaskLocals /\ Untouched
        /\ CleanupExclusive /\ GenerationsOrdered /\ SpawnsDistinct

-----------------------------------------------------------------------------
(* Types.                                                                  *)

(* The locals an idle actor keeps are locals.                              *)
LEMMA FreshType == Fresh \in Locals
BY DEF Fresh, Locals, Gens, Statuses, MaybeTree

(* Wherever a shared routine sends its caller is a place of the program.   *)
LEMMA PcTypes ==
  /\ "idle" \in Pcs
  /\ \A a \in Actors : {TermOk(a), TermErr(a), SpawnOk(a), SpawnErr(a)} \subseteq Pcs
  /\ \A op : AfterStop(op) \in Pcs
BY DEF Pcs, TermOk, TermErr, SpawnOk, SpawnErr, AfterStop

(* A step of an actor keeps the types of pc and loc.                       *)
LEMMA StepType ==
  ASSUME ActorsType, NEW a \in Actors, NEW p \in Pcs, NEW l \in Locals, Step(a, p, l)
  PROVE  ActorsType'
BY FreshType DEF ActorsType, Step

(* The same for a step that keeps the locals.                              *)
LEMMA GotoType ==
  ASSUME ActorsType, NEW a \in Actors, NEW p \in Pcs, Goto(a, p)
  PROVE  ActorsType'
<1>1. loc[a] \in Locals
  BY DEF ActorsType
<1>2. QED
  BY <1>1, StepType DEF Goto

(* Counting a request, exit, fault or change keeps the counters numbers.   *)
LEMMA SpendType ==
  ASSUME BudgetType, NEW k \in {"ops", "exits", "faults", "changes"},
         NEW b, Spend(k, b)
  PROVE  BudgetType'
BY DEF BudgetType, Spend

(* Accepting a request keeps the types of what it sets.                    *)
LEMMA RequestType ==
  ASSUME ActorsType, BudgetType, NEW op \in UserOps, NEW p \in Pcs, Request(op, p)
  PROVE  ActorsType' /\ BudgetType'
<1>1. [Fresh EXCEPT !.op = op] \in Locals
  BY FreshType, ModesAssumption DEF Locals
<1>2. ActorsType'
  BY <1>1, StepType DEF Request, Actors
<1>3. QED
  BY <1>2, SpendType DEF Request

(* The program starts well typed.                                          *)
LEMMA InitType == Init => TypeOK
BY FreshType, BoundsAssumption
   DEF Init, TypeOK, EntryType, Entries, OsType, TasksType, ActorsType,
       BudgetType, NewEntry, Statuses, MaybeTree, Trees, NoTree, Gens, Pcs,
       NoGen

(* Each request starts an operation of the user and leaves the rest.       *)
LEMMA RequestsType == TypeOK /\ Requests => TypeOK'
<1> SUFFICES ASSUME TypeOK, Requests PROVE TypeOK'
  OBVIOUS
<1> USE DEF TypeOK
<1>1. ActorsType' /\ BudgetType'
  <2>1. CASE OpStart
    BY <2>1, RequestType DEF OpStart, Request, Pcs
  <2>2. CASE OpStartExisting
    BY <2>2, RequestType DEF OpStartExisting, Request, Pcs
  <2>3. CASE OpStop
    BY <2>3, RequestType DEF OpStop, Request, Pcs
  <2>4. CASE OpRestart
    BY <2>4, RequestType DEF OpRestart, Request, Pcs
  <2>5. CASE OpDelete
    BY <2>5, RequestType DEF OpDelete, Request, Pcs
  <2>6. CASE OpUpdate
    BY <2>6, RequestType DEF OpUpdate, Request, Pcs
  <2>7. CASE OpSetEnabled
    BY <2>7, RequestType DEF OpSetEnabled, Request, Pcs
  <2>8. CASE OpReset
    BY <2>8, RequestType DEF OpReset, Request, Pcs
  <2>9. QED
    BY <2>1, <2>2, <2>3, <2>4, <2>5, <2>6, <2>7, <2>8 DEF Requests
<1>2. EntryType'
  <2>1. NewEntry \in Entries
    BY DEF NewEntry, Entries, Statuses, MaybeTree, NoTree
  <2>2. [proc EXCEPT !.restarts = 0] \in Entries
    BY DEF EntryType, Entries
  <2>3. QED
    BY <2>1, <2>2 DEF Requests, OpStart, OpStartExisting, OpStop, OpRestart,
       OpDelete, OpUpdate, OpSetEnabled, OpReset, EntryType
<1>3. UNCHANGED <<os, tasks>>
  BY DEF Requests, OpStart, OpStartExisting, OpStop, OpRestart, OpDelete,
     OpUpdate, OpSetEnabled, OpReset
<1>4. QED
  BY <1>1, <1>2, <1>3 DEF OsType, TasksType, os, tasks

(* The rest of the user's operation moves its program counter and edits    *)
(* the entry.                                                              *)
LEMMA UserStepType == TypeOK /\ StopLocals /\ UserStep => TypeOK'
<1> SUFFICES ASSUME TypeOK, StopLocals, UserStep PROVE TypeOK'
  OBVIOUS
<1> USE DEF TypeOK
<1>1. ActorsType'
  <2>1. CASE StopBegin
    <3>1. proc.gen + 1 \in Gens /\ proc.gen \in Gens /\ proc.status \in Statuses
      BY DEF EntryType, Entries, Gens
    <3>2. [loc[User] EXCEPT !.gen = proc.gen + 1, !.prev = proc.status,
                            !.prevGen = proc.gen] \in Locals
      BY <3>1, ZenonT(30) DEF ActorsType, Locals, Actors
    <3>3. QED
      BY <2>1, <3>2, StepType DEF StopBegin, Pcs, Actors
  <2>2. CASE OpRollback
    <3>1. [loc[User] EXCEPT !.op = "rollback"] \in Locals
      BY DEF ActorsType, Locals, Actors
    <3>2. QED
      BY <2>2, <3>1, StepType DEF OpRollback, Pcs, Actors
  <2>3. CASE ~StopBegin /\ ~OpRollback
    BY <2>3, GotoType, PcTypes DEF UserStep, OpUnstart, OpBump, OpRemove,
       OpPatch, OpToggle, StopRefused, StopErr, StopOk, Pcs, Actors
  <2>4. QED
    BY <2>1, <2>2, <2>3
<1>2. EntryType'
  <2>1. proc.gen + 1 \in Nat /\ proc.restarts + 1 \in Nat
    BY DEF EntryType, Entries
  <2>2. CASE StopBegin
    <3>1. [proc EXCEPT !.desired = FALSE, !.gen = proc.gen + 1,
                       !.status = "Stopping"] \in Entries
      BY <2>1 DEF EntryType, Entries, Statuses
    <3>2. QED
      BY <2>2, <3>1 DEF StopBegin, EntryType
  <2>3. CASE StopErr
    <3>1. loc[User].prev \in Statuses /\ loc[User].prevGen \in Nat
      BY <2>3 DEF ActorsType, Locals, StopLocals, StopErr, StopRuns, Actors
    <3>2. QED
      BY <2>3, <3>1 DEF StopErr, EntryType, Entries
  <2>4. CASE StopOk
    BY <2>4 DEF StopOk, EntryType, Entries, Cleared, Forgotten, Statuses,
       MaybeTree
  <2>5. CASE OpBump
    BY <2>5, <2>1 DEF OpBump, EntryType, Entries
  <2>6. CASE OpToggle
    <3>1. [proc EXCEPT !.enabled = FALSE, !.desired = FALSE, !.gen = proc.gen + 1,
                       !.status = "Stopped"] \in Entries
      BY <2>1 DEF EntryType, Entries, Statuses
    <3>2. [proc EXCEPT !.enabled = pc[User] = "enable"] \in Entries
      BY DEF EntryType, Entries
    <3>3. QED
      BY <2>6, <3>1, <3>2 DEF OpToggle, EntryType
  <2>7. CASE OpUnstart \/ OpRemove \/ OpPatch \/ OpRollback \/ StopRefused
    BY <2>7 DEF OpUnstart, OpRemove, OpPatch, OpRollback, StopRefused, EntryType
  <2>8. QED
    BY <2>2, <2>3, <2>4, <2>5, <2>6, <2>7 DEF UserStep
<1>3. UNCHANGED <<os, tasks, budget>>
  BY DEF UserStep, OpUnstart, OpBump, OpRemove, OpPatch, OpRollback, OpToggle,
     StopRefused, StopBegin, StopErr, StopOk
<1>4. QED
  BY <1>1, <1>2, <1>3 DEF OsType, TasksType, BudgetType, os, tasks

(* terminate_retained_process_tree keeps the types, whoever calls it.      *)
LEMMA TerminateType ==
  ASSUME TypeOK, NEW a \in Actors, Terminate(a)
  PROVE  TypeOK'
<1> USE DEF TypeOK
<1>1. ActorsType'
  <2>1. CASE TermTake(a)
    <3>1. [loc[a] EXCEPT !.guard = proc.tree # NoTree, !.owned = proc.pid,
             !.hold = IF proc.tree # NoTree THEN proc.tree ELSE proc.pid] \in Locals
      BY ZenonT(30) DEF ActorsType, Locals, EntryType, Entries
    <3>2. QED
      BY <2>1, <3>1, StepType DEF TermTake, Pcs
  <2>2. CASE KillOk(a) \/ KillFail(a)
    <3>1. [loc[a] EXCEPT !.hold = NoTree, !.guard = FALSE] \in Locals
      BY DEF ActorsType, Locals, MaybeTree
    <3>2. QED
      BY <2>2, <3>1, StepType, PcTypes DEF KillOk, KillFail
  <2>3. CASE TermTimeout(a) \/ TermReturn(a)
    BY <2>3, GotoType, PcTypes DEF TermTimeout, TermReturn
  <2>4. QED
    BY <2>1, <2>2, <2>3 DEF Terminate
<1>2. EntryType'
  <2>1. loc[a].hold \in MaybeTree
    BY DEF ActorsType, Locals
  <2>2. CASE TermTake(a)
    BY <2>2 DEF TermTake, EntryType, Entries, MaybeTree
  <2>3. CASE KillOk(a)
    BY <2>3 DEF KillOk, EntryType, Entries, Forgotten, MaybeTree
  <2>4. CASE KillFail(a)
    BY <2>1, <2>4 DEF KillFail, EntryType, Entries
  <2>5. CASE TermTimeout(a) \/ TermReturn(a)
    BY <2>5 DEF TermTimeout, TermReturn, EntryType
  <2>6. QED
    BY <2>2, <2>3, <2>4, <2>5 DEF Terminate
<1>3. OsType'
  BY DEF Terminate, TermTimeout, TermReturn, TermTake, KillOk, KillFail, os,
     OsType, Terminated
<1>4. UNCHANGED tasks /\ BudgetType'
  BY SpendType DEF Terminate, TermTimeout, TermReturn, TermTake, KillOk,
     KillFail, Fault, BudgetType
<1>5. QED
  BY <1>1, <1>2, <1>3, <1>4 DEF TasksType, tasks

(* do_spawn_with_event and cleanup_failed_spawn keep the types.            *)
LEMMA SpawnType ==
  ASSUME TypeOK, SpawnLocals, NEW a \in Spawners, Spawn(a)
  PROVE  TypeOK'
<1> USE DEF TypeOK
<1>1. /\ a \in Actors /\ loc[a] \in Locals
      /\ proc.gen \in Nat /\ proc.gen + 1 \in Nat /\ proc.restarts \in Nat
  BY DEF Spawners, Actors, ActorsType, EntryType, Entries
<1>2. [loc[a] EXCEPT !.child = NoTree] \in Locals
      /\ [loc[a] EXCEPT !.child = NoTree, !.identity = FALSE] \in Locals
  BY <1>1 DEF Locals, MaybeTree
<1>3. ActorsType'
  <2>1. CASE SpawnBegin(a)
    <3>1. [loc[a] EXCEPT !.gen = proc.gen + 1] \in Locals
      BY <1>1 DEF Locals, Gens
    <3>2. QED
      BY <1>1, <2>1, <3>1, StepType DEF SpawnBegin, Pcs
  <2>2. CASE SpawnExec(a)
    <3>1. spawned + 1 \in Trees
      BY <2>2, BoundsAssumption DEF SpawnExec, OsType, Trees
    <3>2. [loc[a] EXCEPT !.child = spawned + 1] \in Locals
      BY <1>1, <3>1 DEF Locals, MaybeTree
    <3>3. QED
      BY <1>1, <2>2, <3>2, StepType DEF SpawnExec, Pcs
  <2>3. CASE SpawnIdentify(a)
    <3>1. \A known \in BOOLEAN : [loc[a] EXCEPT !.identity = known] \in Locals
      BY <1>1 DEF Locals
    <3>2. QED
      BY <1>1, <2>3, <3>1, StepType DEF SpawnIdentify, Pcs
  <2>4. CASE SpawnAttach(a)
    <3>1. [loc[a] EXCEPT !.count = proc.restarts] \in Locals
      BY <1>1 DEF Locals
    <3>2. QED
      BY <1>1, <2>4, <3>1, StepType, GotoType DEF SpawnAttach, Pcs
  <2>5. CASE SpawnCommit(a) \/ AbandonOk(a) \/ AbandonFail(a)
    BY <1>1, <1>2, <2>5, StepType, PcTypes DEF SpawnCommit, AbandonOk, AbandonFail
  <2>6. CASE SpawnCheck(a) \/ SpawnRefused(a) \/ SpawnExecFail(a) \/ SpawnPid(a)
             \/ SpawnCancelled(a)
    BY <1>1, <2>6, GotoType, PcTypes DEF SpawnCheck, SpawnRefused,
       SpawnExecFail, SpawnPid, SpawnCancelled, Pcs
  <2>7. QED
    BY <2>1, <2>2, <2>3, <2>4, <2>5, <2>6 DEF Spawn
<1>4. EntryType'
  <2>1. loc[a].child \in MaybeTree /\ loc[a].identity \in BOOLEAN
    BY <1>1 DEF Locals
  <2>2. CASE SpawnBegin(a)
    <3>1. (proc.desired \/ loc[a].expect = NoGen) \in BOOLEAN
      OBVIOUS
    <3>2. [proc EXCEPT !.gen = proc.gen + 1, !.status = "Starting",
                       !.desired = proc.desired \/ loc[a].expect = NoGen] \in Entries
      BY <1>1, <3>1 DEF EntryType, Entries, Statuses
    <3>3. QED
      BY <2>2, <3>2 DEF SpawnBegin, EntryType
  <2>3. CASE SpawnExecFail(a)
    <3>1. [Cleared(proc) EXCEPT !.status = "Errored", !.desired = FALSE,
             !.gen = Cleared(proc).gen + 1] \in Entries
      <4>1. Cleared(proc) \in Entries
        BY DEF Cleared, Forgotten, EntryType, Entries, MaybeTree
      <4>2. Cleared(proc).gen + 1 \in Nat
        BY <4>1 DEF Entries
      <4>3. QED
        BY <4>1, <4>2 DEF Entries, Statuses
    <3>2. QED
      BY <2>3, <3>1 DEF SpawnExecFail, EntryType
  <2>4. CASE SpawnPid(a)
    BY <2>1, <2>4 DEF SpawnPid, EntryType, Entries
  <2>5. CASE SpawnCommit(a)
    BY <2>1, <2>5 DEF SpawnCommit, EntryType, Entries, Statuses
  <2>6. CASE AbandonOk(a) \/ AbandonFail(a)
    <3>1. ASSUME NEW p \in MaybeTree PROVE Abandoned(a, p) \in Entries
      BY <1>1, <2>1, <3>1 DEF Abandoned, EntryType, Entries, Statuses
    <3>2. NoTree \in MaybeTree
      BY DEF MaybeTree
    <3>3. QED
      BY <2>1, <2>6, <3>1, <3>2 DEF AbandonOk, AbandonFail, EntryType
  <2>7. CASE SpawnCheck(a) \/ SpawnRefused(a) \/ SpawnExec(a) \/ SpawnIdentify(a)
             \/ SpawnAttach(a) \/ SpawnCancelled(a)
    BY <2>7 DEF SpawnCheck, SpawnRefused, SpawnExec, SpawnIdentify,
       SpawnAttach, SpawnCancelled, EntryType
  <2>8. QED
    BY <2>2, <2>3, <2>4, <2>5, <2>6, <2>7 DEF Spawn
<1>5. OsType'
  <2>1. CASE SpawnExec(a)
    BY <1>1, <2>1, BoundsAssumption, SMTT(30) DEF SpawnExec, OsType, Trees, Locals
  <2>2. CASE AbandonOk(a)
    BY <2>2 DEF AbandonOk, Terminated, OsType
  <2>3. CASE ~SpawnExec(a) /\ ~AbandonOk(a)
    BY <2>3 DEF Spawn, SpawnCheck, SpawnBegin, SpawnRefused, SpawnExecFail,
       SpawnIdentify, SpawnPid, SpawnAttach, SpawnCommit, SpawnCancelled,
       AbandonFail, os, OsType
  <2>4. QED
    BY <2>1, <2>2, <2>3
<1>6. TasksType'
  <2>1. CASE SpawnCommit(a)
    <3>1. loc[a].child \in 1 .. spawned /\ loc[a].gen \in Nat
      BY <2>1 DEF SpawnCommit, SpawnLocals, Spawning, HoldingChild
    <3>2. loc[a].child \in Trees
      BY <3>1, BoundsAssumption DEF OsType, Trees
    <3>3. loc[a].count \in Nat
      BY <1>1 DEF Locals
    <3>4. QED
      BY <2>1, <3>1, <3>2, <3>3 DEF SpawnCommit, TasksType
  <2>2. CASE AbandonFail(a)
    <3>1. loc[a].child \in Trees
      BY <2>2, BoundsAssumption DEF AbandonFail, SpawnLocals, Spawning,
         HoldingChild, OsType, Trees
    <3>2. QED
      BY <1>1, <2>2, <3>1 DEF AbandonFail, TasksType, Gens
  <2>3. CASE ~SpawnCommit(a) /\ ~AbandonFail(a)
    BY <2>3 DEF Spawn, SpawnCheck, SpawnBegin, SpawnRefused, SpawnExec,
       SpawnExecFail, SpawnIdentify, SpawnPid, SpawnAttach, SpawnCancelled,
       AbandonOk, tasks, TasksType
  <2>4. QED
    BY <2>1, <2>2, <2>3
<1>7. BudgetType'
  BY SpendType DEF Spawn, SpawnCheck, SpawnBegin, SpawnRefused, SpawnExec,
     SpawnExecFail, SpawnIdentify, SpawnPid, SpawnAttach, SpawnCommit,
     SpawnCancelled, AbandonOk, AbandonFail, Fault, BudgetType
<1>8. QED
  BY <1>3, <1>4, <1>5, <1>6, <1>7

(* The task of a Restart event keeps the types.                            *)
LEMMA TaskType ==
  ASSUME TypeOK, TaskLocals, NEW a \in Tasks, TaskNext(a)
  PROVE  TypeOK'
<1> USE DEF TypeOK
<1>1. /\ a \in Actors /\ loc[a] \in Locals
      /\ proc.status \in Statuses /\ proc.restarts + 1 \in Nat
  BY DEF Actors, ActorsType, EntryType, Entries
<1>2. Cleared(proc) \in Entries
  BY DEF Cleared, Forgotten, EntryType, Entries, MaybeTree
<1>3. ActorsType'
  <2>1. [loc[a] EXCEPT !.prev = proc.status] \in Locals
    BY <1>1 DEF Locals
  <2>2. QED
    BY <1>1, <2>1, StepType, GotoType, PcTypes DEF TaskNext, TaskClaim,
       TaskRestore, TaskClear, TaskFailed, Pcs
<1>4. EntryType'
  <2>1. CASE TaskClaim(a)
    BY <2>1 DEF TaskClaim, EntryType, Entries, Statuses
  <2>2. CASE TaskRestore(a)
    <3>1. loc[a].prev \in Statuses
      BY <1>1 DEF Locals
    <3>2. QED
      BY <2>2, <3>1 DEF TaskRestore, EntryType, Entries
  <2>3. CASE TaskClear(a)
    <3>1. Cleared(proc).restarts + 1 \in Nat
      BY <1>2 DEF Entries
    <3>2. [Cleared(proc) EXCEPT !.restarts = Cleared(proc).restarts + 1] \in Entries
      BY <1>2, <3>1 DEF Entries
    <3>3. [Cleared(proc) EXCEPT !.status = "Stopped", !.desired = FALSE] \in Entries
      BY <1>2 DEF Entries, Statuses
    <3>4. QED
      BY <2>3, <3>2, <3>3 DEF TaskClear, EntryType
  <2>4. CASE TaskFailed(a)
    <3>1. loc[a].expect + 1 \in Nat
      BY <2>4 DEF TaskFailed, TaskLocals
    <3>2. [Cleared(proc) EXCEPT !.gen = loc[a].expect + 1, !.status = "Errored",
                                !.desired = FALSE] \in Entries
      BY <1>2, <3>1 DEF Entries, Statuses
    <3>3. QED
      BY <2>4, <3>2 DEF TaskFailed, EntryType
  <2>5. QED
    BY <2>1, <2>2, <2>3, <2>4 DEF TaskNext
<1>5. UNCHANGED <<os, tasks, budget>>
  BY DEF TaskNext, TaskClaim, TaskRestore, TaskClear, TaskFailed
<1>6. QED
  BY <1>3, <1>4, <1>5 DEF OsType, TasksType, BudgetType, os, tasks

(* restart_loop keeps the types while it dispatches and handles events.    *)
LEMMA LoopType == TypeOK /\ LoopNext => TypeOK'
<1> SUFFICES ASSUME TypeOK, LoopNext PROVE TypeOK'
  OBVIOUS
<1> USE DEF TypeOK
<1>1. ActorsType'
  <2>1. ASSUME NEW e \in events, LoopRestart(e) PROVE ActorsType'
    <3>1. [Fresh EXCEPT !.gen = e.gen, !.expect = e.gen] \in Locals
      BY FreshType DEF Locals, TasksType, Gens
    <3>2. CASE reg # "present"
      BY <2>1, <3>2 DEF LoopRestart, ActorsType
    <3>3. CASE reg = "present"
      BY <2>1, <3>1, <3>3, StepType DEF LoopRestart, Actors, Pcs
    <3>4. QED
      BY <3>2, <3>3
  <2>2. ASSUME NEW e \in events, LoopExit(e) PROVE ActorsType'
    <3>1. e.kind \in {"Exited", "Max"} /\ e.gen \in Gens /\ e.count \in Nat
      BY <2>2 DEF LoopExit, TasksType, Gens
    <3>2. [Fresh EXCEPT !.op = e.kind, !.gen = e.gen, !.count = e.count] \in Locals
      BY <3>1, FreshType DEF Locals
    <3>3. CASE UNCHANGED <<pc, loc>>
      BY <3>3 DEF ActorsType
    <3>4. CASE Step(Loop, "term", [Fresh EXCEPT !.op = e.kind, !.gen = e.gen,
                                                !.count = e.count])
      BY <3>2, <3>4, StepType DEF Actors, Pcs
    <3>5. QED
      BY <2>2, <3>3, <3>4 DEF LoopExit
  <2>3. CASE LoopExitErr \/ LoopExitOk
    BY <2>3, GotoType DEF LoopExitErr, LoopExitOk, Actors, Pcs
  <2>4. QED
    BY <2>1, <2>2, <2>3 DEF LoopNext
<1>2. EntryType'
  <2>1. Cleared(proc) \in Entries
    BY DEF Cleared, Forgotten, EntryType, Entries, MaybeTree
  <2>2. CASE LoopExitErr
    BY <2>2 DEF LoopExitErr, EntryType, Entries, Statuses
  <2>3. CASE LoopExitOk
    BY <2>1, <2>3 DEF LoopExitOk, EntryType, Entries, Statuses
  <2>4. CASE \E e \in events : LoopRestart(e) \/ LoopExit(e)
    BY <2>4 DEF LoopRestart, LoopExit, EntryType
  <2>5. QED
    BY <2>2, <2>3, <2>4 DEF LoopNext
<1>3. UNCHANGED os /\ TasksType' /\ UNCHANGED budget
  BY DEF LoopNext, LoopRestart, LoopExit, LoopExitErr, LoopExitOk, Take,
     TasksType, tasks
<1>4. QED
  BY <1>1, <1>2, <1>3 DEF OsType, BudgetType, os

(* Cleaners, exit watchers, the OS and the file watcher.                   *)
LEMMA CleanerType ==
  ASSUME TypeOK, NEW c \in cleaners, CleanerIdentify(c) \/ CleanerDone(c)
  PROVE  TypeOK'
<1> USE DEF TypeOK
<1>1. EntryType'
  <2>1. Forgotten(proc) \in Entries
    BY DEF Forgotten, EntryType, Entries, MaybeTree
  <2>2. CASE CleanerIdentify(c)
    BY <2>2 DEF CleanerIdentify, EntryType, Entries
  <2>3. CASE CleanerDone(c)
    BY <2>1, <2>3 DEF CleanerDone, EntryType, Entries, Statuses
  <2>4. QED
    BY <2>2, <2>3
<1>2. OsType' /\ TasksType'
  BY DEF CleanerIdentify, CleanerDone, Terminated, os, tasks, OsType, TasksType
<1>3. UNCHANGED <<pc, loc, budget>>
  BY DEF CleanerIdentify, CleanerDone
<1>4. QED
  BY <1>1, <1>2, <1>3 DEF ActorsType, BudgetType

(* An exit watcher sends a well-typed event.                               *)
LEMMA WatchType ==
  ASSUME TypeOK, NEW w \in watch, WatchExit(w)
  PROVE  TypeOK'
<1> USE DEF TypeOK
<1>1. ExitEvent(w) \in [kind : {"Exited", "Max", "Restart"}, gen : Nat, count : Nat]
  BY DEF ExitEvent, TasksType
<1>2. TasksType'
  BY <1>1 DEF WatchExit, TasksType
<1>3. UNCHANGED <<proc, reg, os, pc, loc, budget>>
  BY DEF WatchExit
<1>4. QED
  BY <1>2, <1>3 DEF EntryType, OsType, os, ActorsType, BudgetType

(* Exits and file changes keep the types.                                  *)
LEMMA EnvironmentType == TypeOK /\ Environment => TypeOK'
<1> SUFFICES ASSUME TypeOK, Environment PROVE TypeOK'
  OBVIOUS
<1> USE DEF TypeOK
<1>1. BudgetType'
  BY SpendType DEF Environment, FileChanged, RootExit
<1>2. OsType'
  BY DEF Environment, FileChanged, RootExit, OsType, os
<1>3. TasksType'
  BY DEF Environment, FileChanged, RootExit, TasksType, tasks, EntryType, Entries
<1>4. UNCHANGED <<proc, reg, pc, loc>>
  BY DEF Environment, FileChanged, RootExit
<1>5. QED
  BY <1>1, <1>2, <1>3, <1>4 DEF EntryType, ActorsType

(* Types are kept by every step, given what the locals hold.               *)
LEMMA NextType == TypeOK /\ StopLocals /\ SpawnLocals /\ TaskLocals /\ [Next]_vars
                    => TypeOK'
<1> SUFFICES ASSUME TypeOK, StopLocals, SpawnLocals, TaskLocals, [Next]_vars
             PROVE  TypeOK'
  OBVIOUS
<1>1. CASE Next
  BY <1>1, RequestsType, UserStepType, TerminateType, SpawnType, TaskType,
     LoopType, CleanerType, WatchType, EnvironmentType DEF Next
<1>2. CASE UNCHANGED vars
  BY <1>2 DEF vars, TypeOK, EntryType, OsType, TasksType, ActorsType, BudgetType
<1>3. QED
  BY <1>1, <1>2

-----------------------------------------------------------------------------
(* The cleanup flag works as a lock.                                       *)

(* A step of one actor moves no other.                                     *)
LEMMA StepMoves ==
  ASSUME ActorsType, NEW a \in Actors, NEW p, NEW l, Step(a, p, l)
  PROVE  /\ pc'[a] = p /\ loc'[a] = IF p = "idle" THEN Fresh ELSE l
         /\ \A b \in Actors \ {a} : pc'[b] = pc[b] /\ loc'[b] = loc[b]
BY DEF ActorsType, Step

(* The same for a step that keeps the locals.                              *)
LEMMA GotoMoves ==
  ASSUME ActorsType, NEW a \in Actors, NEW p, Goto(a, p)
  PROVE  /\ pc'[a] = p /\ loc'[a] = IF p = "idle" THEN Fresh ELSE loc[a]
         /\ \A b \in Actors \ {a} : pc'[b] = pc[b] /\ loc'[b] = loc[b]
BY StepMoves DEF Goto

(* What leaves the flag and the set of killing actors alone.               *)
KillsKept == /\ proc'.cleaning = proc.cleaning
             /\ \A b \in Actors : pc'[b] = "kill" <=> pc[b] = "kill"

(* Such a step cannot disturb the lock.                                    *)
LEMMA CleanupKept == CleanupExclusive /\ KillsKept => CleanupExclusive'
BY DEF CleanupExclusive, KillsKept

(* Accepting a request leaves the flag alone.                              *)
LEMMA RequestsKeepKills == TypeOK /\ Untouched /\ Requests => KillsKept
<1> SUFFICES ASSUME TypeOK, Untouched, Requests PROVE KillsKept
  OBVIOUS
<1>1. proc'.cleaning = proc.cleaning
  BY DEF Requests, OpStart, OpStartExisting, OpStop, OpRestart, OpDelete,
     OpUpdate, OpSetEnabled, OpReset, Untouched, TypeOK, EntryType, Entries
<1>2. \E op, p : Request(op, p) /\ p # "kill"
  BY DEF Requests, OpStart, OpStartExisting, OpStop, OpRestart, OpDelete,
     OpUpdate, OpSetEnabled, OpReset
<1>3. QED
  BY <1>1, <1>2, StepMoves DEF Request, KillsKept, TypeOK, Actors

(* So do the steps of stop and of the operations around it.                *)
LEMMA UserStepKeepsKills == TypeOK /\ UserStep => KillsKept
<1> SUFFICES ASSUME TypeOK, UserStep PROVE KillsKept
  OBVIOUS
<1>1. proc'.cleaning = proc.cleaning
  BY DEF UserStep, OpUnstart, OpBump, OpRemove, OpPatch, OpRollback, OpToggle,
     StopRefused, StopBegin, StopErr, StopOk, TypeOK, EntryType, Entries,
     Cleared, Forgotten
<1>2. pc[User] # "kill"
  BY DEF UserStep, OpUnstart, OpBump, OpRemove, OpPatch, OpRollback, OpToggle,
     StopRefused, StopBegin, StopErr, StopOk
<1>3. \E p, l : Step(User, p, l) /\ p # "kill"
  BY DEF UserStep, OpUnstart, OpBump, OpRemove, OpPatch, OpRollback, OpToggle,
     StopRefused, StopBegin, StopErr, StopOk, Goto, AfterStop
<1>4. QED
  BY <1>1, <1>2, <1>3, StepMoves DEF KillsKept, TypeOK, Actors

(* So does every step of a spawn, its cleanup included.                    *)
LEMMA SpawnKeepsKills ==
  ASSUME TypeOK, NEW a \in Spawners, Spawn(a) PROVE KillsKept
<1>1. proc'.cleaning = proc.cleaning
  BY DEF Spawn, SpawnCheck, SpawnBegin, SpawnRefused, SpawnExec, SpawnExecFail,
     SpawnIdentify, SpawnPid, SpawnAttach, SpawnCommit, SpawnCancelled,
     AbandonOk, AbandonFail, Abandoned, TypeOK, EntryType, Entries, Cleared,
     Forgotten
<1>2. pc[a] # "kill"
  BY DEF Spawn, SpawnCheck, SpawnBegin, SpawnRefused, SpawnExec, SpawnExecFail,
     SpawnIdentify, SpawnPid, SpawnAttach, SpawnCommit, SpawnCancelled,
     AbandonOk, AbandonFail
<1>3. pc'[a] # "kill" /\ \A b \in Actors \ {a} : pc'[b] = pc[b]
  <2>1. SpawnOk(a) # "kill" /\ SpawnErr(a) # "kill" /\ a \in Actors /\ ActorsType
    BY DEF SpawnOk, SpawnErr, Spawners, Actors, TypeOK
  <2>2. CASE SpawnBegin(a) \/ SpawnExec(a)
    BY <2>1, <2>2, StepMoves DEF SpawnBegin, SpawnExec
  <2>3. CASE SpawnIdentify(a)
    BY <2>1, <2>3 DEF SpawnIdentify, Step, ActorsType
  <2>4. CASE SpawnAttach(a)
    BY <2>1, <2>4, StepMoves, GotoMoves DEF SpawnAttach
  <2>5. CASE SpawnCommit(a) \/ AbandonOk(a) \/ AbandonFail(a)
    BY <2>1, <2>5, StepMoves DEF SpawnCommit, AbandonOk, AbandonFail
  <2>6. CASE SpawnCheck(a) \/ SpawnRefused(a) \/ SpawnExecFail(a) \/ SpawnPid(a)
             \/ SpawnCancelled(a)
    BY <2>1, <2>6, GotoMoves DEF SpawnCheck, SpawnRefused, SpawnExecFail,
       SpawnPid, SpawnCancelled
  <2>7. QED
    BY <2>2, <2>3, <2>4, <2>5, <2>6 DEF Spawn
<1>4. QED
  BY <1>1, <1>2, <1>3 DEF KillsKept

(* So does the task of a Restart event between its calls.                  *)
LEMMA TaskKeepsKills ==
  ASSUME TypeOK, NEW a \in Tasks, TaskNext(a) PROVE KillsKept
<1>1. proc'.cleaning = proc.cleaning
  BY DEF TaskNext, TaskClaim, TaskRestore, TaskClear, TaskFailed, TypeOK,
     EntryType, Entries, Cleared, Forgotten
<1>2. pc[a] # "kill" /\ \E p, l : Step(a, p, l) /\ p # "kill"
  BY DEF TaskNext, TaskClaim, TaskRestore, TaskClear, TaskFailed, Goto
<1>3. QED
  BY <1>1, <1>2, StepMoves DEF KillsKept, TypeOK, Actors

(* So does restart_loop between its calls.                                 *)
LEMMA LoopKeepsKills == TypeOK /\ LoopNext => KillsKept
<1> SUFFICES ASSUME TypeOK, LoopNext PROVE KillsKept
  OBVIOUS
<1>1. proc'.cleaning = proc.cleaning
  BY DEF LoopNext, LoopRestart, LoopExit, LoopExitErr, LoopExitOk, TypeOK,
     EntryType, Entries, Cleared, Forgotten
<1>2. \/ UNCHANGED <<pc, loc>>
      \/ \E a \in Actors : \E p, l :
           Step(a, p, l) /\ p # "kill" /\ pc[a] # "kill"
  BY DEF LoopNext, LoopRestart, LoopExit, LoopExitErr, LoopExitOk, Take, Goto,
     Actors
<1>3. QED
  BY <1>1, <1>2, StepMoves DEF KillsKept, TypeOK

(* So do cleaners, exit watchers and the environment.                      *)
LEMMA OthersKeepKills ==
  TypeOK /\ (\/ \E c \in cleaners : CleanerIdentify(c) \/ CleanerDone(c)
             \/ \E w \in watch : WatchExit(w)
             \/ Environment \/ UNCHANGED vars) => KillsKept
BY DEF CleanerIdentify, CleanerDone, WatchExit, Environment, FileChanged,
   RootExit, vars, KillsKept, TypeOK, EntryType, Entries, Forgotten

(* terminate_retained_process_tree takes the flag only when it is free and *)
(* always gives it back.                                                   *)
LEMMA TerminateExclusive ==
  ASSUME TypeOK, CleanupExclusive, NEW a \in Actors, Terminate(a)
  PROVE  CleanupExclusive'
<1>1. CASE TermTake(a)
  <2>1. \A b \in Actors : pc[b] # "kill"
    BY <1>1 DEF TermTake, CleanupExclusive
  <2>2. proc'.cleaning
    BY <1>1 DEF TermTake, TypeOK, EntryType, Entries
  <2>3. pc'[a] = "kill" /\ \A b \in Actors \ {a} : pc'[b] = pc[b]
    BY <1>1, StepMoves DEF TermTake, TypeOK
  <2>4. QED
    BY <2>1, <2>2, <2>3 DEF CleanupExclusive
<1>2. CASE KillOk(a) \/ KillFail(a)
  <2>1. \A b \in Actors \ {a} : pc[b] # "kill"
    BY <1>2 DEF KillOk, KillFail, CleanupExclusive
  <2>2. ~proc'.cleaning
    BY <1>2 DEF KillOk, KillFail, TypeOK, EntryType, Entries, Forgotten
  <2>3. TermOk(a) # "kill" /\ TermErr(a) # "kill"
    BY DEF TermOk, TermErr
  <2>4. pc'[a] # "kill" /\ \A b \in Actors \ {a} : pc'[b] = pc[b]
    BY <1>2, <2>3, StepMoves DEF KillOk, KillFail, TypeOK
  <2>5. QED
    BY <2>1, <2>2, <2>4 DEF CleanupExclusive
<1>3. CASE TermTimeout(a) \/ TermReturn(a)
  <2>1. proc' = proc /\ pc[a] # "kill"
    BY <1>3 DEF TermTimeout, TermReturn, Terminating
  <2>2. TermOk(a) # "kill" /\ TermErr(a) # "kill"
    BY DEF TermOk, TermErr
  <2>3. pc'[a] # "kill" /\ \A b \in Actors \ {a} : pc'[b] = pc[b]
    BY <1>3, <2>2, GotoMoves DEF TermTimeout, TermReturn, TypeOK
  <2>4. QED
    BY <2>1, <2>3, CleanupKept DEF KillsKept
<1>4. QED
  BY <1>1, <1>2, <1>3 DEF Terminate

(* Every step keeps the flag a lock.                                       *)
LEMMA NextExclusive ==
  TypeOK /\ Untouched /\ CleanupExclusive /\ [Next]_vars => CleanupExclusive'
BY CleanupKept, RequestsKeepKills, UserStepKeepsKills, SpawnKeepsKills,
   TaskKeepsKills, LoopKeepsKills, OthersKeepKills, TerminateExclusive DEF Next

-----------------------------------------------------------------------------
(* Nothing happens before the process is registered.                       *)

(* Only start makes the entry present, and until then no step changes      *)
(* anything.                                                               *)
LEMMA NextUntouched == TypeOK /\ Untouched /\ [Next]_vars => Untouched'
<1> SUFFICES ASSUME TypeOK, Untouched, [Next]_vars PROVE Untouched'
  OBVIOUS
<1>1. CASE UNCHANGED vars
  BY <1>1 DEF vars, Untouched
<1>2. CASE Requests
  <2>1. reg' = "present" \/ (reg' = reg /\ reg = "present")
    BY <1>2 DEF Requests, OpStart, OpStartExisting, OpStop, OpRestart,
       OpDelete, OpUpdate, OpSetEnabled, OpReset
  <2>2. QED
    BY <2>1 DEF Untouched
<1>3. CASE UserStep
  <2>1. pc[User] # "idle" /\ (reg' = "deleted" \/ reg' = reg)
    BY <1>3 DEF UserStep, OpUnstart, OpBump, OpRemove, OpPatch, OpRollback,
       OpToggle, StopRefused, StopBegin, StopErr, StopOk
  <2>2. QED
    BY <2>1 DEF Untouched, Actors
<1>4. CASE \E a \in Spawners : Spawn(a)
  <2>1. \E a \in Actors : pc[a] # "idle" /\ reg' = reg
    BY <1>4 DEF Spawners, Actors, Spawn, SpawnCheck, SpawnBegin, SpawnRefused,
       SpawnExec, SpawnExecFail, SpawnIdentify, SpawnPid, SpawnAttach,
       SpawnCommit, SpawnCancelled, AbandonOk, AbandonFail
  <2>2. QED
    BY <2>1 DEF Untouched
<1>5. CASE \E a \in Tasks : TaskNext(a)
  <2>1. \E a \in Actors : pc[a] # "idle" /\ reg' = reg
    BY <1>5 DEF Actors, TaskNext, TaskClaim, TaskRestore, TaskClear, TaskFailed
  <2>2. QED
    BY <2>1 DEF Untouched
<1>6. CASE \E a \in Actors : Terminate(a)
  <2>1. \E a \in Actors : pc[a] # "idle" /\ reg' = reg
    BY <1>6 DEF Terminate, TermTimeout, TermReturn, TermTake, KillOk, KillFail,
       Terminating
  <2>2. QED
    BY <2>1 DEF Untouched
<1>7. CASE LoopNext
  <2>1. (pc[Loop] # "idle" \/ events # {}) /\ reg' = reg
    BY <1>7 DEF LoopNext, LoopRestart, LoopExit, LoopExitErr, LoopExitOk
  <2>2. QED
    BY <2>1 DEF Untouched, Actors
<1>8. CASE \/ \E c \in cleaners : CleanerIdentify(c) \/ CleanerDone(c)
           \/ \E w \in watch : WatchExit(w)
  <2>1. (cleaners # {} \/ watch # {}) /\ reg' = reg
    BY <1>8 DEF CleanerIdentify, CleanerDone, WatchExit
  <2>2. QED
    BY <2>1 DEF Untouched
<1>9. CASE Environment
  BY <1>9 DEF Environment, FileChanged, RootExit, tasks, Untouched
<1>10. QED
  BY <1>1, <1>2, <1>3, <1>4, <1>5, <1>6, <1>7, <1>8, <1>9 DEF Next

-----------------------------------------------------------------------------
(* Generations.                                                            *)

GenInv == StopLocals /\ SpawnLocals /\ TaskLocals /\ GenerationsOrdered
          /\ SpawnsDistinct

(* A step of actor a (or of nobody: Loop does not spawn) that spawns       *)
(* nothing, begins no stop and no spawn, keeps the locals GenInv is about  *)
(* and lets the generation only grow, and not at all while a stop runs.    *)
Calm(a) ==
  /\ UNCHANGED <<spawned, genOf>>
  /\ proc'.gen >= proc.gen
  /\ StopRuns => proc'.gen = proc.gen /\ ~proc'.desired
  /\ \A b \in Actors \ {a} : pc'[b] = pc[b] /\ loc'[b] = loc[b]
  /\ a \in Spawners => pc'[a] # "exec"
  /\ a \in Spawners /\ pc'[a] \in HoldingChild =>
       pc[a] \in HoldingChild /\ loc'[a].gen = loc[a].gen /\ loc'[a].child = loc[a].child
  /\ a = User /\ StopRuns' =>
       StopRuns /\ loc'[a].gen = loc[a].gen /\ loc'[a].prevGen = loc[a].prevGen
  /\ a \in Tasks /\ pc'[a] # "idle" => pc[a] # "idle" /\ loc'[a].expect = loc[a].expect

(* The actors are apart: restart_loop spawns nothing, the user is no task. *)
LEMMA LoopApart == Loop \notin Spawners /\ Loop # User /\ User \notin Tasks
BY TasksAssumption DEF Spawners, Loop, User

(* A calm step keeps the facts about generations.                          *)
LEMMA CalmGenInv ==
  ASSUME TypeOK, TypeOK', GenInv, NEW a \in Actors, Calm(a)
  PROVE  GenInv'
<1> USE DEF GenInv
<1>1. User \in Actors /\ Tasks \subseteq Actors /\ Spawners \subseteq Actors
  BY DEF Actors, Spawners
<1>2. proc.gen \in Nat /\ proc'.gen \in Nat /\ spawned \in Nat /\ spawned' = spawned
      /\ genOf' = genOf
  BY DEF TypeOK, EntryType, Entries, OsType, Calm
<1>3. StopRuns' => /\ StopRuns /\ loc'[User].gen = loc[User].gen
                   /\ loc'[User].prevGen = loc[User].prevGen
  BY <1>1 DEF Calm, StopRuns
<1>4. StopLocals'
  BY <1>3 DEF StopLocals
<1>5. SpawnLocals'
  <2>1. ASSUME NEW b \in Spawners PROVE
          /\ pc'[b] \in Spawning => pc[b] \in Spawning /\ loc'[b].gen = loc[b].gen
          /\ pc'[b] \in HoldingChild => pc[b] \in HoldingChild /\ loc'[b].child = loc[b].child
    BY <1>1, <2>1 DEF Calm, Spawning, HoldingChild
  <2>2. QED
    BY <1>2, <2>1 DEF SpawnLocals, Spawning, HoldingChild
<1>6. TaskLocals'
  BY <1>1 DEF TaskLocals, Calm
<1>7. Ceiling \in Nat /\ Ceiling' \in Nat /\ Ceiling' >= Ceiling
  BY <1>2, <1>3 DEF Ceiling, Calm, StopLocals, GenerationsOrdered
<1>8. ASSUME NEW b \in InFlight' PROVE b \in InFlight /\ loc'[b].gen = loc[b].gen
  BY <1>1, <1>8 DEF InFlight, Calm
<1>9. GenerationsOrdered'
  <2>1. (StopRuns => /\ ~proc.desired /\ proc.gen = loc[User].gen
                     /\ proc.gen = loc[User].prevGen + 1)'
    BY <1>3 DEF Calm, GenerationsOrdered
  <2>2. \A t \in 1 .. spawned : genOf[t] \in 0 .. Ceiling'
    BY <1>2, <1>7 DEF GenerationsOrdered
  <2>3. \A b \in InFlight' : /\ loc'[b].gen \in 0 .. Ceiling'
                             /\ \A t \in 1 .. spawned : genOf[t] # loc'[b].gen
                             /\ \A c \in InFlight' : loc'[b].gen = loc'[c].gen => b = c
    BY <1>7, <1>8 DEF GenerationsOrdered
  <2>4. QED
    BY <1>2, <2>1, <2>2, <2>3 DEF GenerationsOrdered
<1>10. SpawnsDistinct'
  BY <1>2 DEF SpawnsDistinct
<1>11. QED
  BY <1>4, <1>5, <1>6, <1>9, <1>10

(* Accepting a request is calm.                                            *)
LEMMA RequestsCalm == TypeOK /\ Untouched /\ GenInv /\ Requests => Calm(User)
<1> SUFFICES ASSUME TypeOK, Untouched, GenInv, Requests PROVE Calm(User)
  OBVIOUS
<1>1. \E op, p : Request(op, p) /\ p \notin {"exec", "term", "kill", "stopErr", "stopOk"}
                 /\ p \notin HoldingChild
  BY DEF Requests, OpStart, OpStartExisting, OpStop, OpRestart, OpDelete,
     OpUpdate, OpSetEnabled, OpReset, HoldingChild, Spawning
<1>2. pc[User] = "idle" /\ pc'[User] \notin {"exec", "term", "kill", "stopErr", "stopOk"}
      /\ pc'[User] \notin HoldingChild
      /\ \A b \in Actors \ {User} : pc'[b] = pc[b] /\ loc'[b] = loc[b]
  BY <1>1, StepMoves DEF Request, TypeOK, Actors
<1>3. proc'.gen = proc.gen /\ proc.gen \in Nat
  BY DEF Requests, OpStart, OpStartExisting, OpStop, OpRestart, OpDelete,
     OpUpdate, OpSetEnabled, OpReset, Untouched, TypeOK, EntryType, Entries
<1>4. UNCHANGED <<spawned, genOf>>
  BY DEF Requests, OpStart, OpStartExisting, OpStop, OpRestart, OpDelete,
     OpUpdate, OpSetEnabled, OpReset, os
<1>5. QED
  BY <1>2, <1>3, <1>4, LoopApart DEF Calm, StopRuns

(* The generation a stop takes, and the one a failed stop returns to.      *)
LEMMA StopGenInv ==
  TypeOK /\ TypeOK' /\ GenInv /\ (StopBegin \/ StopErr) => GenInv'
<1> SUFFICES ASSUME TypeOK, TypeOK', GenInv, StopBegin \/ StopErr PROVE GenInv'
  OBVIOUS
<1> USE DEF GenInv
<1>1. /\ User \in Actors /\ UNCHANGED <<spawned, genOf>> /\ spawned \in Nat
      /\ proc.gen \in Nat /\ proc'.gen \in Nat
  BY DEF StopBegin, StopErr, os, TypeOK, OsType, EntryType, Entries, Actors
<1>2. \A b \in Actors \ {User} : pc'[b] = pc[b] /\ loc'[b] = loc[b]
  BY <1>1, StepMoves, GotoMoves DEF StopBegin, StopErr, TypeOK
<1>3. pc[User] \notin Spawning /\ pc'[User] \notin Spawning
  BY <1>1, StepMoves, GotoMoves DEF StopBegin, StopErr, TypeOK, Spawning
<1>4. SpawnLocals' /\ TaskLocals' /\ SpawnsDistinct'
  BY <1>1, <1>2, <1>3, LoopApart DEF SpawnLocals, TaskLocals, SpawnsDistinct,
     Spawners, Actors, HoldingChild
<1>5. InFlight' = InFlight /\ \A b \in InFlight : loc'[b] = loc[b]
  BY <1>2, <1>3 DEF InFlight, Spawners, Actors, Spawning
<1>6. CASE StopBegin
  <2>1. ~StopRuns /\ StopRuns' /\ loc'[User].gen = proc.gen + 1
        /\ loc'[User].prevGen = proc.gen
    <3>1. loc[User] \in Locals
      BY <1>1 DEF TypeOK, ActorsType
    <3>2. pc[User] = "stop" /\ pc'[User] = "term"
          /\ loc'[User] = [loc[User] EXCEPT !.gen = proc.gen + 1,
                             !.prev = proc.status, !.prevGen = proc.gen]
      BY <1>1, <1>6, StepMoves DEF StopBegin, TypeOK
    <3>3. QED
      BY <3>1, <3>2 DEF StopRuns, Locals
  <2>2. proc'.gen = proc.gen + 1 /\ ~proc'.desired
    BY <1>6 DEF StopBegin, TypeOK, EntryType, Entries
  <2>3. Ceiling = proc.gen /\ Ceiling' = proc.gen
    BY <2>1 DEF Ceiling
  <2>4. StopLocals'
    BY <1>1, <2>1 DEF StopLocals
  <2>5. GenerationsOrdered'
    BY <1>1, <1>5, <2>1, <2>2, <2>3 DEF GenerationsOrdered
  <2>6. QED
    BY <1>4, <2>4, <2>5
<1>7. CASE StopErr
  <2>1. StopRuns /\ ~StopRuns'
    BY <1>1, <1>7, GotoMoves DEF StopErr, StopRuns, TypeOK
  <2>2. Ceiling = loc[User].prevGen /\ Ceiling' = loc[User].prevGen
    <3>1. proc.gen = loc[User].gen
      BY <2>1 DEF GenerationsOrdered
    <3>2. proc'.gen = loc[User].prevGen
      BY <1>7, <3>1 DEF StopErr, TypeOK, EntryType, Entries
    <3>3. QED
      BY <2>1, <3>2 DEF Ceiling
  <2>3. StopLocals'
    BY <2>1 DEF StopLocals
  <2>4. GenerationsOrdered'
    BY <1>1, <1>5, <2>1, <2>2 DEF GenerationsOrdered
  <2>5. QED
    BY <1>4, <2>3, <2>4
<1>8. QED
  BY <1>6, <1>7

(* The user's steps keep them: all but begin and failure of a stop are     *)
(* calm.                                                                   *)
LEMMA UserStepGenInv ==
  TypeOK /\ TypeOK' /\ GenInv /\ UserStep => GenInv'
<1> SUFFICES ASSUME TypeOK, TypeOK', GenInv, UserStep PROVE GenInv'
  OBVIOUS
<1>1. User \in Actors /\ proc.gen \in Nat
  BY DEF Actors, TypeOK, EntryType, Entries
<1>2. CASE StopBegin \/ StopErr
  BY <1>2, StopGenInv
<1>3. CASE ~StopBegin /\ ~StopErr
  <2>1. UNCHANGED <<spawned, genOf>>
    BY <1>3 DEF UserStep, OpUnstart, OpBump, OpRemove, OpPatch, OpRollback,
       OpToggle, StopRefused, StopOk, os
  <2>2. pc'[User] \notin Spawning /\ ~StopRuns'
    BY <1>1, <1>3, StepMoves, GotoMoves DEF UserStep, OpUnstart, OpBump,
       OpRemove, OpPatch, OpRollback, OpToggle, StopRefused, StopOk, AfterStop,
       StopRuns, Spawning, TypeOK
  <2>3. \A b \in Actors \ {User} : pc'[b] = pc[b] /\ loc'[b] = loc[b]
    BY <1>1, <1>3, StepMoves, GotoMoves DEF UserStep, OpUnstart, OpBump,
       OpRemove, OpPatch, OpRollback, OpToggle, StopRefused, StopOk, TypeOK
  <2>4. CASE StopOk
    <3>1. proc'.gen = proc.gen /\ proc'.desired = proc.desired
      BY <2>4 DEF StopOk, Cleared, Forgotten, TypeOK, EntryType, Entries
    <3>2. QED
      BY <1>1, <2>1, <2>2, <2>3, <3>1, LoopApart, CalmGenInv
         DEF Calm, GenInv, GenerationsOrdered, Spawning, HoldingChild
  <2>5. CASE ~StopOk
    <3>1. ~StopRuns
      BY <1>3, <2>5 DEF UserStep, OpUnstart, OpBump, OpRemove, OpPatch,
         OpRollback, OpToggle, StopRefused, StopRuns
    <3>2. proc'.gen \in {proc.gen, proc.gen + 1}
      <4>1. CASE OpToggle
        BY <4>1 DEF OpToggle, TypeOK, EntryType, Entries
      <4>2. CASE OpBump
        BY <4>2 DEF OpBump, TypeOK, EntryType, Entries
      <4>3. CASE OpUnstart \/ OpRemove \/ OpPatch \/ OpRollback \/ StopRefused
        BY <4>3 DEF OpUnstart, OpRemove, OpPatch, OpRollback, StopRefused
      <4>4. QED
        BY <1>3, <2>5, <4>1, <4>2, <4>3 DEF UserStep
    <3>3. QED
      BY <1>1, <2>1, <2>2, <2>3, <3>1, <3>2, LoopApart, CalmGenInv
         DEF Calm, Spawning, HoldingChild
  <2>6. QED
    BY <2>4, <2>5
<1>4. QED
  BY <1>2, <1>3

(* terminate_retained_process_tree is calm.                                *)
LEMMA TerminateGenInv ==
  ASSUME TypeOK, TypeOK', GenInv, NEW a \in Actors, Terminate(a)
  PROVE  GenInv'
<1>1. /\ proc.gen \in Nat /\ proc'.gen = proc.gen /\ proc'.desired = proc.desired
      /\ UNCHANGED <<spawned, genOf>> /\ pc[a] \in {"term", "kill"}
  BY DEF Terminate, TermTimeout, TermReturn, TermTake, KillOk, KillFail,
     Terminating, Forgotten, os, TypeOK, EntryType, Entries
<1>2. /\ pc'[a] # "exec" /\ pc'[a] \notin HoldingChild
      /\ \A b \in Actors \ {a} : pc'[b] = pc[b] /\ loc'[b] = loc[b]
  BY StepMoves, GotoMoves DEF Terminate, TermTimeout, TermReturn, TermTake,
     KillOk, KillFail, TermOk, TermErr, HoldingChild, Spawning, TypeOK
<1>3. pc'[a] # "idle" => /\ loc'[a].gen = loc[a].gen
                         /\ loc'[a].prevGen = loc[a].prevGen
                         /\ loc'[a].expect = loc[a].expect
  <2>1. loc[a] \in Locals
    BY DEF TypeOK, ActorsType
  <2>2. CASE TermTake(a)
    <3>1. loc'[a] = [loc[a] EXCEPT !.guard = proc.tree # NoTree, !.owned = proc.pid,
             !.hold = IF proc.tree # NoTree THEN proc.tree ELSE proc.pid]
      BY <2>2, StepMoves DEF TermTake, TypeOK
    <3>2. QED
      BY <2>1, <3>1 DEF Locals
  <2>3. CASE KillOk(a) \/ KillFail(a)
    <3>1. pc'[a] # "idle" =>
            loc'[a] = [loc[a] EXCEPT !.hold = NoTree, !.guard = FALSE]
      BY <2>3, StepMoves DEF KillOk, KillFail, TypeOK
    <3>2. QED
      BY <2>1, <3>1 DEF Locals
  <2>4. CASE TermTimeout(a) \/ TermReturn(a)
    BY <2>4, GotoMoves DEF TermTimeout, TermReturn, TypeOK
  <2>5. QED
    BY <2>2, <2>3, <2>4 DEF Terminate
<1>4. Calm(a)
  BY <1>1, <1>2, <1>3 DEF Calm, GenInv, GenerationsOrdered, StopRuns
<1>5. QED
  BY <1>4, CalmGenInv

(* A spawn begins: its generation is above every one taken before.         *)
LEMMA SpawnBeginGenInv ==
  ASSUME TypeOK, TypeOK', GenInv, NEW a \in Spawners, SpawnBegin(a)
  PROVE  GenInv'
<1> USE DEF GenInv
<1>1. /\ a \in Actors /\ User \in Actors /\ proc.gen \in Nat /\ spawned \in Nat
      /\ loc[a] \in Locals /\ UNCHANGED <<spawned, genOf>>
  BY DEF Spawners, Actors, TypeOK, EntryType, Entries, OsType, ActorsType,
     SpawnBegin, os
<1>2. pc[a] = "begin" /\ pc'[a] = "exec"
      /\ loc'[a] = [loc[a] EXCEPT !.gen = proc.gen + 1]
      /\ \A b \in Actors \ {a} : pc'[b] = pc[b] /\ loc'[b] = loc[b]
  BY <1>1, StepMoves DEF SpawnBegin, TypeOK
<1>3. loc'[a].gen = proc.gen + 1 /\ loc'[a].expect = loc[a].expect
  BY <1>1, <1>2 DEF Locals
<1>4. proc'.gen = proc.gen + 1
  BY DEF SpawnBegin, TypeOK, EntryType, Entries
<1>5. ~StopRuns
  <2>1. CASE a = User
    BY <1>2, <2>1 DEF StopRuns
  <2>2. CASE a \in Tasks
    <3>1. loc[a].expect # NoGen
      BY <1>2, <2>2 DEF TaskLocals, NoGen
    <3>2. proc.desired
      BY <3>1 DEF SpawnBegin, SpawnAllowed
    <3>3. QED
      BY <3>2 DEF GenerationsOrdered
  <2>3. QED
    BY <2>1, <2>2 DEF Spawners
<1>6. ~StopRuns'
  BY <1>1, <1>2, <1>5 DEF StopRuns
<1>7. Ceiling = proc.gen /\ Ceiling' = proc.gen + 1
  BY <1>4, <1>5, <1>6 DEF Ceiling
<1>8. StopLocals'
  BY <1>6 DEF StopLocals
<1>9. SpawnLocals' /\ TaskLocals'
  <2>1. SpawnLocals'
    <3>1. ASSUME NEW b \in Spawners, b # a
          PROVE  /\ pc'[b] \in Spawning => loc'[b].gen \in Nat
                 /\ pc'[b] \in HoldingChild => /\ loc'[b].child \in 1 .. spawned
                                               /\ genOf[loc'[b].child] = loc'[b].gen
      <4>1. pc'[b] = pc[b] /\ loc'[b] = loc[b]
        BY <1>2, <3>1 DEF Spawners, Actors
      <4>2. QED
        BY <4>1 DEF SpawnLocals
    <3>2. loc'[a].gen \in Nat /\ pc'[a] \notin HoldingChild
      BY <1>1, <1>2, <1>3 DEF HoldingChild
    <3>3. QED
      BY <1>1, <3>1, <3>2 DEF SpawnLocals
  <2>2. TaskLocals'
    BY <1>2, <1>3 DEF TaskLocals, Actors
  <2>3. QED
    BY <2>1, <2>2
<1>10. \A b \in InFlight' : b # a => b \in InFlight /\ loc'[b].gen = loc[b].gen
  BY <1>2 DEF InFlight, Spawners, Actors
<1>11. GenerationsOrdered'
  <2>1. \A t \in 1 .. spawned : genOf[t] \in 0 .. proc.gen
    BY <1>7 DEF GenerationsOrdered
  <2>2. \A b \in InFlight' : b # a =>
          /\ loc'[b].gen \in 0 .. proc.gen
          /\ \A t \in 1 .. spawned : genOf[t] # loc'[b].gen
          /\ \A c \in InFlight' : c # a /\ loc'[b].gen = loc'[c].gen => b = c
    BY <1>7, <1>10 DEF GenerationsOrdered
  <2>3. \A t \in 1 .. spawned : genOf[t] # loc'[a].gen /\ genOf[t] \in 0 .. proc.gen + 1
    BY <1>1, <1>3, <2>1
  <2>4. \A b \in InFlight' : b # a => /\ loc'[b].gen # loc'[a].gen
                                      /\ loc'[b].gen \in 0 .. proc.gen + 1
    BY <1>1, <1>3, <2>2
  <2>5. loc'[a].gen \in 0 .. proc.gen + 1
    BY <1>1, <1>3
  <2>6. QED
    BY <1>1, <1>6, <1>7, <2>2, <2>3, <2>4, <2>5 DEF GenerationsOrdered
<1>12. SpawnsDistinct'
  BY <1>1 DEF SpawnsDistinct
<1>13. QED
  BY <1>8, <1>9, <1>11, <1>12

(* The OS tree of a spawn appears: its generation leaves the flight.       *)
LEMMA SpawnExecGenInv ==
  ASSUME TypeOK, TypeOK', GenInv, NEW a \in Spawners, SpawnExec(a)
  PROVE  GenInv'
<1> USE DEF GenInv
<1> DEFINE t == spawned + 1
<1>1. /\ a \in Actors /\ User \in Actors /\ spawned \in Nat /\ t \in Trees
      /\ loc[a] \in Locals /\ proc' = proc
  BY BoundsAssumption DEF Spawners, Actors, TypeOK, OsType, ActorsType,
     SpawnExec, Trees
<1>2. spawned' = t /\ genOf' = [genOf EXCEPT ![t] = loc[a].gen]
  BY DEF SpawnExec
<1>3. pc[a] = "exec" /\ pc'[a] = "identify"
      /\ loc'[a] = [loc[a] EXCEPT !.child = t]
      /\ \A b \in Actors \ {a} : pc'[b] = pc[b] /\ loc'[b] = loc[b]
  BY <1>1, StepMoves DEF SpawnExec, TypeOK
<1>4. /\ loc'[a].gen = loc[a].gen /\ loc'[a].child = t
      /\ loc'[a].expect = loc[a].expect /\ loc'[a].prevGen = loc[a].prevGen
  BY <1>1, <1>3 DEF Locals
<1>5. a \in InFlight
  BY <1>3 DEF InFlight
<1>6. genOf'[t] = loc[a].gen /\ \A s \in 1 .. spawned : genOf'[s] = genOf[s]
  BY <1>1, <1>2 DEF TypeOK, OsType, Trees
<1>7. (StopRuns' <=> StopRuns) /\ (StopRuns => loc'[User] = loc[User])
  BY <1>1, <1>3 DEF StopRuns
<1>8. Ceiling' = Ceiling
  BY <1>1, <1>7 DEF Ceiling
<1>9. StopLocals' /\ TaskLocals'
  BY <1>3, <1>4, <1>7 DEF StopLocals, TaskLocals, Actors
<1>10. SpawnLocals'
  <2>1. ASSUME NEW b \in Spawners, b # a
        PROVE  /\ pc'[b] \in Spawning => loc'[b].gen \in Nat
               /\ pc'[b] \in HoldingChild => /\ loc'[b].child \in 1 .. spawned'
                                             /\ genOf'[loc'[b].child] = loc'[b].gen
    <3>1. pc'[b] = pc[b] /\ loc'[b] = loc[b]
      BY <1>3, <2>1 DEF Spawners, Actors
    <3>2. QED
      BY <1>1, <1>2, <1>6, <3>1 DEF SpawnLocals
  <2>2. loc[a].gen \in Nat
    BY <1>3 DEF SpawnLocals, Spawning
  <2>3. t \in 1 .. spawned'
    BY <1>1, <1>2
  <2>4. QED
    BY <1>4, <1>6, <2>1, <2>2, <2>3 DEF SpawnLocals
<1>11. \A b \in InFlight' : b # a /\ b \in InFlight /\ loc'[b].gen = loc[b].gen
  BY <1>3 DEF InFlight, Spawners, Actors
<1>12. \A s \in 1 .. spawned' : s = t \/ s \in 1 .. spawned
  BY <1>1, <1>2
<1>13. GenerationsOrdered'
  <2>1. (StopRuns => /\ ~proc.desired /\ proc.gen = loc[User].gen
                     /\ proc.gen = loc[User].prevGen + 1)'
    BY <1>1, <1>7 DEF GenerationsOrdered
  <2>2. \A s \in 1 .. spawned' : genOf'[s] \in 0 .. Ceiling'
    BY <1>5, <1>6, <1>8, <1>12 DEF GenerationsOrdered
  <2>3. \A b \in InFlight' :
          /\ loc'[b].gen \in 0 .. Ceiling'
          /\ \A s \in 1 .. spawned' : genOf'[s] # loc'[b].gen
          /\ \A c \in InFlight' : loc'[b].gen = loc'[c].gen => b = c
    BY <1>5, <1>6, <1>8, <1>11, <1>12 DEF GenerationsOrdered
  <2>4. QED
    BY <2>1, <2>2, <2>3 DEF GenerationsOrdered
<1>14. SpawnsDistinct'
  <2>1. \A s \in 1 .. spawned : genOf[s] # loc[a].gen
    BY <1>5 DEF GenerationsOrdered
  <2>2. QED
    BY <1>6, <1>12, <2>1 DEF SpawnsDistinct
<1>15. QED
  BY <1>9, <1>10, <1>13, <1>14

(* The other steps of a spawn move the generation only from their own.     *)
LEMMA SpawnCalm ==
  ASSUME TypeOK, TypeOK', GenInv, NEW a \in Spawners, Spawn(a),
         ~SpawnBegin(a), ~SpawnExec(a)
  PROVE  Calm(a)
<1>1. a \in Actors /\ loc[a] \in Locals /\ proc.gen \in Nat /\ ActorsType
  BY DEF Spawners, Actors, TypeOK, ActorsType, EntryType, Entries
<1>2. UNCHANGED <<spawned, genOf>>
  BY DEF Spawn, SpawnCheck, SpawnRefused, SpawnExecFail, SpawnIdentify,
     SpawnPid, SpawnAttach, SpawnCommit, SpawnCancelled, AbandonOk,
     AbandonFail, os
<1>3. /\ proc'.gen >= proc.gen
      /\ StopRuns => proc'.gen = proc.gen /\ ~proc'.desired
  <2>1. CASE proc'.gen = proc.gen /\ proc'.desired = proc.desired
    BY <1>1, <2>1 DEF GenInv, GenerationsOrdered
  <2>2. CASE SpawnExecFail(a)
    <3>1. CASE proc' = proc
      BY <2>1, <3>1
    <3>2. CASE proc' # proc
      <4>1. proc.desired
        BY <2>2, <3>2 DEF SpawnExecFail
      <4>2. proc'.gen = proc.gen + 1
        BY <2>2, <3>2 DEF SpawnExecFail, Cleared, Forgotten, TypeOK, EntryType,
           Entries
      <4>3. QED
        BY <1>1, <4>1, <4>2 DEF GenInv, GenerationsOrdered
    <3>3. QED
      BY <3>1, <3>2
  <2>3. CASE AbandonOk(a) \/ AbandonFail(a)
    <3>1. CASE proc.gen # loc[a].gen
      BY <2>1, <2>3, <3>1 DEF AbandonOk, AbandonFail, Abandoned
    <3>2. CASE proc.gen = loc[a].gen
      <4>1. loc[a].child \in 1 .. spawned /\ genOf[loc[a].child] = loc[a].gen
        BY <2>3 DEF AbandonOk, AbandonFail, GenInv, SpawnLocals, HoldingChild,
           Spawning
      <4>2. ~StopRuns
        BY <1>1, <3>2, <4>1 DEF GenInv, GenerationsOrdered, Ceiling, StopLocals
      <4>3. proc'.gen = proc.gen + 1
        BY <2>3, <3>2 DEF AbandonOk, AbandonFail, Abandoned, TypeOK, EntryType,
           Entries
      <4>4. QED
        BY <1>1, <4>2, <4>3
    <3>3. QED
      BY <3>1, <3>2
  <2>4. CASE SpawnCheck(a) \/ SpawnRefused(a) \/ SpawnIdentify(a) \/ SpawnPid(a)
             \/ SpawnAttach(a) \/ SpawnCommit(a) \/ SpawnCancelled(a)
    BY <2>1, <2>4 DEF SpawnCheck, SpawnRefused, SpawnIdentify, SpawnPid,
       SpawnAttach, SpawnCommit, SpawnCancelled, TypeOK, EntryType, Entries
  <2>5. QED
    BY <2>2, <2>3, <2>4 DEF Spawn
<1>4. /\ pc[a] # "idle" /\ pc'[a] \notin {"exec", "term", "kill", "stopErr", "stopOk"}
      /\ pc'[a] \in HoldingChild =>
           pc[a] \in HoldingChild /\ loc'[a].gen = loc[a].gen /\ loc'[a].child = loc[a].child
      /\ pc'[a] # "idle" => loc'[a].expect = loc[a].expect
      /\ \A b \in Actors \ {a} : pc'[b] = pc[b] /\ loc'[b] = loc[b]
  <2>1. {SpawnOk(a), SpawnErr(a)} \cap
          (HoldingChild \cup {"exec", "term", "kill", "stopErr", "stopOk"}) = {}
    BY DEF SpawnOk, SpawnErr, HoldingChild, Spawning
  <2>2. CASE SpawnIdentify(a)
    <3>1. \E p \in {"pid", "abandon"}, known \in BOOLEAN :
            pc'[a] = p /\ loc'[a] = [loc[a] EXCEPT !.identity = known]
      BY <1>1, <2>2 DEF SpawnIdentify, Step, ActorsType
    <3>2. pc[a] = "identify" /\ \A b \in Actors \ {a} : pc'[b] = pc[b] /\ loc'[b] = loc[b]
      BY <1>1, <2>2 DEF SpawnIdentify, Step, ActorsType
    <3>3. QED
      BY <1>1, <3>1, <3>2 DEF Locals, HoldingChild, Spawning
  <2>3. CASE SpawnAttach(a)
    <3>1. /\ pc[a] = "attach" /\ pc'[a] \in {"commit", "abandon"}
          /\ loc'[a] \in {loc[a], [loc[a] EXCEPT !.count = proc.restarts]}
          /\ \A b \in Actors \ {a} : pc'[b] = pc[b] /\ loc'[b] = loc[b]
      BY <1>1, <2>3, StepMoves, GotoMoves DEF SpawnAttach
    <3>2. QED
      BY <1>1, <3>1 DEF Locals, HoldingChild, Spawning
  <2>4. CASE SpawnCommit(a)
    <3>1. /\ pc[a] = "commit" /\ pc'[a] = SpawnOk(a)
          /\ pc'[a] # "idle" => loc'[a] = [loc[a] EXCEPT !.child = NoTree]
          /\ \A b \in Actors \ {a} : pc'[b] = pc[b] /\ loc'[b] = loc[b]
      BY <1>1, <2>4, StepMoves DEF SpawnCommit
    <3>2. QED
      BY <1>1, <2>1, <3>1 DEF Locals
  <2>5. CASE AbandonOk(a) \/ AbandonFail(a)
    <3>1. /\ pc[a] = "abandon" /\ pc'[a] = SpawnErr(a)
          /\ pc'[a] # "idle" =>
               loc'[a] = [loc[a] EXCEPT !.child = NoTree, !.identity = FALSE]
          /\ \A b \in Actors \ {a} : pc'[b] = pc[b] /\ loc'[b] = loc[b]
      BY <1>1, <2>5, StepMoves DEF AbandonOk, AbandonFail
    <3>2. QED
      BY <1>1, <2>1, <3>1 DEF Locals
  <2>6. CASE SpawnCheck(a) \/ SpawnRefused(a) \/ SpawnExecFail(a)
    <3>1. pc[a] # "idle" /\ pc'[a] \in {"begin", SpawnErr(a)}
      BY <1>1, <2>6, GotoMoves DEF SpawnCheck, SpawnRefused, SpawnExecFail
    <3>2. /\ pc'[a] # "idle" => loc'[a] = loc[a]
          /\ \A b \in Actors \ {a} : pc'[b] = pc[b] /\ loc'[b] = loc[b]
      BY <1>1, <2>6, GotoMoves DEF SpawnCheck, SpawnRefused, SpawnExecFail
    <3>3. QED
      BY <2>1, <3>1, <3>2 DEF HoldingChild, Spawning
  <2>7. CASE SpawnPid(a) \/ SpawnCancelled(a)
    <3>1. pc[a] \in {"pid", "commit"} /\ pc'[a] \in {"attach", "abandon"}
      BY <1>1, <2>7, GotoMoves DEF SpawnPid, SpawnCancelled
    <3>2. /\ pc'[a] # "idle" => loc'[a] = loc[a]
          /\ \A b \in Actors \ {a} : pc'[b] = pc[b] /\ loc'[b] = loc[b]
      BY <1>1, <2>7, GotoMoves DEF SpawnPid, SpawnCancelled
    <3>3. QED
      BY <3>1, <3>2 DEF HoldingChild, Spawning
  <2>8. QED
    BY <2>2, <2>3, <2>4, <2>5, <2>6, <2>7 DEF Spawn
<1>5. QED
  BY <1>2, <1>3, <1>4 DEF Calm, StopRuns

(* The task of a Restart event is calm: mark_respawn_failed sets the       *)
(* generation only while no stop runs, and never back.                     *)
LEMMA TaskCalm ==
  ASSUME TypeOK, TypeOK', GenInv, NEW a \in Tasks, TaskNext(a)
  PROVE  Calm(a)
<1>1. a \in Actors /\ a # User /\ loc[a] \in Locals /\ proc.gen \in Nat /\ ActorsType
  BY TasksAssumption DEF Actors, TypeOK, ActorsType, EntryType, Entries
<1>2. UNCHANGED <<spawned, genOf>>
  BY DEF TaskNext, TaskClaim, TaskRestore, TaskClear, TaskFailed, os
<1>3. /\ proc'.gen >= proc.gen
      /\ StopRuns => proc'.gen = proc.gen /\ ~proc'.desired
  <2>1. CASE proc'.gen = proc.gen /\ (proc'.desired => proc.desired)
    BY <1>1, <2>1 DEF GenInv, GenerationsOrdered
  <2>2. CASE TaskFailed(a)
    <3>1. CASE proc' = proc
      BY <2>1, <3>1
    <3>2. CASE proc' # proc
      <4>1. proc.desired /\ proc.gen \in {loc[a].expect, loc[a].expect + 1}
            /\ loc[a].expect \in Nat
        BY <2>2, <3>2 DEF TaskFailed, GenInv, TaskLocals
      <4>2. proc'.gen = loc[a].expect + 1
        BY <2>2, <3>2 DEF TaskFailed, Cleared, Forgotten, TypeOK, EntryType,
           Entries
      <4>3. QED
        BY <4>1, <4>2 DEF GenInv, GenerationsOrdered
    <3>3. QED
      BY <3>1, <3>2
  <2>3. CASE TaskClaim(a) \/ TaskRestore(a) \/ TaskClear(a)
    BY <2>1, <2>3 DEF TaskClaim, TaskRestore, TaskClear, Cleared, Forgotten,
       TypeOK, EntryType, Entries
  <2>4. QED
    BY <2>2, <2>3 DEF TaskNext
<1>4. /\ pc[a] # "idle" /\ pc'[a] \in {"idle", "term", "check"}
      /\ \A b \in Actors \ {a} : pc'[b] = pc[b] /\ loc'[b] = loc[b]
  BY <1>1, StepMoves, GotoMoves DEF TaskNext, TaskClaim, TaskRestore, TaskClear,
     TaskFailed
<1>5. pc'[a] # "idle" => loc'[a].expect = loc[a].expect
  <2>1. pc'[a] # "idle" => loc'[a] \in {loc[a], [loc[a] EXCEPT !.prev = proc.status]}
    BY <1>1, StepMoves, GotoMoves DEF TaskNext, TaskClaim, TaskRestore,
       TaskClear, TaskFailed
  <2>2. QED
    BY <1>1, <2>1 DEF Locals
<1>6. QED
  BY <1>1, <1>2, <1>3, <1>4, <1>5 DEF Calm, HoldingChild, Spawning

(* restart_loop keeps them: a new task is bound to the generation of its   *)
(* event, and the rest is calm.                                            *)
LEMMA LoopGenInv ==
  TypeOK /\ TypeOK' /\ GenInv /\ LoopNext => GenInv'
<1> SUFFICES ASSUME TypeOK, TypeOK', GenInv, LoopNext PROVE GenInv'
  OBVIOUS
<1>1. Loop \in Actors /\ proc.gen \in Nat /\ ActorsType
  BY DEF Actors, TypeOK, EntryType, Entries
<1>2. /\ UNCHANGED <<spawned, genOf>> /\ proc'.gen = proc.gen
      /\ proc'.desired => proc.desired
  BY DEF LoopNext, LoopRestart, LoopExit, LoopExitErr, LoopExitOk, Cleared,
     Forgotten, os, TypeOK, EntryType, Entries
<1>3. StopRuns => ~proc'.desired
  BY <1>2 DEF GenInv, GenerationsOrdered
<1>4. CASE \A b \in Actors \ {Loop} : pc'[b] = pc[b] /\ loc'[b] = loc[b]
  <2>1. Calm(Loop)
    BY <1>1, <1>2, <1>3, <1>4, LoopApart, TasksAssumption DEF Calm
  <2>2. QED
    BY <1>1, <2>1, CalmGenInv
<1>5. CASE \E e \in events, a \in Tasks :
             /\ e.gen \in Nat /\ pc[a] = "idle"
             /\ Step(a, "claim", [Fresh EXCEPT !.gen = e.gen, !.expect = e.gen])
  <2>1. PICK e \in events, a \in Tasks :
             /\ e.gen \in Nat /\ pc[a] = "idle"
             /\ Step(a, "claim", [Fresh EXCEPT !.gen = e.gen, !.expect = e.gen])
    BY <1>5
  <2>2. a \in Actors /\ a # User /\ a # Loop
    BY TasksAssumption DEF Actors
  <2>3. pc'[a] = "claim" /\ loc'[a] = [Fresh EXCEPT !.gen = e.gen, !.expect = e.gen]
        /\ \A b \in Actors \ {a} : pc'[b] = pc[b] /\ loc'[b] = loc[b]
    BY <1>1, <2>1, <2>2, StepMoves
  <2>4. loc'[a].expect \in Nat
    BY <2>1, <2>3, FreshType DEF Locals
  <2>5. (StopRuns' <=> StopRuns) /\ loc'[User] = loc[User]
    BY <2>2, <2>3 DEF StopRuns, Actors
  <2>6. InFlight' = InFlight /\ \A b \in InFlight : loc'[b] = loc[b]
    BY <2>1, <2>3 DEF InFlight, Spawners, Actors
  <2>7. StopLocals' /\ SpawnLocals' /\ TaskLocals'
    <3>1. StopLocals'
      BY <2>5 DEF GenInv, StopLocals
    <3>2. SpawnLocals'
      BY <1>2, <2>3 DEF GenInv, SpawnLocals, Spawners, Actors, Spawning,
         HoldingChild
    <3>3. TaskLocals'
      BY <2>3, <2>4 DEF GenInv, TaskLocals, Actors
    <3>4. QED
      BY <3>1, <3>2, <3>3
  <2>8. Ceiling' = Ceiling
    BY <1>2, <2>5 DEF Ceiling
  <2>9. GenerationsOrdered' /\ SpawnsDistinct'
    BY <1>2, <1>3, <2>5, <2>6, <2>8 DEF GenInv, GenerationsOrdered, SpawnsDistinct
  <2>10. QED
    BY <2>7, <2>9 DEF GenInv
<1>6. QED
  <2>1. CASE \E e \in events : LoopRestart(e)
    BY <1>4, <1>5, <2>1 DEF LoopRestart, TypeOK, TasksType
  <2>2. CASE \E e \in events : LoopExit(e)
    BY <1>1, <1>4, <2>2, StepMoves DEF LoopExit
  <2>3. CASE LoopExitErr \/ LoopExitOk
    BY <1>1, <1>4, <2>3, GotoMoves DEF LoopExitErr, LoopExitOk
  <2>4. QED
    BY <2>1, <2>2, <2>3 DEF LoopNext

(* Cleaners, exit watchers, the environment and stuttering are calm.       *)
LEMMA OthersCalm ==
  TypeOK /\ GenInv /\ (\/ \E c \in cleaners : CleanerIdentify(c) \/ CleanerDone(c)
                       \/ \E w \in watch : WatchExit(w)
                       \/ Environment \/ UNCHANGED vars) => Calm(Loop)
<1> SUFFICES ASSUME TypeOK, GenInv,
                    \/ \E c \in cleaners : CleanerIdentify(c) \/ CleanerDone(c)
                    \/ \E w \in watch : WatchExit(w)
                    \/ Environment \/ UNCHANGED vars
             PROVE  Calm(Loop)
  OBVIOUS
<1>1. UNCHANGED <<spawned, genOf, pc, loc>>
  BY DEF CleanerIdentify, CleanerDone, WatchExit, Environment, FileChanged,
     RootExit, vars, os
<1>2. proc'.gen = proc.gen /\ proc'.desired = proc.desired /\ proc.gen \in Nat
  BY DEF CleanerIdentify, CleanerDone, WatchExit, Environment, FileChanged,
     RootExit, vars, Forgotten, TypeOK, EntryType, Entries
<1>3. QED
  BY <1>1, <1>2, LoopApart, TasksAssumption DEF Calm, GenInv, GenerationsOrdered

(* Every step keeps the facts about generations.                           *)
LEMMA NextGenInv ==
  TypeOK /\ TypeOK' /\ Untouched /\ GenInv /\ [Next]_vars => GenInv'
<1> SUFFICES ASSUME TypeOK, TypeOK', Untouched, GenInv, [Next]_vars PROVE GenInv'
  OBVIOUS
<1>1. User \in Actors /\ Loop \in Actors /\ Tasks \subseteq Actors
      /\ Spawners \subseteq Actors
  BY DEF Actors, Spawners
<1>2. CASE Requests
  BY <1>1, <1>2, RequestsCalm, CalmGenInv
<1>3. CASE UserStep
  BY <1>3, UserStepGenInv
<1>4. ASSUME NEW a \in Spawners, Spawn(a) PROVE GenInv'
  BY <1>1, <1>4, SpawnBeginGenInv, SpawnExecGenInv, SpawnCalm, CalmGenInv
<1>5. ASSUME NEW a \in Tasks, TaskNext(a) PROVE GenInv'
  BY <1>1, <1>5, TaskCalm, CalmGenInv
<1>6. ASSUME NEW a \in Actors, Terminate(a) PROVE GenInv'
  BY <1>6, TerminateGenInv
<1>7. CASE LoopNext
  BY <1>7, LoopGenInv
<1>8. CASE \/ \E c \in cleaners : CleanerIdentify(c) \/ CleanerDone(c)
           \/ \E w \in watch : WatchExit(w)
           \/ Environment \/ UNCHANGED vars
  BY <1>1, <1>8, OthersCalm, CalmGenInv
<1>9. QED
  BY <1>2, <1>3, <1>4, <1>5, <1>6, <1>7, <1>8 DEF Next

-----------------------------------------------------------------------------
(* The theorems.                                                           *)

(* The inductive invariant holds initially ...                             *)
LEMMA InitIInv == Init => IInv
<1> SUFFICES ASSUME Init PROVE IInv
  OBVIOUS
<1>1. TypeOK
  BY InitType
<1>2. StopLocals /\ SpawnLocals /\ TaskLocals
  BY DEF Init, StopLocals, StopRuns, SpawnLocals, TaskLocals, Spawning,
     HoldingChild, Spawners, Actors
<1>3. Untouched
  BY DEF Init, Untouched
<1>4. CleanupExclusive
  BY DEF Init, CleanupExclusive, NewEntry
<1>5. GenerationsOrdered /\ SpawnsDistinct
  BY DEF Init, GenerationsOrdered, SpawnsDistinct, StopRuns, InFlight, Spawners,
     Actors
<1>6. QED
  BY <1>1, <1>2, <1>3, <1>4, <1>5 DEF IInv

(* ... and every step keeps it.                                            *)
LEMMA NextIInv == IInv /\ [Next]_vars => IInv'
BY NextType, NextUntouched, NextExclusive, NextGenInv DEF IInv, GenInv

(* The inductive invariant holds of every execution.                       *)
THEOREM InvariantHolds == Spec => []IInv
BY InitIInv, NextIInv, PTL DEF Spec

(* Every variable keeps the type of the Rust declaration it models.        *)
THEOREM TypeCorrect == Spec => []TypeOK
<1>1. IInv => TypeOK
  BY DEF IInv
<1>2. QED
  BY <1>1, InvariantHolds, PTL

(* process_tree_cleanup_in_progress is a lock: never held by two, never    *)
(* left behind.                                                            *)
THEOREM CleanupIsLock == Spec => []CleanupExclusive
<1>1. IInv => CleanupExclusive
  BY DEF IInv
<1>2. QED
  BY <1>1, InvariantHolds, PTL

(* spawn_generation orders the spawns although a failed stop winds it back *)
(* ...                                                                     *)
THEOREM GenerationsRise == Spec => []GenerationsOrdered
<1>1. IInv => GenerationsOrdered
  BY DEF IInv
<1>2. QED
  BY <1>1, InvariantHolds, PTL

(* ... so that it names one spawn: no two trees run under the same one.    *)
THEOREM GenerationNamesSpawn == Spec => []SpawnsDistinct
<1>1. IInv => SpawnsDistinct
  BY DEF IInv
<1>2. QED
  BY <1>1, InvariantHolds, PTL

(* Between requests only a commit, or a spawn nobody's event is bound to,  *)
(* could bring a stopped process back, and a restart task does neither     *)
(* while desired_running is off.                                           *)
LEMMA SpawnUndesired ==
  ASSUME TypeOK, TaskLocals, NEW a \in Tasks, Spawn(a), ~proc.desired
  PROVE  ~proc'.desired /\ watch' \subseteq watch
<1>1. ~SpawnCommit(a)
  BY DEF SpawnCommit, Current
<1>2. ~SpawnBegin(a)
  BY DEF SpawnBegin, SpawnAllowed, TaskLocals, NoGen
<1>3. proc'.desired => proc.desired
  BY <1>1, <1>2 DEF Spawn, SpawnCheck, SpawnRefused, SpawnExec, SpawnExecFail,
     SpawnIdentify, SpawnPid, SpawnAttach, SpawnCancelled, AbandonOk,
     AbandonFail, Abandoned, Cleared, Forgotten, TypeOK, EntryType, Entries
<1>4. watch' = watch
  BY <1>1, <1>2 DEF Spawn, SpawnCheck, SpawnRefused, SpawnExec, SpawnExecFail,
     SpawnIdentify, SpawnPid, SpawnAttach, SpawnCancelled, AbandonOk,
     AbandonFail, tasks
<1>5. QED
  BY <1>3, <1>4

(* Nor does any other background step.                                     *)
LEMMA OthersUndesired ==
  ASSUME TypeOK, ~proc.desired,
         \/ \E a \in Tasks : TaskNext(a)
         \/ \E a \in Actors : Terminate(a)
         \/ LoopNext
         \/ \E c \in cleaners : CleanerIdentify(c) \/ CleanerDone(c)
         \/ \E w \in watch : WatchExit(w)
         \/ Environment
  PROVE  ~proc'.desired /\ watch' \subseteq watch
<1>1. CASE \E a \in Tasks : TaskNext(a)
  BY <1>1 DEF TaskNext, TaskClaim, TaskRestore, TaskClear, TaskFailed, Cleared,
     Forgotten, tasks, TypeOK, EntryType, Entries
<1>2. CASE \E a \in Actors : Terminate(a)
  BY <1>2 DEF Terminate, TermTimeout, TermReturn, TermTake, KillOk, KillFail,
     Forgotten, tasks, TypeOK, EntryType, Entries
<1>3. CASE LoopNext
  BY <1>3 DEF LoopNext, LoopRestart, LoopExit, LoopExitErr, LoopExitOk, Cleared,
     Forgotten, tasks, TypeOK, EntryType, Entries
<1>4. CASE \E c \in cleaners : CleanerIdentify(c) \/ CleanerDone(c)
  BY <1>4 DEF CleanerIdentify, CleanerDone, Forgotten, tasks, TypeOK, EntryType,
     Entries
<1>5. CASE (\E w \in watch : WatchExit(w)) \/ Environment
  BY <1>5 DEF WatchExit, Environment, FileChanged, RootExit, tasks
<1>6. QED
  BY <1>1, <1>2, <1>3, <1>4, <1>5

(* Nor does a request that is over at once; start is not.                  *)
LEMMA RequestsUndesired ==
  ASSUME TypeOK, ~proc.desired, Requests, pc'[User] = "idle"
  PROVE  ~proc'.desired /\ watch' \subseteq watch
<1>1. ~OpStart
  BY StepMoves DEF OpStart, Request, TypeOK, Actors
<1>2. proc'.desired = proc.desired /\ watch' = watch
  BY <1>1 DEF Requests, OpStartExisting, OpStop, OpRestart, OpDelete, OpUpdate,
     OpSetEnabled, OpReset, tasks, TypeOK, EntryType, Entries
<1>3. QED
  BY <1>2

(* Every other step of the user is inside a request.                       *)
LEMMA UserMoves ==
  UserStep \/ Spawn(User) => pc[User] # "idle"
BY DEF UserStep, OpUnstart, OpBump, OpRemove, OpPatch, OpRollback, OpToggle,
   StopRefused, StopBegin, StopErr, StopOk, Spawn, SpawnCheck, SpawnBegin,
   SpawnRefused, SpawnExec, SpawnExecFail, SpawnIdentify, SpawnPid, SpawnAttach,
   SpawnCommit, SpawnCancelled, AbandonOk, AbandonFail

(* Restart and watch events never respawn a process after a manual stop.   *)
THEOREM ManualStopIsFinal == Spec => ManualStopSticks
<1>1. IInv /\ [Next]_vars =>
        [pc[User] = "idle" /\ pc'[User] = "idle" /\ ~proc.desired
           => ~proc'.desired /\ watch' \subseteq watch]_vars
  <2> SUFFICES ASSUME IInv, Next, pc[User] = "idle", pc'[User] = "idle",
                      ~proc.desired
               PROVE  ~proc'.desired /\ watch' \subseteq watch
    OBVIOUS
  <2>1. CASE \E a \in Spawners : Spawn(a)
    BY <2>1, SpawnUndesired, UserMoves DEF IInv, Spawners
  <2>2. CASE Requests
    BY <2>2, RequestsUndesired DEF IInv
  <2>3. CASE ~Requests /\ ~\E a \in Spawners : Spawn(a)
    BY <2>3, OthersUndesired, UserMoves DEF IInv, Next
  <2>4. QED
    BY <2>1, <2>2, <2>3
<1>2. QED
  BY <1>1, InvariantHolds, PTL DEF Spec, ManualStopSticks

-----------------------------------------------------------------------------
(***************************************************************************)
(* KillsOwnSpawn for every set of restart tasks, with and without a file   *)
(* watcher: what an exit or restart event terminates is the spawn it is    *)
(* about.  The handlers compare generations only when they take the tree;  *)
(* the proof is that by then the entry's tree is the one spawned under     *)
(* that generation, whatever spawns, stops and cleanups came in between.   *)
(***************************************************************************)
-----------------------------------------------------------------------------
(* The inductive invariant.                                                *)

(* Where a task still serves its event.                                    *)
Serves == {"claim", "term", "kill", "restore", "clear"}

(* Some background actor acts, or will act, on the spawn of generation g.  *)
(* A running entry counts, because the file watcher may report a change,   *)
(* and so does a stop that could still bring a running entry back.         *)
Announced(g) ==
  \/ \E e \in events : e.gen = g
  \/ \E w \in watch : w.gen = g
  \/ pc[Loop] # "idle" /\ loc[Loop].gen = g
  \/ \E a \in Tasks : pc[a] \in Serves /\ loc[a].gen = g
  \/ proc.status = "Running" /\ proc.gen = g
  \/ StopRuns /\ loc[User].prev = "Running" /\ loc[User].prevGen = g

(* What is announced has been spawned, and its spawn is over.              *)
AnnouncedPast ==
  \A g : Announced(g) => /\ g \in 0 .. Ceiling
                         /\ \A a \in Spawners : pc[a] \in Spawning => loc[a].gen # g

(* When the latest generation is announced, the entry describes its spawn  *)
(* or none, and so does what a stop took out of it.                        *)
Settled ==
  Announced(Ceiling) =>
    /\ proc.tree \in {NoTree, proc.pid}
    /\ proc.pid # NoTree => genOf[proc.pid] = Ceiling
    /\ pc[User] = "kill" => /\ loc[User].hold = loc[User].owned
                            /\ genOf[loc[User].hold] = Ceiling

(* mark_respawn_failed gave up the latest generation.                      *)
Forsaken == /\ ~StopRuns /\ ~proc.desired
            /\ proc.status = "Errored" /\ proc.pid = NoTree

(* The PID of a spawn about to commit is the entry's, unless a stop has    *)
(* cleared it or a failed restart of the generation before gave it up.     *)
Attaching == {"attach", "commit"}
Attached ==
  \A a \in Spawners :
    pc[a] \in Attaching /\ loc[a].gen = Ceiling /\ pc[User] # "stopOk" =>
      proc.pid = loc[a].child \/ Forsaken

(* Each spawn has a child of its own.                                      *)
ChildrenDistinct ==
  \A a, b \in Spawners :
    pc[a] \in HoldingChild /\ pc[b] \in HoldingChild /\ loc[a].child = loc[b].child
      => a = b

(* A retry task holds a child of a generation older than the one it would  *)
(* clear the entry under.                                                  *)
CleanerFits(c) ==
  /\ c.tree \in 1 .. spawned
  /\ c.retained # NoGen => c.retained \in 0 .. Ceiling /\ genOf[c.tree] < c.retained
CleanersFit == \A c \in cleaners : CleanerFits(c)

(* KillsOwnSpawn, and that the tree is the one the PID named.              *)
KillLocals ==
  \A a \in Actors :
    pc[a] = "kill" =>
      /\ loc[a].hold # NoTree
      /\ a # User => genOf[loc[a].hold] = loc[a].gen /\ loc[a].owned = loc[a].hold

(* A tree that was never spawned has no generation.                        *)
Unspawned == \A t \in Trees : t > spawned => genOf[t] = NoGen

KInv == /\ AnnouncedPast /\ Settled /\ Attached /\ ChildrenDistinct
        /\ CleanersFit /\ KillLocals /\ Unspawned

-----------------------------------------------------------------------------
(* Kinds of steps.                                                         *)

(* Nothing is announced that was not.                                      *)
NoNews == \A g : Announced(g)' => Announced(g)

(* A step of actor a that announces nothing, spawns nothing, takes no tree *)
(* and lets the latest generation only grow.                               *)
Follows(a) ==
  /\ UNCHANGED <<spawned, genOf>>
  /\ \A b \in Actors \ {a} : pc'[b] = pc[b] /\ loc'[b] = loc[b]
  /\ Ceiling' >= Ceiling
  /\ NoNews
  /\ a \in Spawners /\ pc'[a] \in Spawning =>
       \/ pc[a] \in Spawning /\ loc'[a].gen = loc[a].gen
       \/ pc'[a] = "exec" /\ loc'[a].gen > Ceiling
  /\ a \in Spawners /\ pc'[a] \in HoldingChild =>
       pc[a] \in HoldingChild /\ loc'[a].child = loc[a].child
  /\ pc'[a] = "kill" =>
       pc[a] = "kill" /\ loc'[a].hold = loc[a].hold /\ loc'[a].gen = loc[a].gen
       /\ loc'[a].owned = loc[a].owned
  /\ \A c \in cleaners' : c \in cleaners \/ CleanerFits(c)'

(* Such a step that begins a new generation.                               *)
Advances(a) == Follows(a) /\ Ceiling' > Ceiling

(* Such a step that leaves PID and tree of the latest generation alone.    *)
Keeps(a) ==
  /\ Follows(a) /\ Ceiling' = Ceiling
  /\ proc'.pid = proc.pid /\ proc'.tree = proc.tree
  /\ a \in Spawners /\ pc'[a] \in Attaching =>
       pc[a] \in Attaching /\ loc'[a].gen = loc[a].gen
  /\ pc[User] = "stopOk" => pc'[User] = "stopOk"
  /\ Forsaken => Forsaken' \/ Announced(Ceiling)

(* Such a step that empties the entry of the latest generation.            *)
Empties(a) ==
  /\ Follows(a) /\ Ceiling' = Ceiling
  /\ proc'.pid = NoTree /\ proc'.tree = NoTree
  /\ pc'[User] # "kill"
  /\ a \in Spawners => pc'[a] \notin Attaching
  /\ Forsaken' \/ pc'[User] = "stopOk" \/ Announced(Ceiling)

(* The facts about types and places the proofs below start from.           *)
LEMMA Basics ==
  ASSUME IInv
  PROVE  /\ ActorsType /\ User \in Actors /\ Loop \in Actors
         /\ Tasks \subseteq Actors /\ Spawners \subseteq Actors
         /\ Loop \notin Spawners /\ Loop # User /\ User \notin Tasks /\ Loop \notin Tasks
         /\ proc \in Entries /\ proc.gen \in Nat /\ spawned \in Nat
         /\ \A a \in Actors : loc[a] \in Locals
         /\ Ceiling \in Nat
         /\ StopRuns => proc.gen = Ceiling + 1
         /\ ~StopRuns => proc.gen = Ceiling
         /\ proc.desired => ~StopRuns
<1>1. /\ ActorsType /\ proc \in Entries /\ proc.gen \in Nat /\ spawned \in Nat
      /\ \A a \in Actors : loc[a] \in Locals
  BY DEF IInv, TypeOK, EntryType, Entries, OsType, ActorsType
<1>2. /\ User \in Actors /\ Loop \in Actors /\ Tasks \subseteq Actors
      /\ Spawners \subseteq Actors
  BY DEF Actors, Spawners
<1>3. /\ Ceiling \in Nat /\ (StopRuns => proc.gen = Ceiling + 1)
      /\ (~StopRuns => proc.gen = Ceiling) /\ (proc.desired => ~StopRuns)
  BY <1>1 DEF IInv, StopLocals, GenerationsOrdered, Ceiling
<1>4. QED
  BY <1>1, <1>2, <1>3, LoopApart, TasksAssumption

(* The latest generation stays a number.                                   *)
LEMMA CeilingNext == IInv' => Ceiling' \in Nat
BY DEF IInv, TypeOK, EntryType, Entries, StopLocals, Ceiling

(* A spawn in progress has a generation no later than the latest.          *)
LEMMA SpawningPast ==
  ASSUME IInv, NEW a \in Spawners, pc[a] \in Spawning
  PROVE  loc[a].gen \in 0 .. Ceiling
<1>1. CASE pc[a] = "exec"
  BY <1>1 DEF IInv, GenerationsOrdered, InFlight
<1>2. CASE pc[a] # "exec"
  BY <1>2 DEF IInv, SpawnLocals, HoldingChild, GenerationsOrdered
<1>3. QED
  BY <1>1, <1>2

(* What any such step keeps.                                               *)
LEMMA FollowsKeeps ==
  ASSUME IInv, IInv', KInv, NEW a \in Actors, Follows(a)
  PROVE  /\ AnnouncedPast' /\ ChildrenDistinct' /\ CleanersFit' /\ KillLocals'
         /\ Unspawned'
<1>1. AnnouncedPast'
  <2> SUFFICES ASSUME NEW g, Announced(g)'
               PROVE  /\ g \in 0 .. Ceiling'
                      /\ \A b \in Spawners : pc'[b] \in Spawning => loc'[b].gen # g
    BY DEF AnnouncedPast
  <2>1. /\ g \in 0 .. Ceiling
        /\ \A b \in Spawners : pc[b] \in Spawning => loc[b].gen # g
    BY DEF Follows, NoNews, KInv, AnnouncedPast
  <2>2. Ceiling \in Nat /\ Ceiling' \in Nat
    BY Basics, CeilingNext
  <2>3. ASSUME NEW b \in Spawners, pc'[b] \in Spawning PROVE loc'[b].gen # g
    BY <2>1, <2>2, <2>3, Basics DEF Follows
  <2>4. QED
    BY <2>1, <2>2, <2>3 DEF Follows
<1>2. ChildrenDistinct'
  <2>1. ASSUME NEW b \in Spawners, pc'[b] \in HoldingChild
        PROVE  pc[b] \in HoldingChild /\ loc'[b].child = loc[b].child
    BY <2>1, Basics DEF Follows
  <2>2. QED
    BY <2>1 DEF KInv, ChildrenDistinct
<1>3. CleanersFit'
  <2> SUFFICES ASSUME NEW c \in cleaners, CleanerFits(c) PROVE CleanerFits(c)'
    BY DEF Follows, KInv, CleanersFit
  <2>1. Ceiling \in Nat /\ Ceiling' \in Nat /\ Ceiling' >= Ceiling
    BY Basics, CeilingNext DEF Follows
  <2>2. QED
    BY <2>1 DEF CleanerFits, Follows
<1>4. KillLocals'
  <2>1. ASSUME NEW b \in Actors, pc'[b] = "kill"
        PROVE  pc[b] = "kill" /\ loc'[b].hold = loc[b].hold
               /\ loc'[b].gen = loc[b].gen /\ loc'[b].owned = loc[b].owned
    BY <2>1 DEF Follows
  <2>2. QED
    BY <2>1 DEF KInv, KillLocals, Follows
<1>5. Unspawned'
  BY DEF Follows, KInv, Unspawned
<1>6. QED
  BY <1>1, <1>2, <1>3, <1>4, <1>5

(* A new generation is announced only when its spawn commits.              *)
LEMMA AdvancesKInv ==
  ASSUME IInv, IInv', KInv, NEW a \in Actors, Advances(a)
  PROVE  KInv'
<1>1. Ceiling \in Nat /\ Ceiling' \in Nat /\ Ceiling' > Ceiling /\ Follows(a)
  BY Basics, CeilingNext DEF Advances
<1>2. Settled'
  <2>1. ~Announced(Ceiling')
    BY <1>1 DEF KInv, AnnouncedPast
  <2>2. ~Announced(Ceiling)'
    BY <1>1, <2>1 DEF Follows, NoNews
  <2>3. QED
    BY <2>2 DEF Settled
<1>3. Attached'
  <2>1. ASSUME NEW b \in Spawners, pc'[b] \in Attaching PROVE loc'[b].gen # Ceiling'
    <3>1. pc[b] \in Spawning /\ loc'[b].gen = loc[b].gen
      BY <1>1, <2>1, Basics DEF Follows, Attaching, Spawning
    <3>2. QED
      BY <1>1, <3>1, SpawningPast
  <2>2. QED
    BY <2>1 DEF Attached
<1>4. QED
  BY <1>1, <1>2, <1>3, FollowsKeeps DEF KInv

(* A step that leaves PID and tree alone keeps what they are.              *)
LEMMA KeepsKInv ==
  ASSUME IInv, IInv', KInv, NEW a \in Actors, Keeps(a)
  PROVE  KInv'
<1>1. Ceiling' = Ceiling /\ Follows(a)
  BY DEF Keeps
<1>2. Settled'
  <2>1. Announced(Ceiling)' => Announced(Ceiling)
    BY <1>1 DEF Follows, NoNews
  <2>2. pc'[User] = "kill" => pc[User] = "kill" /\ loc'[User].hold = loc[User].hold
                              /\ loc'[User].owned = loc[User].owned
    BY <1>1, Basics DEF Follows
  <2>3. QED
    BY <1>1, <2>1, <2>2 DEF KInv, Settled, Keeps, Follows
<1>3. Attached'
  <2> SUFFICES ASSUME NEW b \in Spawners, pc'[b] \in Attaching,
                      loc'[b].gen = Ceiling', pc'[User] # "stopOk"
               PROVE  proc'.pid = loc'[b].child \/ Forsaken'
    BY DEF Attached
  <2>1. /\ pc[b] \in Attaching /\ loc[b].gen = Ceiling /\ loc'[b].child = loc[b].child
    BY <1>1, Basics DEF Keeps, Follows, Attaching, HoldingChild, Spawning
  <2>2. ~Announced(Ceiling)
    BY <2>1 DEF KInv, AnnouncedPast, Attaching, Spawning
  <2>3. proc.pid = loc[b].child \/ Forsaken
    BY <2>1 DEF KInv, Attached, Keeps
  <2>4. QED
    BY <2>1, <2>2, <2>3 DEF Keeps
<1>4. QED
  BY <1>1, <1>2, <1>3, FollowsKeeps DEF KInv

(* Nothing is wrong with an empty entry.                                   *)
LEMMA EmptiesKInv ==
  ASSUME IInv, IInv', KInv, NEW a \in Actors, Empties(a)
  PROVE  KInv'
<1>1. Ceiling' = Ceiling /\ Follows(a)
  BY DEF Empties
<1>2. Settled'
  BY DEF Settled, Empties
<1>3. Attached'
  <2> SUFFICES ASSUME NEW b \in Spawners, pc'[b] \in Attaching,
                      loc'[b].gen = Ceiling', pc'[User] # "stopOk"
               PROVE  Forsaken'
    BY DEF Attached
  <2>1. pc[b] \in Spawning /\ loc[b].gen = Ceiling
    BY <1>1, Basics DEF Empties, Follows, Attaching, Spawning
  <2>2. ~Announced(Ceiling)
    BY <2>1 DEF KInv, AnnouncedPast
  <2>3. QED
    BY <2>2 DEF Empties
<1>4. QED
  BY <1>1, <1>2, <1>3, FollowsKeeps DEF KInv

-----------------------------------------------------------------------------
(* The kind of each step.                                                  *)

(* What to look at to see that a step of actor a announces nothing.        *)
LEMMA NewsOfStep ==
  ASSUME IInv, NEW a \in Actors,
         \A b \in Actors \ {a} : pc'[b] = pc[b] /\ loc'[b] = loc[b],
         \A e \in events' : Announced(e.gen),
         \A w \in watch' : Announced(w.gen),
         a \in Tasks /\ pc'[a] \in Serves => Announced(loc'[a].gen),
         a = Loop /\ pc'[a] # "idle" => Announced(loc'[a].gen),
         proc'.status = "Running" => Announced(proc'.gen),
         a = User /\ StopRuns' /\ loc'[a].prev = "Running" => Announced(loc'[a].prevGen)
  PROVE  NoNews
<1> SUFFICES ASSUME NEW g, Announced(g)' PROVE Announced(g)
  BY DEF NoNews
<1>1. CASE (\E e \in events' : e.gen = g) \/ (\E w \in watch' : w.gen = g)
  BY <1>1
<1>2. CASE pc'[Loop] # "idle" /\ loc'[Loop].gen = g
  BY <1>2, Basics DEF Announced
<1>3. CASE \E b \in Tasks : pc'[b] \in Serves /\ loc'[b].gen = g
  BY <1>3, Basics DEF Announced
<1>4. CASE proc'.status = "Running" /\ proc'.gen = g
  BY <1>4
<1>5. CASE StopRuns' /\ loc'[User].prev = "Running" /\ loc'[User].prevGen = g
  BY <1>5, Basics DEF Announced, StopRuns
<1>6. QED
  BY <1>1, <1>2, <1>3, <1>4, <1>5 DEF Announced

(* The lists the events and the exit watchers are on are announced.        *)
LEMMA ListsAnnounced ==
  /\ \A e \in events : Announced(e.gen)
  /\ \A w \in watch : Announced(w.gen)
BY DEF Announced

(* Accepting a request.                                                    *)
LEMMA RequestsKeep == IInv /\ IInv' /\ Requests => Keeps(User)
<1> SUFFICES ASSUME IInv, IInv', Requests PROVE Keeps(User)
  OBVIOUS
<1>1. /\ pc[User] = "idle"
      /\ pc'[User] \in {"check", "stop", "remove", "idle", "disable", "enable"}
      /\ \A b \in Actors \ {User} : pc'[b] = pc[b] /\ loc'[b] = loc[b]
  <2>1. \E op, p : Request(op, p) /\ p \in {"check", "stop", "remove", "idle", "disable", "enable"}
    BY DEF Requests, OpStart, OpStartExisting, OpStop, OpRestart, OpDelete,
       OpUpdate, OpSetEnabled, OpReset
  <2>2. QED
    BY <2>1, StepMoves, Basics DEF Request
<1>2. /\ proc'.gen = proc.gen /\ proc'.pid = proc.pid /\ proc'.tree = proc.tree
      /\ proc'.status = proc.status /\ proc'.desired = proc.desired
  BY Basics DEF Requests, OpStart, OpStartExisting, OpStop, OpRestart, OpDelete,
     OpUpdate, OpSetEnabled, OpReset, IInv, Untouched, Entries
<1>3. UNCHANGED <<spawned, genOf, watch, events, cleaners>>
  BY DEF Requests, OpStart, OpStartExisting, OpStop, OpRestart, OpDelete,
     OpUpdate, OpSetEnabled, OpReset, os, tasks
<1>4. ~StopRuns /\ ~StopRuns' /\ Ceiling' = Ceiling /\ Ceiling \in Nat
  BY <1>1, <1>2, Basics DEF StopRuns, Ceiling
<1>5. NoNews
  <2>1. proc'.status = "Running" => Announced(proc'.gen)
    BY <1>2 DEF Announced
  <2>2. QED
    BY <1>1, <1>3, <1>4, <2>1, Basics, ListsAnnounced, NewsOfStep
<1>6. Forsaken => Forsaken'
  BY <1>2, <1>4 DEF Forsaken
<1>7. QED
  BY <1>1, <1>2, <1>3, <1>4, <1>5, <1>6, Basics
     DEF Keeps, Follows, Spawning, HoldingChild, Attaching

(* The steps of stop and of the operations around it: a stop that          *)
(* succeeded and a disabling begin a new generation, a failed stop returns *)
(* to the one it came from.                                                *)
LEMMA UserStepKind ==
  IInv /\ IInv' /\ KInv /\ UserStep => Keeps(User) \/ Advances(User)
<1> SUFFICES ASSUME IInv, IInv', KInv, UserStep PROVE Keeps(User) \/ Advances(User)
  OBVIOUS
<1> DEFINE Others == \A b \in Actors \ {User} : pc'[b] = pc[b] /\ loc'[b] = loc[b]
           Entry == proc'.pid = proc.pid /\ proc'.tree = proc.tree
<1>1. UNCHANGED <<spawned, genOf, watch, events, cleaners>>
  BY DEF UserStep, OpUnstart, OpBump, OpRemove, OpPatch, OpRollback, OpToggle,
     StopRefused, StopBegin, StopErr, StopOk, os, tasks
<1>2. Others
  BY StepMoves, GotoMoves, Basics DEF UserStep, OpUnstart, OpBump, OpRemove,
     OpPatch, OpRollback, OpToggle, StopRefused, StopBegin, StopErr, StopOk
<1>3. pc'[User] \in {"idle", "check", "remove", "patch", "term"} /\ User \in Spawners
  BY StepMoves, GotoMoves, Basics DEF UserStep, OpUnstart, OpBump, OpRemove,
     OpPatch, OpRollback, OpToggle, StopRefused, StopBegin, StopErr, StopOk,
     AfterStop, Spawners
<1>4. CASE StopBegin
  <2>1. /\ pc[User] = "stop" /\ pc'[User] = "term" /\ loc[User] \in Locals
        /\ loc'[User] = [loc[User] EXCEPT !.gen = proc.gen + 1,
                           !.prev = proc.status, !.prevGen = proc.gen]
    BY <1>4, StepMoves, Basics DEF StopBegin
  <2>2. /\ loc'[User].prev = proc.status /\ loc'[User].prevGen = proc.gen
    BY <2>1 DEF Locals
  <2>3. ~StopRuns /\ StopRuns' /\ Ceiling' = Ceiling /\ Ceiling = proc.gen
    BY <2>1, <2>2 DEF StopRuns, Ceiling
  <2>4. Entry /\ proc'.status = "Stopping"
    BY <1>4, Basics DEF StopBegin, Entries
  <2>5. NoNews
    <3>1. loc'[User].prev = "Running" => Announced(loc'[User].prevGen)
      BY <2>2, <2>3 DEF Announced
    <3>2. QED
      BY <1>1, <1>2, <2>4, <3>1, Basics, ListsAnnounced, NewsOfStep
  <2>6. ~Forsaken
    BY <1>4 DEF StopBegin, Active, Retained, Forsaken
  <2>7. QED
    BY <1>1, <1>2, <2>1, <2>3, <2>4, <2>5, <2>6, Basics
       DEF Keeps, Follows, Spawning, HoldingChild, Attaching
<1>5. CASE StopErr
  <2>1. pc[User] = "stopErr" /\ pc'[User] = "idle"
    BY <1>5, GotoMoves, Basics DEF StopErr
  <2>2. StopRuns /\ ~StopRuns'
    BY <2>1 DEF StopRuns
  <2>3. proc.gen = loc[User].gen
    BY <2>2 DEF IInv, GenerationsOrdered
  <2>4. proc' = [proc EXCEPT !.status = loc[User].prev, !.desired = TRUE,
                             !.gen = loc[User].prevGen]
    BY <1>5, <2>3 DEF StopErr
  <2>5. Entry /\ proc'.status = loc[User].prev /\ proc'.gen = loc[User].prevGen
    BY <2>4, Basics DEF Entries
  <2>6. Ceiling' = Ceiling /\ Ceiling \in Nat
    BY <2>2, <2>5, Basics DEF Ceiling
  <2>7. NoNews
    <3>1. proc'.status = "Running" => Announced(proc'.gen)
      BY <2>2, <2>5 DEF Announced
    <3>2. QED
      BY <1>1, <1>2, <2>2, <3>1, Basics, ListsAnnounced, NewsOfStep
  <2>8. ~Forsaken
    BY <2>2 DEF Forsaken
  <2>9. QED
    BY <1>1, <1>2, <2>1, <2>5, <2>6, <2>7, <2>8, Basics
       DEF Keeps, Follows, Spawning, HoldingChild, Attaching
<1>6. CASE StopOk \/ (OpToggle /\ proc'.gen # proc.gen)
  <2>1. ~StopRuns'
    BY <1>3, <1>6, GotoMoves, Basics DEF StopOk, OpToggle, StopRuns, AfterStop
  <2>2. Ceiling' > Ceiling /\ proc'.status # "Running"
    <3>1. CASE StopOk
      <4>1. StopRuns /\ proc.gen = loc[User].gen
        BY <3>1 DEF StopOk, StopRuns, IInv, GenerationsOrdered
      <4>2. proc'.gen = proc.gen /\ proc'.status = "Stopped"
        BY <3>1, <4>1, Basics DEF StopOk, Cleared, Forgotten, Entries
      <4>3. QED
        BY <2>1, <4>1, <4>2, Basics DEF Ceiling
    <3>2. CASE OpToggle /\ proc'.gen # proc.gen
      <4>1. ~StopRuns
        BY <3>2 DEF OpToggle, StopRuns
      <4>2. proc'.gen = proc.gen + 1 /\ proc'.status = "Stopped"
        BY <3>2, Basics DEF OpToggle, Entries
      <4>3. QED
        BY <2>1, <4>1, <4>2, Basics DEF Ceiling
    <3>3. QED
      BY <1>6, <3>1, <3>2
  <2>3. NoNews
    BY <1>1, <1>2, <2>1, <2>2, Basics, ListsAnnounced, NewsOfStep
  <2>4. QED
    BY <1>1, <1>2, <1>3, <2>2, <2>3, Basics, CeilingNext
       DEF Advances, Follows, Spawning, HoldingChild
<1>7. CASE \/ OpUnstart \/ OpBump \/ OpRemove \/ OpPatch \/ OpRollback \/ StopRefused
           \/ OpToggle /\ proc'.gen = proc.gen
  <2>1. /\ proc'.gen = proc.gen /\ proc'.status = proc.status
        /\ Entry /\ proc'.desired = proc.desired
    <3>1. CASE OpToggle /\ proc'.gen = proc.gen
      <4>1. proc.gen + 1 # proc.gen
        BY Basics
      <4>2. proc' = [proc EXCEPT !.enabled = pc[User] = "enable"]
        BY <3>1, <4>1, Basics DEF OpToggle, Entries
      <4>3. QED
        BY <4>2, Basics DEF Entries
    <3>2. CASE OpBump
      BY <3>2, Basics DEF OpBump, Entries
    <3>3. CASE OpUnstart \/ OpRemove \/ OpPatch \/ OpRollback \/ StopRefused
      BY <3>3 DEF OpUnstart, OpRemove, OpPatch, OpRollback, StopRefused
    <3>4. QED
      BY <1>7, <3>1, <3>2, <3>3
  <2>2. ~StopRuns /\ ~StopRuns' /\ pc[User] # "stopOk" /\ pc'[User] \in {"idle", "check"}
    BY <1>7, StepMoves, GotoMoves, Basics DEF OpUnstart, OpBump, OpRemove,
       OpPatch, OpRollback, OpToggle, StopRefused, StopRuns
  <2>3. Ceiling' = Ceiling
    BY <2>1, <2>2 DEF Ceiling
  <2>4. NoNews
    <3>1. proc'.status = "Running" => Announced(proc'.gen)
      BY <2>1 DEF Announced
    <3>2. QED
      BY <1>1, <1>2, <2>2, <3>1, Basics, ListsAnnounced, NewsOfStep
  <2>5. Forsaken => Forsaken'
    BY <2>1, <2>2 DEF Forsaken
  <2>6. QED
    BY <1>1, <1>2, <2>1, <2>2, <2>3, <2>4, <2>5, Basics
       DEF Keeps, Follows, Spawning, HoldingChild, Attaching
<1>8. QED
  BY <1>4, <1>5, <1>6, <1>7 DEF UserStep

(* Cleaners that do not own the entry, exit watchers and the environment.  *)
LEMMA OthersKeep ==
  IInv /\ IInv' /\ KInv /\ (\/ \E c \in cleaners : CleanerIdentify(c)
                            \/ \E w \in watch : WatchExit(w)
                            \/ Environment \/ UNCHANGED vars)
    => Keeps(Loop)
<1> SUFFICES ASSUME IInv, IInv', KInv,
                    \/ \E c \in cleaners : CleanerIdentify(c)
                    \/ \E w \in watch : WatchExit(w)
                    \/ Environment \/ UNCHANGED vars
             PROVE  Keeps(Loop)
  OBVIOUS
<1>1. UNCHANGED <<spawned, genOf, cleaners, pc, loc>>
  BY DEF CleanerIdentify, WatchExit, Environment, FileChanged, RootExit, os,
     tasks, vars
<1>2. /\ proc'.gen = proc.gen /\ proc'.status = proc.status /\ proc'.pid = proc.pid
      /\ proc'.tree = proc.tree /\ proc'.desired = proc.desired
  BY Basics DEF CleanerIdentify, WatchExit, Environment, FileChanged, RootExit,
     vars, Entries
<1>3. (\A e \in events' : Announced(e.gen)) /\ (\A w \in watch' : Announced(w.gen))
  <2>1. CASE \E w \in watch : WatchExit(w)
    <3>1. PICK w \in watch : WatchExit(w)
      BY <2>1
    <3>2. ExitEvent(w).gen = w.gen
      BY DEF ExitEvent
    <3>3. QED
      BY <3>1, <3>2, ListsAnnounced DEF WatchExit
  <2>2. CASE FileChanged
    <3>1. Announced(proc.gen) /\ watch' = watch
          /\ events' = events \cup {[kind |-> "Restart", gen |-> proc.gen, count |-> 0]}
      BY <2>2 DEF FileChanged, Announced
    <3>2. QED
      BY <3>1, ListsAnnounced
  <2>3. CASE UNCHANGED <<events, watch>>
    BY <2>3, ListsAnnounced
  <2>4. QED
    BY <2>1, <2>2, <2>3 DEF CleanerIdentify, Environment, RootExit, tasks, vars
<1>4. (StopRuns' <=> StopRuns) /\ Ceiling' = Ceiling
  BY <1>1, <1>2 DEF StopRuns, Ceiling
<1>5. NoNews
  <2>1. /\ proc'.status = "Running" => Announced(proc'.gen)
        /\ pc'[Loop] # "idle" => Announced(loc'[Loop].gen)
    BY <1>1, <1>2 DEF Announced
  <2>2. QED
    BY <1>1, <1>3, <2>1, Basics, NewsOfStep
<1>6. Forsaken => Forsaken'
  BY <1>2, <1>4 DEF Forsaken
<1>7. QED
  BY <1>1, <1>2, <1>4, <1>5, <1>6, Basics DEF Keeps, Follows

(* A cleaner that owns the entry clears the PID of a generation nobody has *)
(* announced; one that does not leaves the entry alone.                    *)
LEMMA CleanerDoneKInv ==
  ASSUME IInv, IInv', KInv, NEW c \in cleaners, CleanerDone(c)
  PROVE  KInv'
<1>1. UNCHANGED <<spawned, genOf, events, watch, pc, loc>> /\ cleaners' \subseteq cleaners
  BY DEF CleanerDone
<1>2. proc'.gen = proc.gen /\ proc'.tree = proc.tree
  BY Basics DEF CleanerDone, Forgotten, Entries
<1>3. (StopRuns' <=> StopRuns) /\ Ceiling' = Ceiling
  BY <1>1, <1>2 DEF StopRuns, Ceiling
<1>4. proc' # proc => proc'.status = "Stopped"
  BY Basics DEF CleanerDone, Forgotten, Entries
<1>5. NoNews
  <2>1. /\ proc'.status = "Running" => Announced(proc'.gen)
        /\ pc'[Loop] # "idle" => Announced(loc'[Loop].gen)
    BY <1>1, <1>4 DEF Announced
  <2>2. QED
    BY <1>1, <2>1, Basics, ListsAnnounced, NewsOfStep
<1>6. Follows(Loop)
  BY <1>1, <1>3, <1>5, Basics DEF Follows
<1>7. CASE ~Retains(c)
  <2>1. Keeps(Loop)
    BY <1>1, <1>3, <1>6, <1>7, Basics DEF Keeps, CleanerDone, Forsaken
  <2>2. QED
    BY <2>1, KeepsKInv, Basics
<1>8. CASE Retains(c)
  <2>1. /\ proc.gen = c.retained /\ proc.pid = c.tree /\ proc.pid \in 1 .. spawned
        /\ c.retained \in 0 .. Ceiling /\ genOf[c.tree] < c.retained
    BY <1>8, Basics DEF Retains, KInv, CleanersFit, CleanerFits, NoGen
  <2>2. Ceiling = proc.gen /\ genOf[proc.pid] < Ceiling
    BY <2>1, Basics
  <2>3. /\ genOf[proc.pid] # Ceiling /\ proc.pid # NoTree
    <3>1. genOf[proc.pid] \in Gens
      BY <2>1, BoundsAssumption DEF IInv, TypeOK, OsType, Trees
    <3>2. QED
      BY <2>1, <2>2, <3>1, Basics DEF Gens, NoGen, NoTree
  <2>4. ~Announced(Ceiling)
    BY <2>3 DEF KInv, Settled
  <2>5. Settled'
    BY <1>3, <1>5, <2>4 DEF Settled, NoNews
  <2>6. ASSUME NEW b \in Spawners, pc[b] \in Attaching, loc[b].gen = Ceiling
        PROVE  pc[User] = "stopOk"
    <3>1. genOf[loc[b].child] = Ceiling
      BY <2>6 DEF IInv, SpawnLocals, Attaching, HoldingChild, Spawning
    <3>2. QED
      BY <2>3, <2>6, <3>1 DEF KInv, Attached, Forsaken
  <2>7. Attached'
    BY <1>1, <1>3, <2>6 DEF Attached
  <2>8. QED
    BY <1>6, <2>5, <2>7, FollowsKeeps, Basics DEF KInv
<1>9. QED
  BY <1>7, <1>8

(* restart_loop: dispatching hands an announcement on, handling an exit    *)
(* empties the entry of the generation it is about.                        *)
LEMMA LoopKInv == IInv /\ IInv' /\ KInv /\ LoopNext => KInv'
<1> SUFFICES ASSUME IInv, IInv', KInv, LoopNext PROVE KInv'
  OBVIOUS
<1>1. UNCHANGED <<spawned, genOf, watch, cleaners>> /\ events' \subseteq events
  BY DEF LoopNext, LoopRestart, LoopExit, LoopExitErr, LoopExitOk, Take, os, tasks
<1>2. ASSUME NEW e \in events, LoopRestart(e) PROVE KInv'
  <2>1. proc' = proc
    BY <1>2 DEF LoopRestart
  <2>2. CASE UNCHANGED <<pc, loc>>
    <3>1. NoNews
      <4>1. /\ proc'.status = "Running" => Announced(proc'.gen)
            /\ pc'[Loop] # "idle" => Announced(loc'[Loop].gen)
        BY <2>1, <2>2 DEF Announced
      <4>2. QED
        BY <1>1, <2>2, <4>1, Basics, ListsAnnounced, NewsOfStep
    <3>2. (StopRuns' <=> StopRuns) /\ Ceiling' = Ceiling
      BY <2>1, <2>2 DEF StopRuns, Ceiling
    <3>3. Keeps(Loop)
      BY <1>1, <2>1, <2>2, <3>1, <3>2, Basics DEF Keeps, Follows, Forsaken
    <3>4. QED
      BY <3>3, KeepsKInv, Basics
  <2>3. CASE \E a \in Tasks :
               /\ pc[a] = "idle"
               /\ Step(a, "claim", [Fresh EXCEPT !.gen = e.gen, !.expect = e.gen])
    <3>1. PICK a \in Tasks :
                 /\ pc[a] = "idle"
                 /\ Step(a, "claim", [Fresh EXCEPT !.gen = e.gen, !.expect = e.gen])
      BY <2>3
    <3>2. /\ pc'[a] = "claim" /\ loc'[a] = [Fresh EXCEPT !.gen = e.gen, !.expect = e.gen]
          /\ \A b \in Actors \ {a} : pc'[b] = pc[b] /\ loc'[b] = loc[b]
          /\ a \in Actors /\ a # User /\ a # Loop
      BY <3>1, StepMoves, Basics
    <3>3. Announced(e.gen) /\ loc'[a].gen = e.gen
      BY <3>2, FreshType, ListsAnnounced DEF Locals
    <3>4. (StopRuns' <=> StopRuns) /\ Ceiling' = Ceiling
      BY <2>1, <3>2, Basics DEF StopRuns, Ceiling
    <3>5. NoNews
      <4>1. proc'.status = "Running" => Announced(proc'.gen)
        BY <2>1 DEF Announced
      <4>2. QED
        BY <1>1, <3>2, <3>3, <4>1, Basics, ListsAnnounced, NewsOfStep
    <3>6. Keeps(a)
      BY <1>1, <2>1, <3>2, <3>4, <3>5, Basics
         DEF Keeps, Follows, Forsaken, Attaching, Spawning, HoldingChild
    <3>7. QED
      BY <3>2, <3>6, KeepsKInv
  <2>4. QED
    BY <1>2, <2>2, <2>3 DEF LoopRestart
<1>3. ASSUME NEW e \in events, LoopExit(e) PROVE KInv'
  <2>1. /\ proc' = proc /\ \A b \in Actors \ {Loop} : pc'[b] = pc[b] /\ loc'[b] = loc[b]
        /\ pc[Loop] = "idle"
        /\ \/ pc'[Loop] = "idle"
           \/ pc'[Loop] = "term" /\ loc'[Loop] =
                [Fresh EXCEPT !.op = e.kind, !.gen = e.gen, !.count = e.count]
    BY <1>3, StepMoves, Basics DEF LoopExit, Take
  <2>2. pc'[Loop] # "idle" => Announced(loc'[Loop].gen)
    <3>1. [Fresh EXCEPT !.op = e.kind, !.gen = e.gen, !.count = e.count].gen = e.gen
      BY FreshType DEF Locals
    <3>2. QED
      BY <2>1, <3>1, ListsAnnounced
  <2>3. (StopRuns' <=> StopRuns) /\ Ceiling' = Ceiling
    BY <2>1, Basics DEF StopRuns, Ceiling
  <2>4. NoNews
    <3>1. proc'.status = "Running" => Announced(proc'.gen)
      BY <2>1 DEF Announced
    <3>2. QED
      BY <1>1, <2>1, <2>2, <3>1, Basics, ListsAnnounced, NewsOfStep
  <2>5. Keeps(Loop)
    BY <1>1, <2>1, <2>3, <2>4, Basics DEF Keeps, Follows, Forsaken
  <2>6. QED
    BY <2>5, KeepsKInv, Basics
<1>4. CASE LoopExitErr \/ LoopExitOk
  <2>1. /\ \A b \in Actors \ {Loop} : pc'[b] = pc[b] /\ loc'[b] = loc[b]
        /\ pc[Loop] # "idle" /\ pc'[Loop] = "idle"
    BY <1>4, GotoMoves, Basics DEF LoopExitErr, LoopExitOk
  <2>2. proc'.gen = proc.gen
    BY <1>4, Basics DEF LoopExitErr, LoopExitOk, Cleared, Forgotten, Entries
  <2>3. (StopRuns' <=> StopRuns) /\ Ceiling' = Ceiling
    BY <2>1, <2>2, Basics DEF StopRuns, Ceiling
  <2>4. NoNews
    <3>1. proc'.status = "Running" => Announced(proc'.gen)
      BY <1>4, Basics DEF Announced, LoopExitErr, LoopExitOk, Cleared, Forgotten, Entries
    <3>2. QED
      BY <1>1, <2>1, <3>1, Basics, ListsAnnounced, NewsOfStep
  <2>5. Follows(Loop)
    BY <1>1, <2>1, <2>3, <2>4, Basics DEF Follows
  <2>6. CASE proc' = proc
    <3>1. Keeps(Loop)
      BY <2>1, <2>3, <2>5, <2>6, Basics DEF Keeps, Forsaken
    <3>2. QED
      BY <3>1, KeepsKInv, Basics
  <2>7. CASE proc' # proc /\ LoopExitErr
    <3>1. proc.gen = loc[Loop].gen
      BY <2>7 DEF LoopExitErr
    <3>2. Announced(proc.gen)
      BY <2>1, <3>1 DEF Announced
    <3>3. Announced(Ceiling)
      BY <3>2, Basics DEF KInv, AnnouncedPast
    <3>4. proc'.pid = proc.pid /\ proc'.tree = proc.tree
      BY <2>7, Basics DEF LoopExitErr, Entries
    <3>5. Keeps(Loop)
      BY <2>1, <2>3, <2>5, <3>3, <3>4, Basics DEF Keeps
    <3>6. QED
      BY <3>5, KeepsKInv, Basics
  <2>8. CASE proc' # proc /\ LoopExitOk
    <3>1. proc.gen = loc[Loop].gen /\ proc.desired
      BY <2>8 DEF LoopExitOk
    <3>2. Announced(proc.gen) /\ ~StopRuns
      BY <2>1, <3>1, Basics DEF Announced
    <3>3. proc'.pid = NoTree /\ proc'.tree = NoTree
      BY <2>8, Basics DEF LoopExitOk, Cleared, Forgotten, Entries
    <3>4. Empties(Loop)
      BY <2>1, <2>3, <2>5, <3>2, <3>3, Basics DEF Empties, StopRuns
    <3>5. QED
      BY <3>4, EmptiesKInv, Basics
  <2>9. QED
    BY <1>4, <2>6, <2>7, <2>8
<1>5. QED
  BY <1>2, <1>3, <1>4 DEF LoopNext

(* A task of a Restart event announces its generation until it has cleared *)
(* the entry.                                                              *)
LEMMA TaskKInv ==
  ASSUME IInv, IInv', KInv, NEW a \in Tasks, TaskNext(a)
  PROVE  KInv'
<1>1. UNCHANGED <<spawned, genOf, watch, events, cleaners>>
  BY DEF TaskNext, TaskClaim, TaskRestore, TaskClear, TaskFailed, os, tasks
<1>2. /\ a \in Actors /\ a # User /\ a # Loop /\ a \in Spawners /\ loc[a] \in Locals
      /\ \A b \in Actors \ {a} : pc'[b] = pc[b] /\ loc'[b] = loc[b]
  BY StepMoves, GotoMoves, Basics DEF TaskNext, TaskClaim, TaskRestore, TaskClear,
     TaskFailed, Spawners
<1>3. /\ pc[a] \in {"claim", "restore", "clear", "failed"}
      /\ pc'[a] \in {"idle", "term", "check"}
      /\ pc'[a] = "term" => pc[a] = "claim"
  BY <1>2, StepMoves, GotoMoves, Basics DEF TaskNext, TaskClaim, TaskRestore,
     TaskClear, TaskFailed
<1>4. pc'[a] = "term" => loc'[a].gen = loc[a].gen
  <2>1. pc'[a] = "term" => loc'[a] = [loc[a] EXCEPT !.prev = proc.status]
    BY <1>2, StepMoves, GotoMoves, Basics DEF TaskNext, TaskClaim, TaskRestore,
       TaskClear, TaskFailed
  <2>2. QED
    BY <1>2, <2>1 DEF Locals
<1>5. (StopRuns' <=> StopRuns) /\ loc'[User] = loc[User] /\ pc'[User] = pc[User]
  BY <1>2, Basics DEF StopRuns
<1>6. pc'[a] \in Serves => Announced(loc'[a].gen)
  BY <1>3, <1>4 DEF Announced, Serves
<1>7. pc[a] \in Serves => Announced(loc[a].gen) /\ loc[a].gen \in 0 .. Ceiling
  BY DEF Announced, KInv, AnnouncedPast
<1>8. ASSUME proc'.status = "Running" => Announced(proc'.gen), Ceiling' >= Ceiling
      PROVE  Follows(a)
  <2>1. NoNews
    BY <1>1, <1>2, <1>6, <1>8, ListsAnnounced, NewsOfStep
  <2>2. QED
    BY <1>1, <1>2, <1>3, <1>8, <2>1 DEF Follows, Spawning, HoldingChild
<1>9. CASE proc' = proc
  <2>1. Ceiling' = Ceiling /\ (proc'.status = "Running" => Announced(proc'.gen))
    BY <1>5, <1>9 DEF Ceiling, Announced
  <2>2. Follows(a)
    BY <1>8, <2>1, Basics
  <2>3. Keeps(a)
    BY <1>3, <1>5, <1>9, <2>1, <2>2 DEF Keeps, Attaching, Forsaken
  <2>4. QED
    BY <1>2, <2>3, KeepsKInv
<1>10. CASE proc' # proc /\ (TaskClaim(a) \/ TaskRestore(a))
  <2>1. /\ proc.gen = loc[a].gen /\ pc[a] \in Serves
        /\ proc'.gen = proc.gen /\ proc'.pid = proc.pid /\ proc'.tree = proc.tree
    BY <1>10, Basics DEF TaskClaim, TaskRestore, Current, Serves, Entries
  <2>2. Announced(proc.gen) /\ Ceiling' = Ceiling /\ Ceiling = proc.gen
    BY <1>5, <1>7, <2>1, Basics DEF Ceiling
  <2>3. Follows(a)
    BY <1>8, <2>1, <2>2, Basics
  <2>4. Keeps(a)
    BY <1>3, <1>5, <2>1, <2>2, <2>3 DEF Keeps, Attaching
  <2>5. QED
    BY <1>2, <2>4, KeepsKInv
<1>11. CASE proc' # proc /\ TaskClear(a)
  <2>1. /\ proc.gen = loc[a].gen /\ pc[a] \in Serves
        /\ proc'.gen = proc.gen /\ proc'.pid = NoTree /\ proc'.tree = NoTree
        /\ proc'.status \in {proc.status, "Stopped"}
    BY <1>11, Basics DEF TaskClear, Current, Cleared, Forgotten, Serves, Entries
  <2>2. Announced(proc.gen) /\ Ceiling' = Ceiling /\ Ceiling = proc.gen /\ ~StopRuns
    BY <1>5, <1>7, <2>1, Basics DEF Ceiling
  <2>3. Follows(a)
    BY <1>8, <2>1, <2>2, Basics
  <2>4. Empties(a)
    BY <1>3, <1>5, <2>1, <2>2, <2>3 DEF Empties, Attaching, StopRuns
  <2>5. QED
    BY <1>2, <2>4, EmptiesKInv
<1>12. CASE proc' # proc /\ TaskFailed(a)
  <2>1. /\ pc[a] = "failed" /\ proc.desired /\ proc.gen \in {loc[a].expect, loc[a].expect + 1}
        /\ proc' = [Cleared(proc) EXCEPT !.gen = loc[a].expect + 1, !.status = "Errored",
                                         !.desired = FALSE]
    BY <1>12 DEF TaskFailed
  <2>2. /\ proc'.gen = loc[a].expect + 1 /\ proc'.status = "Errored" /\ ~proc'.desired
        /\ proc'.pid = NoTree /\ proc'.tree = NoTree
    BY <2>1, Basics DEF Cleared, Forgotten, Entries
  <2>3. loc[a].expect \in Nat /\ ~StopRuns /\ Ceiling = proc.gen /\ Ceiling' = proc'.gen
    BY <1>5, <2>1, Basics DEF IInv, TaskLocals, Ceiling
  <2>4. Follows(a)
    BY <1>8, <2>1, <2>2, <2>3
  <2>5. CASE proc.gen = loc[a].expect
    <3>1. Advances(a)
      BY <2>2, <2>3, <2>4, <2>5 DEF Advances
    <3>2. QED
      BY <1>2, <3>1, AdvancesKInv
  <2>6. CASE proc.gen = loc[a].expect + 1
    <3>1. Empties(a)
      BY <1>3, <1>5, <2>2, <2>3, <2>4, <2>6 DEF Empties, Forsaken, StopRuns, Attaching
    <3>2. QED
      BY <1>2, <3>1, EmptiesKInv
  <2>7. QED
    BY <2>1, <2>5, <2>6
<1>13. QED
  BY <1>9, <1>10, <1>11, <1>12 DEF TaskNext

(* terminate_retained_process_tree: the tree taken for an event is the one *)
(* of the event's generation, because that generation is announced.        *)
LEMMA TerminateKInv ==
  ASSUME IInv, IInv', KInv, NEW a \in Actors, Terminate(a)
  PROVE  KInv'
<1>1. UNCHANGED <<spawned, genOf, watch, events, cleaners>>
  BY DEF Terminate, TermTimeout, TermReturn, TermTake, KillOk, KillFail, os, tasks
<1>2. /\ loc[a] \in Locals
      /\ \A b \in Actors \ {a} : pc'[b] = pc[b] /\ loc'[b] = loc[b]
  BY StepMoves, GotoMoves, Basics DEF Terminate, TermTimeout, TermReturn, TermTake,
     KillOk, KillFail
<1>3. pc[a] \in {"term", "kill"} /\ pc'[a] \in {"kill", TermOk(a), TermErr(a)}
  BY StepMoves, GotoMoves, Basics DEF Terminate, TermTimeout, TermReturn, TermTake,
     KillOk, KillFail, Terminating
<1>4. /\ pc'[a] # "idle" /\ loc'[a].gen = loc[a].gen
      /\ loc'[a].prev = loc[a].prev /\ loc'[a].prevGen = loc[a].prevGen
  <2>1. TermOk(a) # "idle" /\ TermErr(a) # "idle"
    BY DEF TermOk, TermErr
  <2>2. \/ loc'[a] = loc[a]
        \/ loc'[a] = [loc[a] EXCEPT !.hold = NoTree, !.guard = FALSE]
        \/ loc'[a] = [loc[a] EXCEPT !.guard = proc.tree # NoTree, !.owned = proc.pid,
             !.hold = IF proc.tree # NoTree THEN proc.tree ELSE proc.pid]
    <3>1. CASE TermTimeout(a) \/ TermReturn(a)
      BY <2>1, <3>1, GotoMoves, Basics DEF TermTimeout, TermReturn
    <3>2. CASE TermTake(a)
      BY <3>2, StepMoves, Basics DEF TermTake
    <3>3. CASE KillOk(a) \/ KillFail(a)
      BY <2>1, <3>3, StepMoves, Basics DEF KillOk, KillFail
    <3>4. QED
      BY <3>1, <3>2, <3>3 DEF Terminate
  <2>3. QED
    BY <1>2, <1>3, <2>1, <2>2 DEF Locals
<1>5. /\ proc'.gen = proc.gen /\ proc'.status = proc.status /\ proc'.desired = proc.desired
  BY Basics DEF Terminate, TermTimeout, TermReturn, TermTake, KillOk, KillFail,
     Forgotten, Entries
<1>6. (StopRuns' <=> StopRuns) /\ Ceiling' = Ceiling
  <2>1. a = User => pc[User] \in {"term", "kill"} /\ pc'[User] \in {"kill", "stopOk", "stopErr"}
    BY <1>3 DEF TermOk, TermErr
  <2>2. StopRuns' <=> StopRuns
    BY <1>2, <2>1, Basics DEF StopRuns
  <2>3. QED
    BY <1>2, <1>4, <1>5, <2>2, Basics DEF Ceiling
<1>7. NoNews
  <2>1. a \in Tasks => pc[a] \in Serves
    BY <1>3 DEF Serves
  <2>2. /\ a \in Tasks => Announced(loc'[a].gen)
        /\ a = Loop => Announced(loc'[a].gen)
        /\ proc'.status = "Running" => Announced(proc'.gen)
    BY <1>3, <1>4, <1>5, <2>1 DEF Announced
  <2>3. a = User /\ StopRuns' /\ loc'[a].prev = "Running" => Announced(loc'[a].prevGen)
    BY <1>4, <1>6 DEF Announced
  <2>4. QED
    BY <1>1, <1>2, <2>2, <2>3, ListsAnnounced, NewsOfStep
<1>8. a \in Spawners => pc'[a] \notin Spawning
  BY <1>3, Basics DEF TermOk, TermErr, Spawning
<1>9. ASSUME pc'[a] # "kill" PROVE Follows(a)
  BY <1>1, <1>2, <1>6, <1>7, <1>8, <1>9, Basics DEF Follows, HoldingChild
<1>10. Forsaken /\ proc'.pid = NoTree => Forsaken'
  BY <1>5, <1>6 DEF Forsaken
<1>11. pc[User] = "stopOk" => pc'[User] = "stopOk"
  BY <1>2, <1>3, Basics
<1>12. pc'[a] # "kill" /\ a # User /\ pc[User] = "kill" => pc'[User] = "kill"
  BY <1>2, Basics
<1>13. CASE TermTimeout(a) \/ TermReturn(a)
  <2>1. proc' = proc /\ pc'[a] # "kill"
    BY <1>13, GotoMoves, Basics DEF TermTimeout, TermReturn, TermOk, TermErr
  <2>2. Keeps(a)
    BY <1>6, <1>8, <1>9, <1>10, <1>11, <2>1 DEF Keeps, Attaching, Spawning, Forsaken
  <2>3. QED
    BY <2>2, KeepsKInv
<1>14. CASE TermTake(a)
  <2> DEFINE tree == IF proc.tree # NoTree THEN proc.tree ELSE proc.pid
  <2>1. /\ pc'[a] = "kill" /\ loc'[a].hold = tree /\ loc'[a].owned = proc.pid
        /\ proc.gen = loc[a].gen
        /\ proc.tree # NoTree \/ proc.pid # NoTree
    <3>1. /\ pc'[a] = "kill" /\ proc.gen = loc[a].gen
          /\ proc.tree # NoTree \/ proc.pid # NoTree
          /\ loc'[a] = [loc[a] EXCEPT !.guard = proc.tree # NoTree, !.owned = proc.pid,
                                      !.hold = tree]
      BY <1>14, StepMoves, Basics DEF TermTake
    <3>2. QED
      BY <1>2, <3>1 DEF Locals
  <2>2. proc'.pid = proc.pid /\ proc'.tree = NoTree
    BY <1>14, Basics DEF TermTake, Entries
  <2>3. Announced(Ceiling) => tree = proc.pid /\ genOf[tree] = Ceiling
    BY <2>1 DEF KInv, Settled, NoTree
  <2>4. a # User => Announced(proc.gen) /\ proc.gen = Ceiling
    <3>1. a # User => Announced(proc.gen)
      BY <1>3, <2>1 DEF Announced, Serves, Actors
    <3>2. QED
      BY <3>1, Basics DEF KInv, AnnouncedPast
  <2>5. AnnouncedPast'
    <3>1. ASSUME NEW g, Announced(g)'
          PROVE  /\ g \in 0 .. Ceiling
                 /\ \A b \in Spawners : pc[b] \in Spawning => loc[b].gen # g
      BY <1>7, <3>1 DEF KInv, AnnouncedPast, NoNews
    <3>2. ASSUME NEW b \in Spawners, pc'[b] \in Spawning
          PROVE  pc[b] \in Spawning /\ loc'[b] = loc[b]
      BY <1>2, <1>8, <3>2, Basics
    <3>3. QED
      BY <1>6, <3>1, <3>2 DEF AnnouncedPast
  <2>6. Settled'
    BY <1>1, <1>2, <1>6, <1>7, <2>1, <2>2, <2>3, Basics DEF KInv, Settled, NoNews
  <2>7. Attached'
    <3>1. ASSUME NEW b \in Spawners, pc'[b] \in Attaching
          PROVE  pc[b] \in Attaching /\ loc'[b] = loc[b]
      BY <1>2, <1>8, <3>1, Basics DEF Attaching, Spawning
    <3>2. Forsaken => Forsaken'
      BY <1>10, <2>2 DEF Forsaken
    <3>3. ASSUME NEW b \in Spawners, pc'[b] \in Attaching, loc'[b].gen = Ceiling',
                 pc'[User] # "stopOk"
          PROVE  proc'.pid = loc'[b].child \/ Forsaken'
      <4>1. pc[b] \in Attaching /\ loc'[b] = loc[b]
        BY <3>1, <3>3
      <4>2. proc.pid = loc[b].child \/ Forsaken
        BY <1>6, <1>11, <3>3, <4>1 DEF KInv, Attached
      <4>3. QED
        BY <2>2, <3>2, <4>1, <4>2
    <3>4. QED
      BY <3>3 DEF Attached
  <2>8. ChildrenDistinct' /\ CleanersFit' /\ Unspawned'
    <3>1. ASSUME NEW b \in Spawners, pc'[b] \in HoldingChild
          PROVE  pc[b] \in HoldingChild /\ loc'[b] = loc[b]
      BY <1>2, <1>8, <3>1, Basics DEF HoldingChild
    <3>2. ChildrenDistinct'
      BY <3>1 DEF KInv, ChildrenDistinct
    <3>3. QED
      BY <1>1, <1>6, <3>2 DEF KInv, CleanersFit, CleanerFits, Unspawned
  <2>9. KillLocals'
    BY <1>1, <1>2, <1>4, <2>1, <2>3, <2>4 DEF KInv, KillLocals
  <2>10. QED
    BY <2>5, <2>6, <2>7, <2>8, <2>9 DEF KInv
<1>15. CASE KillOk(a) \/ KillFail(a)
  <2>1. pc[a] = "kill" /\ pc'[a] \in {TermOk(a), TermErr(a)} /\ pc'[a] # "kill"
    BY <1>15, StepMoves, Basics DEF KillOk, KillFail, TermOk, TermErr
  <2>2. Follows(a)
    BY <1>9, <2>1
  <2>3. \/ proc'.pid = proc.pid /\ proc'.tree = proc.tree
        \/ /\ proc.tree = NoTree /\ proc.pid = loc[a].owned
           /\ \/ proc'.pid = NoTree /\ proc'.tree = NoTree /\ pc'[a] = TermOk(a)
              \/ proc'.pid = proc.pid /\ proc'.tree = loc[a].hold
    <3>1. CASE KillOk(a)
      BY <3>1, <2>1, StepMoves, Basics DEF KillOk, StillOwned, Forgotten, Entries
    <3>2. CASE KillFail(a)
      BY <3>2, Basics DEF KillFail, StillOwned, Entries
    <3>3. QED
      BY <1>15, <3>1, <3>2
  <2>4. CASE proc'.pid = proc.pid /\ proc'.tree = proc.tree
    <3>1. Keeps(a)
      BY <1>6, <1>8, <1>10, <1>11, <2>2, <2>4 DEF Keeps, Attaching, Spawning, Forsaken
    <3>2. QED
      BY <3>1, KeepsKInv
  <2>5. CASE /\ proc.tree = NoTree /\ proc.pid = loc[a].owned
             /\ proc'.pid = NoTree /\ proc'.tree = NoTree /\ pc'[a] = TermOk(a)
    <3>1. pc'[User] # "kill"
      BY <1>2, <2>1, Basics DEF IInv, CleanupExclusive
    <3>2. Settled'
      BY <2>5, <3>1 DEF Settled
    <3>3. Attached'
      <4>1. CASE a = User
        BY <2>5, <4>1 DEF Attached, TermOk
      <4>2. CASE a # User
        <5>1. ASSUME NEW b \in Spawners, pc[b] \in Attaching, loc[b].gen = Ceiling,
                     pc[User] # "stopOk"
              PROVE  Forsaken
          <6>1. proc.pid = loc[b].child \/ Forsaken
            BY <5>1 DEF KInv, Attached
          <6>2. genOf[loc[b].child] = Ceiling
            BY <5>1 DEF IInv, SpawnLocals, Attaching, HoldingChild, Spawning
          <6>3. genOf[loc[a].owned] = loc[a].gen
            BY <2>1, <4>2 DEF KInv, KillLocals
          <6>4. loc[a].gen # Ceiling
            <7>1. Announced(loc[a].gen)
              BY <2>1, <4>2 DEF Announced, Serves, Actors
            <7>2. QED
              BY <5>1, <7>1 DEF KInv, AnnouncedPast, Attaching, Spawning
          <6>5. QED
            BY <2>5, <6>1, <6>2, <6>3, <6>4
        <5>2. QED
          BY <1>2, <1>5, <1>6, <1>8, <1>11, <2>5, <4>2, <5>1, Basics
             DEF Attached, Attaching, Spawning, Forsaken
      <4>3. QED
        BY <4>1, <4>2
    <3>4. QED
      BY <2>2, <3>2, <3>3, FollowsKeeps DEF KInv
  <2>6. CASE /\ proc.tree = NoTree /\ proc.pid = loc[a].owned
             /\ proc'.pid = proc.pid /\ proc'.tree = loc[a].hold
    <3>1. Settled'
      <4>1. Announced(Ceiling) => loc[a].hold = loc[a].owned
        BY <2>1 DEF KInv, Settled, KillLocals
      <4>2. pc'[User] # "kill"
        BY <1>2, <2>1, Basics DEF IInv, CleanupExclusive
      <4>3. QED
        BY <1>1, <1>6, <1>7, <2>6, <4>1, <4>2 DEF KInv, Settled, NoNews
    <3>2. Attached'
      BY <1>2, <1>5, <1>6, <1>8, <1>11, <2>6, Basics
         DEF KInv, Attached, Attaching, Spawning, Forsaken
    <3>3. QED
      BY <2>2, <3>1, <3>2, FollowsKeeps DEF KInv
  <2>7. QED
    BY <2>3, <2>4, <2>5, <2>6
<1>16. QED
  BY <1>13, <1>14, <1>15 DEF Terminate

(* The steps of a spawn before it has a child and after it is over: the    *)
(* entry is left alone, or a new generation begins.                        *)
LEMMA SpawnKind ==
  ASSUME IInv, IInv', KInv, NEW a \in Spawners,
         \/ SpawnCheck(a) \/ SpawnBegin(a) \/ SpawnRefused(a) \/ SpawnExecFail(a)
         \/ SpawnIdentify(a) \/ SpawnAttach(a) \/ SpawnCancelled(a)
         \/ AbandonOk(a) \/ AbandonFail(a)
         \/ SpawnPid(a) /\ ~Current(proc, loc[a].gen)
  PROVE  Keeps(a) \/ Advances(a)
<1>1. /\ UNCHANGED <<spawned, genOf, watch, events>>
      /\ a \in Actors /\ a # Loop /\ loc[a] \in Locals
  BY Basics DEF SpawnCheck, SpawnBegin, SpawnRefused, SpawnExecFail, SpawnIdentify,
     SpawnAttach, SpawnCancelled, AbandonOk, AbandonFail, SpawnPid, os, tasks
<1>2. \A b \in Actors \ {a} : pc'[b] = pc[b] /\ loc'[b] = loc[b]
  <2>1. \E p, l : Step(a, p, l)
    BY DEF SpawnCheck, SpawnBegin, SpawnRefused, SpawnExecFail, SpawnIdentify,
       SpawnAttach, SpawnCancelled, AbandonOk, AbandonFail, SpawnPid, Goto
  <2>2. QED
    BY <1>1, <2>1, StepMoves, Basics
<1>3. /\ pc[a] \in {"check", "begin"} \cup Spawning
      /\ pc'[a] \in {"begin", SpawnErr(a)} \cup Spawning
  BY <1>1, StepMoves, GotoMoves, Basics DEF SpawnCheck, SpawnBegin, SpawnRefused,
     SpawnExecFail, SpawnIdentify, SpawnAttach, SpawnCancelled, AbandonOk,
     AbandonFail, SpawnPid, Spawning
<1>4. SpawnErr(a) \in {"failed", "unstart", "rollback", "idle"}
  BY DEF SpawnErr
<1>5. (~StopRuns /\ ~StopRuns') \/ (a # User /\ (StopRuns' <=> StopRuns))
  BY <1>1, <1>2, <1>3, <1>4, Basics DEF StopRuns, Spawning
<1>6. pc'[a] \notin Serves /\ pc'[a] # "kill" /\ pc'[a] # "stopOk" /\ pc[a] # "stopOk"
  BY <1>3, <1>4 DEF Serves, Spawning
<1>7. proc'.status = "Running" => proc.status = "Running" /\ proc'.gen = proc.gen
  BY Basics DEF SpawnCheck, SpawnBegin, SpawnRefused, SpawnExecFail, SpawnIdentify,
     SpawnAttach, SpawnCancelled, AbandonOk, AbandonFail, SpawnPid, Abandoned,
     Cleared, Forgotten, Entries
<1>8. NoNews
  <2>1. proc'.status = "Running" => Announced(proc'.gen)
    BY <1>7 DEF Announced
  <2>2. QED
    BY <1>1, <1>2, <1>5, <1>6, <2>1, ListsAnnounced, NewsOfStep
<1>9. CASE ~SpawnBegin(a)
  <2>1. /\ pc'[a] \in Spawning =>
             pc[a] \in Spawning /\ loc'[a].gen = loc[a].gen
        /\ pc'[a] \in HoldingChild =>
             pc[a] \in HoldingChild /\ loc'[a].child = loc[a].child
        /\ pc'[a] \in Attaching => pc[a] \in Attaching
    <3>1. CASE SpawnCheck(a) \/ SpawnRefused(a) \/ SpawnExecFail(a) \/ AbandonOk(a)
               \/ AbandonFail(a)
      <4>1. pc'[a] \in {"begin", SpawnErr(a)}
        BY <1>1, <3>1, StepMoves, GotoMoves, Basics DEF SpawnCheck, SpawnRefused,
           SpawnExecFail, AbandonOk, AbandonFail
      <4>2. QED
        BY <1>4, <4>1 DEF Spawning, HoldingChild, Attaching
    <3>2. CASE SpawnCancelled(a)
      BY <1>1, <3>2, GotoMoves, Basics DEF SpawnCancelled, Spawning, HoldingChild, Attaching
    <3>3. CASE SpawnIdentify(a)
      <4>1. /\ pc[a] = "identify" /\ pc'[a] \in {"pid", "abandon"}
            /\ \E known \in BOOLEAN : loc'[a] = [loc[a] EXCEPT !.identity = known]
        <5>1. pc[a] = "identify" /\ \E known \in BOOLEAN :
                \/ Step(a, "pid", [loc[a] EXCEPT !.identity = known])
                \/ Step(a, "abandon", [loc[a] EXCEPT !.identity = known])
          BY <3>3, Zenon DEF SpawnIdentify
        <5>2. QED
          BY <1>1, <5>1, StepMoves, Basics
      <4>2. QED
        BY <1>1, <4>1 DEF Spawning, HoldingChild, Attaching, Locals
    <3>4. CASE SpawnAttach(a)
      <4>1. /\ pc[a] = "attach" /\ pc'[a] \in {"commit", "abandon"}
            /\ loc'[a] \in {loc[a], [loc[a] EXCEPT !.count = proc.restarts]}
        BY <1>1, <3>4, StepMoves, GotoMoves, Basics DEF SpawnAttach
      <4>2. QED
        BY <1>1, <4>1 DEF Spawning, HoldingChild, Attaching, Locals
    <3>5. CASE SpawnPid(a) /\ ~Current(proc, loc[a].gen)
      <4>1. pc[a] = "pid" /\ pc'[a] = "abandon" /\ loc'[a] = loc[a]
        BY <1>1, <3>5, GotoMoves, Basics DEF SpawnPid
      <4>2. QED
        BY <4>1 DEF Spawning, HoldingChild, Attaching
    <3>6. QED
      BY <1>9, <3>1, <3>2, <3>3, <3>4, <3>5
  <2>2. CASE proc' = proc
    <3>1. Ceiling' = Ceiling
      BY <1>2, <1>5, <2>2, Basics DEF Ceiling
    <3>2. \A c \in cleaners' : c \in cleaners \/ CleanerFits(c)'
      <4>1. CASE AbandonFail(a) /\ proc.gen # loc[a].gen
        <5>1. loc[a].child \in 1 .. spawned
          BY <4>1 DEF AbandonFail, IInv, SpawnLocals, Spawning, HoldingChild
        <5>2. QED
          BY <1>1, <4>1, <5>1 DEF AbandonFail, CleanerFits
      <4>2. ~(AbandonFail(a) /\ proc.gen = loc[a].gen)
        <5>1. ASSUME AbandonFail(a), proc.gen = loc[a].gen PROVE proc'.gen = proc.gen + 1
          BY <5>1, Basics DEF AbandonFail, Abandoned, Entries
        <5>2. QED
          BY <2>2, <5>1, Basics
      <4>3. CASE ~AbandonFail(a)
        BY <4>3 DEF SpawnCheck, SpawnBegin, SpawnRefused, SpawnExecFail,
           SpawnIdentify, SpawnAttach, SpawnCancelled, AbandonOk, SpawnPid, tasks
      <4>4. QED
        BY <4>1, <4>2, <4>3
    <3>3. Follows(a)
      BY <1>1, <1>2, <1>6, <1>8, <2>1, <3>1, <3>2, Basics DEF Follows
    <3>4. Forsaken => Forsaken'
      BY <1>5, <2>2 DEF Forsaken
    <3>5. Keeps(a)
      BY <1>1, <1>2, <1>6, <2>1, <2>2, <3>1, <3>3, <3>4, Basics DEF Keeps, Attaching, Spawning
    <3>6. QED
      BY <3>5
  <2>3. CASE proc' # proc
    <3>1. pc[a] \in Spawning /\ proc.gen = loc[a].gen /\ proc'.gen = proc.gen + 1
      <4>1. CASE SpawnExecFail(a)
        BY <2>3, <4>1, Basics DEF SpawnExecFail, Cleared, Forgotten, Entries, Spawning
      <4>2. CASE AbandonOk(a) \/ AbandonFail(a)
        BY <2>3, <4>2, Basics DEF AbandonOk, AbandonFail, Abandoned, Entries, Spawning
      <4>3. QED
        BY <1>9, <2>3, <4>1, <4>2 DEF SpawnCheck, SpawnRefused, SpawnIdentify,
           SpawnAttach, SpawnCancelled, SpawnPid
    <3>2. ~StopRuns /\ ~StopRuns' /\ Ceiling = proc.gen /\ Ceiling' = proc.gen + 1
      BY <1>5, <3>1, SpawningPast, Basics DEF Ceiling
    <3>3. \A c \in cleaners' : c \in cleaners \/ CleanerFits(c)'
      <4>1. CASE AbandonFail(a)
        <5>1. loc[a].child \in 1 .. spawned /\ genOf[loc[a].child] = loc[a].gen
          BY <4>1 DEF AbandonFail, IInv, SpawnLocals, Spawning, HoldingChild
        <5>2. ASSUME NEW c \in cleaners', c \notin cleaners
              PROVE  c.tree = loc[a].child /\ c.retained = proc.gen + 1
          BY <3>1, <4>1, <5>2 DEF AbandonFail
        <5>3. QED
          BY <1>1, <3>1, <3>2, <5>1, <5>2, Basics DEF CleanerFits
      <4>2. CASE ~AbandonFail(a)
        BY <4>2 DEF SpawnCheck, SpawnBegin, SpawnRefused, SpawnExecFail,
           SpawnIdentify, SpawnAttach, SpawnCancelled, AbandonOk, SpawnPid, tasks
      <4>3. QED
        BY <4>1, <4>2
    <3>4. Follows(a)
      BY <1>1, <1>2, <1>6, <1>8, <2>1, <3>2, <3>3, Basics DEF Follows
    <3>5. QED
      BY <3>2, <3>4, Basics DEF Advances
  <2>4. QED
    BY <2>2, <2>3
<1>10. CASE SpawnBegin(a)
  <2>1. pc'[a] = "exec" /\ loc'[a].gen = proc.gen + 1 /\ proc'.gen = proc.gen + 1
    <3>1. pc'[a] = "exec" /\ loc'[a] = [loc[a] EXCEPT !.gen = proc.gen + 1]
      BY <1>1, <1>10, StepMoves, Basics DEF SpawnBegin
    <3>2. QED
      BY <1>1, <1>10, <3>1, Basics DEF SpawnBegin, Locals, Entries
  <2>2. ~StopRuns
    <3>1. a # User => loc[a].expect # NoGen
      BY <1>10 DEF SpawnBegin, IInv, TaskLocals, Spawners, NoGen
    <3>2. a # User => proc.desired
      BY <1>10, <3>1 DEF SpawnBegin, SpawnAllowed
    <3>3. QED
      BY <1>5, <3>2, Basics
  <2>3. ~StopRuns' /\ Ceiling = proc.gen /\ Ceiling' = proc.gen + 1
    BY <1>5, <2>1, <2>2, Basics DEF Ceiling
  <2>4. UNCHANGED cleaners
    BY <1>10 DEF SpawnBegin, tasks
  <2>5. Follows(a)
    BY <1>1, <1>2, <1>6, <1>8, <2>1, <2>3, <2>4, Basics DEF Follows, HoldingChild
  <2>6. QED
    BY <2>3, <2>5, Basics DEF Advances
<1>11. QED
  BY <1>9, <1>10

(* The OS spawn: a fresh tree, of a generation nobody has announced.       *)
LEMMA SpawnExecKInv ==
  ASSUME IInv, IInv', KInv, NEW a \in Spawners, SpawnExec(a)
  PROVE  KInv'
<1>1. /\ UNCHANGED <<proc, watch, events, cleaners>> /\ a \in Actors /\ a # Loop
      /\ loc[a] \in Locals /\ pc[a] = "exec" /\ spawned' = spawned + 1
      /\ genOf' = [genOf EXCEPT ![spawned + 1] = loc[a].gen]
  BY Basics DEF SpawnExec, tasks
<1>2. /\ pc'[a] = "identify" /\ loc'[a].gen = loc[a].gen /\ loc'[a].child = spawned + 1
      /\ \A b \in Actors \ {a} : pc'[b] = pc[b] /\ loc'[b] = loc[b]
  <2>1. /\ pc'[a] = "identify" /\ loc'[a] = [loc[a] EXCEPT !.child = spawned + 1]
        /\ \A b \in Actors \ {a} : pc'[b] = pc[b] /\ loc'[b] = loc[b]
    BY <1>1, StepMoves, Basics DEF SpawnExec
  <2>2. QED
    BY <1>1, <2>1 DEF Locals
<1>3. (StopRuns' <=> StopRuns) /\ Ceiling' = Ceiling
  BY <1>1, <1>2, Basics DEF StopRuns, Ceiling
<1>4. NoNews
  <2>1. proc'.status = "Running" => Announced(proc'.gen)
    BY <1>1 DEF Announced
  <2>2. pc'[a] \notin Serves
    BY <1>2 DEF Serves
  <2>3. a = User => ~StopRuns'
    BY <1>2 DEF StopRuns
  <2>4. QED
    BY <1>1, <1>2, <2>1, <2>2, <2>3, ListsAnnounced, NewsOfStep
<1>5. \A t \in Trees : genOf[t] \in Nat => genOf'[t] = genOf[t]
  <2>1. spawned + 1 \in Trees => genOf[spawned + 1] = NoGen
    BY Basics DEF KInv, Unspawned
  <2>2. QED
    BY <1>1, <2>1 DEF IInv, TypeOK, OsType, NoGen
<1>6. Ceiling \in Nat
  BY Basics
<1>7. AnnouncedPast'
  <2>1. ASSUME NEW g, Announced(g)'
        PROVE  /\ g \in 0 .. Ceiling
               /\ \A b \in Spawners : pc[b] \in Spawning => loc[b].gen # g
    BY <1>4, <2>1 DEF KInv, AnnouncedPast, NoNews
  <2>2. ASSUME NEW b \in Spawners, pc'[b] \in Spawning
        PROVE  pc[b] \in Spawning /\ loc'[b].gen = loc[b].gen
    BY <1>1, <1>2, <2>2, Basics DEF Spawning
  <2>3. QED
    BY <1>3, <2>1, <2>2 DEF AnnouncedPast
<1>8. Settled'
  <2> SUFFICES ASSUME Announced(Ceiling)
               PROVE  /\ proc.tree \in {NoTree, proc.pid}
                      /\ proc.pid # NoTree => genOf'[proc.pid] = Ceiling
                      /\ pc'[User] = "kill" => /\ loc'[User].hold = loc'[User].owned
                                               /\ genOf'[loc'[User].hold] = Ceiling
    <3>1. Announced(Ceiling)' => Announced(Ceiling)
      BY <1>3, <1>4 DEF NoNews
    <3>2. QED
      BY <1>1, <1>3, <3>1 DEF Settled
  <2>2. proc.tree \in {NoTree, proc.pid}
        /\ (proc.pid # NoTree => genOf[proc.pid] = Ceiling)
    BY DEF KInv, Settled
  <2>3. proc.pid # NoTree => genOf'[proc.pid] = Ceiling
    BY <1>5, <1>6, <2>2, Basics DEF Entries, MaybeTree
  <2>4. ASSUME pc'[User] = "kill"
        PROVE  /\ loc'[User].hold = loc'[User].owned
               /\ genOf'[loc'[User].hold] = Ceiling
    <3>1. pc[User] = "kill" /\ loc'[User] = loc[User]
      BY <1>1, <1>2, <2>4, Basics
    <3>2. /\ loc[User].hold = loc[User].owned /\ genOf[loc[User].hold] = Ceiling
          /\ loc[User].hold # NoTree
      BY <3>1, Basics DEF KInv, Settled, KillLocals
    <3>3. QED
      BY <1>5, <1>6, <3>1, <3>2, Basics DEF Locals, MaybeTree
  <2>5. QED
    BY <2>2, <2>3, <2>4
<1>9. Attached'
  <2> SUFFICES ASSUME NEW b \in Spawners, pc'[b] \in Attaching,
                      loc'[b].gen = Ceiling', pc'[User] # "stopOk"
               PROVE  proc'.pid = loc'[b].child \/ Forsaken'
    BY DEF Attached
  <2>1. b # a /\ pc[b] = pc'[b] /\ loc'[b] = loc[b] /\ pc[User] # "stopOk"
    BY <1>1, <1>2, Basics DEF Attaching
  <2>2. proc.pid = loc[b].child \/ Forsaken
    BY <1>3, <2>1 DEF KInv, Attached
  <2>3. Forsaken => Forsaken'
    BY <1>1, <1>3 DEF Forsaken
  <2>4. QED
    BY <1>1, <2>1, <2>2, <2>3
<1>10. ChildrenDistinct'
  <2>1. ASSUME NEW b \in Spawners, pc'[b] \in HoldingChild, b # a
        PROVE  pc[b] \in HoldingChild /\ loc'[b] = loc[b] /\ loc[b].child \in 1 .. spawned
    BY <1>2, <2>1, Basics DEF IInv, SpawnLocals
  <2>2. QED
    BY <1>2, <2>1, Basics DEF KInv, ChildrenDistinct
<1>11. CleanersFit'
  <2> SUFFICES ASSUME NEW c \in cleaners, CleanerFits(c) PROVE CleanerFits(c)'
    BY <1>1 DEF KInv, CleanersFit
  <2>1. c.tree \in Trees /\ c.tree # spawned + 1 /\ c.tree \in 1 .. spawned'
    BY <1>1, Basics, BoundsAssumption DEF CleanerFits, IInv, TypeOK, OsType, Trees
  <2>2. genOf'[c.tree] = genOf[c.tree]
    BY <1>1, <2>1 DEF IInv, TypeOK, OsType
  <2>3. QED
    BY <1>3, <2>1, <2>2 DEF CleanerFits
<1>12. KillLocals'
  <2> SUFFICES ASSUME NEW b \in Actors, pc'[b] = "kill"
               PROVE  /\ loc'[b].hold # NoTree
                      /\ b # User => /\ genOf'[loc'[b].hold] = loc'[b].gen
                                     /\ loc'[b].owned = loc'[b].hold
    BY DEF KillLocals
  <2>1. pc[b] = "kill" /\ loc'[b] = loc[b] /\ loc[b].hold \in Trees
    BY <1>1, <1>2, Basics DEF KInv, KillLocals, Locals, MaybeTree
  <2>2. b # User => loc[b].gen \in Nat
    <3>1. b # User => Announced(loc[b].gen)
      BY <2>1 DEF Announced, Serves, Actors
    <3>2. QED
      BY <1>6, <3>1 DEF KInv, AnnouncedPast
  <2>3. QED
    BY <1>5, <2>1, <2>2 DEF KInv, KillLocals
<1>13. Unspawned'
  <2> SUFFICES ASSUME NEW t \in Trees, t > spawned' PROVE genOf'[t] = NoGen
    BY DEF Unspawned
  <2>1. t \in Nat /\ spawned \in Nat
    BY Basics DEF Trees
  <2>2. t > spawned /\ t # spawned + 1
    BY <1>1, <2>1
  <2>3. genOf'[t] = genOf[t]
    BY <1>1, <2>2 DEF IInv, TypeOK, OsType
  <2>4. QED
    BY <2>2, <2>3 DEF KInv, Unspawned
<1>14. QED
  BY <1>7, <1>8, <1>9, <1>10, <1>11, <1>12, <1>13 DEF KInv

(* The entry takes the PID of a spawn whose generation nobody has          *)
(* announced.                                                              *)
LEMMA SpawnPidKInv ==
  ASSUME IInv, IInv', KInv, NEW a \in Spawners, SpawnPid(a), Current(proc, loc[a].gen)
  PROVE  KInv'
<1>1. /\ UNCHANGED <<spawned, genOf, watch, events, cleaners>> /\ a \in Actors /\ a # Loop
      /\ loc[a] \in Locals /\ pc[a] = "pid"
      /\ proc' = [proc EXCEPT !.pid = loc[a].child, !.identity = TRUE]
  BY Basics DEF SpawnPid, os, tasks
<1>2. /\ pc'[a] = "attach" /\ loc'[a] = loc[a]
      /\ \A b \in Actors \ {a} : pc'[b] = pc[b] /\ loc'[b] = loc[b]
  BY <1>1, GotoMoves, Basics DEF SpawnPid
<1>3. /\ proc'.gen = proc.gen /\ proc'.status = proc.status /\ proc'.pid = loc[a].child
      /\ proc'.tree = proc.tree
  BY <1>1, Basics DEF Entries
<1>4. (StopRuns' <=> StopRuns) /\ Ceiling' = Ceiling
  BY <1>1, <1>2, <1>3, Basics DEF StopRuns, Ceiling
<1>5. loc[a].gen = Ceiling /\ ~StopRuns
  BY Basics DEF Current
<1>6. NoNews
  <2>1. proc'.status = "Running" => Announced(proc'.gen)
    BY <1>3 DEF Announced
  <2>2. pc'[a] \notin Serves /\ (a = User => ~StopRuns')
    BY <1>2 DEF Serves, StopRuns
  <2>3. QED
    BY <1>1, <1>2, <2>1, <2>2, ListsAnnounced, NewsOfStep
<1>7. Follows(a)
  BY <1>1, <1>2, <1>4, <1>6, Basics DEF Follows, Spawning, HoldingChild
<1>8. Settled'
  <2>1. ~Announced(Ceiling)
    BY <1>1, <1>5 DEF KInv, AnnouncedPast, Spawning
  <2>2. QED
    BY <1>4, <1>6, <2>1 DEF Settled, NoNews
<1>9. Attached'
  <2>1. ASSUME NEW b \in Spawners, pc'[b] \in Attaching, loc'[b].gen = Ceiling'
        PROVE  b = a
    <3>1. CASE b # a
      <4>1. pc[b] \in HoldingChild /\ loc[b].gen = Ceiling
        BY <1>2, <1>4, <2>1, <3>1, Basics DEF Attaching, HoldingChild, Spawning
      <4>2. /\ loc[a].child \in 1 .. spawned /\ genOf[loc[a].child] = Ceiling
            /\ loc[b].child \in 1 .. spawned /\ genOf[loc[b].child] = Ceiling
        BY <1>1, <1>5, <4>1 DEF IInv, SpawnLocals, HoldingChild, Spawning
      <4>3. loc[a].child = loc[b].child
        BY <4>2 DEF IInv, SpawnsDistinct
      <4>4. QED
        BY <1>1, <3>1, <4>1, <4>3 DEF KInv, ChildrenDistinct, HoldingChild, Spawning
    <3>2. QED
      BY <3>1
  <2>2. QED
    BY <1>2, <1>3, <2>1 DEF Attached
<1>10. QED
  BY <1>1, <1>7, <1>8, <1>9, FollowsKeeps DEF KInv

(* A commit announces its generation: the entry describes that spawn, and  *)
(* no other spawn has the generation.                                      *)
LEMMA SpawnCommitKInv ==
  ASSUME IInv, IInv', KInv, NEW a \in Spawners, SpawnCommit(a)
  PROVE  KInv'
<1>1. /\ UNCHANGED <<spawned, genOf, events, cleaners>> /\ a \in Actors /\ a # Loop
      /\ loc[a] \in Locals /\ pc[a] = "commit"
      /\ proc' = [proc EXCEPT !.status = "Running", !.tree = loc[a].child]
      /\ \A w \in watch' : w \in watch \/ w.gen = loc[a].gen
  BY Basics DEF SpawnCommit, os
<1>2. /\ pc'[a] \in {"idle", "bump"}
      /\ \A b \in Actors \ {a} : pc'[b] = pc[b] /\ loc'[b] = loc[b]
  BY <1>1, StepMoves, Basics DEF SpawnCommit, SpawnOk
<1>3. /\ proc'.gen = proc.gen /\ proc'.pid = proc.pid /\ proc'.tree = loc[a].child
      /\ proc'.desired = proc.desired
  BY <1>1, Basics DEF Entries
<1>4. /\ (StopRuns' <=> StopRuns) /\ ~StopRuns /\ Ceiling' = Ceiling
      /\ proc.gen = Ceiling /\ loc[a].gen = Ceiling /\ proc.desired /\ Ceiling \in Nat
  <2>1. proc.desired /\ loc[a].gen = proc.gen
    BY DEF SpawnCommit, Current
  <2>2. StopRuns' <=> StopRuns
    BY <1>1, <1>2, Basics DEF StopRuns
  <2>3. QED
    BY <1>2, <1>3, <2>1, <2>2, Basics DEF Ceiling
<1>5. proc.pid = loc[a].child /\ genOf[loc[a].child] = Ceiling
      /\ loc[a].child \in 1 .. spawned
  BY <1>1, <1>4 DEF KInv, Attached, Attaching, Forsaken, IInv, SpawnLocals,
     HoldingChild, Spawning, StopRuns
<1>6. ASSUME NEW g, Announced(g)' PROVE Announced(g) \/ g = Ceiling
  <2>1. CASE \E e \in events' : e.gen = g
    BY <1>1, <2>1 DEF Announced
  <2>2. CASE \E w \in watch' : w.gen = g
    BY <1>1, <1>4, <2>2 DEF Announced
  <2>3. CASE pc'[Loop] # "idle" /\ loc'[Loop].gen = g
    BY <1>1, <1>2, <2>3, Basics DEF Announced
  <2>4. CASE \E b \in Tasks : pc'[b] \in Serves /\ loc'[b].gen = g
    BY <1>2, <2>4, Basics DEF Announced, Serves
  <2>5. CASE proc'.status = "Running" /\ proc'.gen = g
    BY <1>3, <1>4, <2>5
  <2>6. QED
    BY <1>4, <1>6, <2>1, <2>2, <2>3, <2>4, <2>5 DEF Announced
<1>7. ASSUME NEW b \in Spawners, pc'[b] \in Spawning
      PROVE  pc[b] \in Spawning /\ loc'[b] = loc[b] /\ b # a
  BY <1>2, <1>7, Basics DEF Spawning
<1>8. ASSUME NEW b \in Spawners, pc[b] \in Spawning, b # a PROVE loc[b].gen # Ceiling
  <2>1. CASE pc[b] = "exec"
    BY <1>5, <1>8, <2>1 DEF IInv, GenerationsOrdered, InFlight
  <2>2. CASE pc[b] # "exec"
    <3>1. pc[b] \in HoldingChild /\ pc[a] \in HoldingChild
      BY <1>1, <1>8, <2>2 DEF HoldingChild, Spawning
    <3>2. loc[b].child \in 1 .. spawned /\ genOf[loc[b].child] = loc[b].gen
      BY <3>1 DEF IInv, SpawnLocals
    <3>3. loc[b].child # loc[a].child
      BY <1>8, <3>1 DEF KInv, ChildrenDistinct
    <3>4. QED
      BY <1>5, <3>2, <3>3 DEF IInv, SpawnsDistinct
  <2>3. QED
    BY <2>1, <2>2
<1>9. AnnouncedPast'
  <2> SUFFICES ASSUME NEW g, Announced(g)'
               PROVE  /\ g \in 0 .. Ceiling'
                      /\ \A b \in Spawners : pc'[b] \in Spawning => loc'[b].gen # g
    BY DEF AnnouncedPast
  <2>1. CASE g = Ceiling
    BY <1>4, <1>7, <1>8, <2>1
  <2>2. CASE Announced(g)
    BY <1>4, <1>7, <2>2 DEF KInv, AnnouncedPast
  <2>3. QED
    BY <1>6, <2>1, <2>2
<1>10. Settled'
  <2>1. pc'[User] # "kill"
    BY <1>4 DEF StopRuns
  <2>2. QED
    BY <1>1, <1>3, <1>4, <1>5, <2>1 DEF Settled
<1>11. Attached'
  <2>1. ASSUME NEW b \in Spawners, pc'[b] \in Attaching PROVE loc'[b].gen # Ceiling'
    BY <1>4, <1>7, <1>8, <2>1 DEF Attaching, Spawning
  <2>2. QED
    BY <2>1 DEF Attached
<1>12. ChildrenDistinct'
  <2>1. ASSUME NEW b \in Spawners, pc'[b] \in HoldingChild
        PROVE  pc[b] \in HoldingChild /\ loc'[b].child = loc[b].child
    BY <1>2, <2>1, Basics DEF HoldingChild, Spawning
  <2>2. QED
    BY <2>1 DEF KInv, ChildrenDistinct
<1>13. CleanersFit' /\ Unspawned'
  BY <1>1, <1>4 DEF KInv, CleanersFit, CleanerFits, Unspawned
<1>14. KillLocals'
  BY <1>1, <1>2 DEF KInv, KillLocals
<1>15. QED
  BY <1>9, <1>10, <1>11, <1>12, <1>13, <1>14 DEF KInv

-----------------------------------------------------------------------------
(* The theorem.                                                            *)

(* The inductive invariant holds initially ...                             *)
LEMMA InitKInv == Init => KInv
<1> SUFFICES ASSUME Init PROVE KInv
  OBVIOUS
<1>1. \A a \in Actors : pc[a] = "idle"
  BY DEF Init
<1>2. \A g : ~Announced(g)
  BY <1>1 DEF Announced, Init, NewEntry, Serves, StopRuns, Actors
<1>3. AnnouncedPast /\ Settled
  BY <1>2 DEF AnnouncedPast, Settled
<1>4. Attached /\ ChildrenDistinct /\ KillLocals
  BY <1>1 DEF Attached, Attaching, ChildrenDistinct, HoldingChild, Spawning,
     KillLocals, Spawners, Actors
<1>5. CleanersFit /\ Unspawned
  BY DEF Init, CleanersFit, Unspawned
<1>6. QED
  BY <1>3, <1>4, <1>5 DEF KInv

(* ... and every step keeps it.                                            *)
LEMMA NextKInv == IInv /\ IInv' /\ KInv /\ [Next]_vars => KInv'
<1> SUFFICES ASSUME IInv, IInv', KInv, [Next]_vars PROVE KInv'
  OBVIOUS
<1>1. CASE Requests
  BY <1>1, RequestsKeep, KeepsKInv, Basics
<1>2. CASE UserStep
  BY <1>2, UserStepKind, KeepsKInv, AdvancesKInv, Basics
<1>3. CASE LoopNext
  BY <1>3, LoopKInv
<1>4. ASSUME NEW a \in Spawners, Spawn(a) PROVE KInv'
  <2>1. CASE SpawnExec(a)
    BY <2>1, SpawnExecKInv
  <2>2. CASE SpawnCommit(a)
    BY <2>2, SpawnCommitKInv
  <2>3. CASE SpawnPid(a) /\ Current(proc, loc[a].gen)
    BY <2>3, SpawnPidKInv
  <2>4. CASE /\ ~SpawnExec(a) /\ ~SpawnCommit(a)
             /\ ~(SpawnPid(a) /\ Current(proc, loc[a].gen))
    BY <1>4, <2>4, SpawnKind, KeepsKInv, AdvancesKInv, Basics DEF Spawn
  <2>5. QED
    BY <2>1, <2>2, <2>3, <2>4
<1>5. ASSUME NEW a \in Tasks, TaskNext(a) PROVE KInv'
  BY <1>5, TaskKInv
<1>6. ASSUME NEW a \in Actors, Terminate(a) PROVE KInv'
  BY <1>6, TerminateKInv
<1>7. ASSUME NEW c \in cleaners, CleanerDone(c) PROVE KInv'
  BY <1>7, CleanerDoneKInv
<1>8. CASE \/ \E c \in cleaners : CleanerIdentify(c)
           \/ \E w \in watch : WatchExit(w)
           \/ Environment \/ UNCHANGED vars
  BY <1>8, OthersKeep, KeepsKInv, Basics
<1>9. QED
  BY <1>1, <1>2, <1>3, <1>4, <1>5, <1>6, <1>7, <1>8 DEF Next

(* The invariant of every execution.                                       *)
THEOREM KillInvariantHolds == Spec => [](IInv /\ KInv)
<1>1. Init => IInv /\ KInv
  BY InitIInv, InitKInv
<1>2. (IInv /\ KInv) /\ [Next]_vars => (IInv /\ KInv)'
  BY NextIInv, NextKInv
<1>3. QED
  BY <1>1, <1>2, PTL DEF Spec

(* A stale exit or restart event never terminates a newer spawn.           *)
THEOREM EventsKillTheirSpawn == Spec => []KillsOwnSpawn
<1>1. IInv /\ KInv => KillsOwnSpawn
  BY DEF KInv, KillLocals, KillsOwnSpawn
<1>2. QED
  BY <1>1, KillInvariantHolds, PTL
=============================================================================
