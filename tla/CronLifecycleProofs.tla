-------------------------- MODULE CronLifecycleProofs --------------------------
(***************************************************************************)
(* Proofs about CronLifecycle, for any number of run tasks, requests,      *)
(* ticks, trees and faults.                                                *)
(*                                                                         *)
(* Every actor but the request is bound to the generation it was started   *)
(* with, and a failed stop winds the generation back.  The invariant is    *)
(* therefore about the generation and the status a failed stop would       *)
(* return to: no actor is bound to a later one, at most one to that one,   *)
(* and the one that is owns the only tree outside the runs.                *)
(***************************************************************************)
EXTENDS CronLifecycle, TLAPS

ProcRecords == [status : Statuses, desired : BOOLEAN, gen : Nat, enabled : BOOLEAN,
                tree : MaybeTree]
UserPcs == {"idle", "stop", "kill", "unschedule", "stopped", "undo", "remove",
            "begin", "exec", "schedule", "commit", "disable", "cancel",
            "cancelled", "enable", "sleep", "insert"}
UserNames == UserOps \cup {"none", "restore"}
UserRecords == [pc : UserPcs, op : UserNames, gen : Nat, child : MaybeTree,
                prev : Statuses, prevGen : Nat, wasEnabled : BOOLEAN]

(* The conjuncts of TypeOK.                                                *)
ProcType == proc \in ProcRecords
FlagTypes == {present, sched, dropped} \subseteq BOOLEAN
RunType == runs \in [Slots -> [pc : {"idle", "claim", "prepare", "spawn", "commit",
                                     "drop", "look", "ensure"},
                               gen : Nat, child : MaybeTree]]
WatchType == watch \subseteq [tree : Trees, gen : Nat, via : {"run", "loop"},
                              stage : {"live", "exited", "gone", "drop"}]
UserType == user \in UserRecords
CountTypes == /\ ticks \in 0 .. MaxTicks /\ alive \subseteq Trees
              /\ spawned \in 0 .. MaxTrees /\ stopGen \in Nat \cup {-1}
              /\ budget \in [ops : Nat, faults : Nat, claims : Nat]

(* The generation and status the entry has, or returns to if a stop fails. *)
Base  == IF user.pc = "kill" THEN user.prevGen ELSE proc.gen
Shown == IF user.pc = "kill" THEN user.prev ELSE proc.status

Opening == {"prepare", "spawn", "commit"}

(* Local variables of a run and of a request that no longer, or not yet,   *)
(* mean anything.                                                          *)
LocalsBound ==
  /\ \A r \in Slots : runs[r].pc = "commit" <=> runs[r].child # NoTree
  /\ user.pc \in {"schedule", "commit"} => user.child # NoTree
  /\ user.pc = "idle" => user.op = "none"
  /\ user.pc \in {"disable", "cancel", "cancelled", "undo"} => user.op = "disable"

(* A run that has not committed is alone with its generation.              *)
RunsBound ==
  \A r \in Slots : runs[r].pc \in Opening =>
    /\ runs[r].gen <= Base
    /\ runs[r].gen = Base => Shown = "Starting" /\ proc.tree = NoTree
    /\ \A w \in watch : w.gen # runs[r].gen
    /\ \A s \in Slots \ {r} : runs[s].pc \in Opening => runs[s].gen # runs[r].gen

(* So is the exit handler of a tree.                                       *)
WatchesBound ==
  /\ \A w \in watch : w.gen <= Base
  /\ \A w \in watch : (w.gen = Base /\ w.stage # "drop") =>
       /\ Shown = "Running"
       /\ proc.tree = IF w.stage = "gone" THEN NoTree ELSE w.tree
  /\ \A v, w \in watch : v.gen = w.gen => v = w

(* A request that spawns is ahead of everybody else.                       *)
SpawnBound ==
  user.pc \in {"exec", "schedule", "commit"} =>
    /\ user.gen = proc.gen /\ proc.desired /\ proc.status = "Starting"
    /\ proc.tree = IF user.pc = "exec" THEN NoTree ELSE user.child
    /\ \A r \in Slots : runs[r].pc \in Opening => runs[r].gen < proc.gen
    /\ \A w \in watch : w.gen < proc.gen

(* A stop, a disable and an enable on their way.                           *)
StopBound ==
  /\ user.pc = "kill" =>
       /\ proc.gen = user.prevGen + 1 /\ ~proc.desired
       /\ proc.status = "Stopping" /\ user.prev # "Stopped"
  /\ user.pc \in {"unschedule", "stopped"} =>
       proc.status = "Stopping" /\ ~proc.desired /\ proc.tree = NoTree
  /\ user.pc \in {"cancelled", "sleep"} => proc.status = "Stopped"
  /\ user.pc = "sleep" => proc.enabled
  /\ user.pc = "remove" => proc.status \in {"Stopped", "Errored"} /\ ~proc.desired

(* What a status says about the entry.                                     *)
StatusMeans ==
  /\ Shown = "Sleeping" => proc.tree = NoTree
  /\ proc.status = "Stopped" => ~proc.desired /\ proc.tree = NoTree
  /\ (proc.status = "Errored" /\ proc.desired) => proc.tree # NoTree

(* Every live tree outside the runs is the entry's.                        *)
TreesOwned == alive \ Tentative \subseteq {proc.tree}

(* What a stop was acknowledged for is over.                               *)
StopsCount ==
  /\ stopGen <= Base
  /\ (proc.desired \/ proc.tree # NoTree) => stopGen < Base

Disabling == \/ user.pc \in {"cancel", "cancelled"}
             \/ /\ user.op = "disable"
                /\ user.pc \in {"stop", "kill", "unschedule", "stopped", "undo"}

(* A disabled entry is stopped once the request is over.                   *)
EnabledInv ==
  /\ (~Disabling /\ ~proc.enabled) => proc.status = "Stopped"
  /\ (Disabling /\ user.pc # "cancelled") => user.wasEnabled

(* The scheduler between the steps of a request.                           *)
ScheduleInv ==
  /\ ~present => user.pc = "idle" /\ ~sched /\ ~proc.desired
  /\ sched => \/ user.pc \in {"kill", "unschedule", "cancel", "cancelled"}
              \/ proc.desired \/ proc.status = "Errored"
  /\ user.pc = "stopped" => ~sched
  /\ user.pc \in {"undo", "insert"} => proc.desired \/ proc.status = "Errored"
  /\ ((user.op = "disable" /\ user.pc \in {"stop", "undo"}) \/ user.pc = "cancel")
       => proc.status # "Stopped"
  /\ Shown \in {"Sleeping", "Running", "Starting"} =>
       \/ sched \/ dropped
       \/ user.pc \in {"insert", "exec", "schedule"}
       \/ Disabling

IInv == /\ LocalsBound /\ RunsBound /\ WatchesBound /\ SpawnBound /\ StopBound
        /\ StatusMeans /\ TreesOwned /\ StopsCount /\ EnabledInv /\ ScheduleInv
-----------------------------------------------------------------------------
(* Types.                                                                  *)

LEMMA TypeSplit == TypeOK <=> /\ ProcType /\ FlagTypes /\ RunType
                             /\ WatchType /\ UserType /\ CountTypes
  BY DEF TypeOK, ProcType, FlagTypes, RunType, WatchType, UserType, CountTypes,
         ProcRecords, UserRecords, UserPcs, UserNames

LEMMA ProcFields ==
  ASSUME ProcType
  PROVE  /\ proc.status \in Statuses /\ proc.desired \in BOOLEAN /\ proc.gen \in Nat
         /\ proc.enabled \in BOOLEAN /\ proc.tree \in MaybeTree
  BY DEF ProcType, ProcRecords

LEMMA StatusNames ==
  /\ "Stopped" \in Statuses /\ "Starting" \in Statuses /\ "Running" \in Statuses
  /\ "Stopping" \in Statuses /\ "Sleeping" \in Statuses /\ "Errored" \in Statuses
  BY DEF Statuses

LEMMA MaybeTrees == NoTree \in MaybeTree /\ \A t \in Trees : t \in MaybeTree
  BY DEF MaybeTree

LEMMA UserFields ==
  ASSUME UserType
  PROVE  /\ user.pc \in UserPcs /\ user.op \in UserNames /\ user.gen \in Nat
         /\ user.child \in MaybeTree /\ user.prev \in Statuses
         /\ user.prevGen \in Nat /\ user.wasEnabled \in BOOLEAN
  BY DEF UserType, UserRecords

LEMMA UserIdles ==
  /\ IdleUser \in UserRecords
  /\ \A p \in UserPcs, o \in UserNames : [IdleUser EXCEPT !.pc = p, !.op = o] \in UserRecords
<1>1. /\ "idle" \in UserPcs /\ "none" \in UserNames /\ NoTree \in MaybeTree
      /\ "Stopped" \in Statuses
  BY DEF UserPcs, UserNames, MaybeTree, Statuses
<1> QED BY <1>1 DEF IdleUser, UserRecords

LEMMA UserMoves ==
  ASSUME UserType
  PROVE  /\ Done => UserType'
         /\ \A p \in UserPcs : UserStep(p) => UserType'
<1>1. Done => UserType'
  BY UserIdles DEF Done, UserType
<1>2. ASSUME NEW p \in UserPcs, UserStep(p)
      PROVE  UserType'
  BY <1>2 DEF UserStep, UserType, UserRecords
<1> QED BY <1>1, <1>2

LEMMA NextGen ==
  ASSUME ProcType
  PROVE  \E n \in Nat : n = proc.gen + 1
  BY ProcFields

LEMMA ErroredType ==
  ASSUME ProcType
  PROVE  Errored \in ProcRecords
<1>1. PICK n \in Nat : n = proc.gen + 1
  BY NextGen
<1>2. Errored = [proc EXCEPT !.status = "Errored", !.desired = FALSE, !.gen = n,
                             !.tree = NoTree]
  BY <1>1 DEF Errored
<1> QED BY <1>2, StatusNames, MaybeTrees DEF ProcType, ProcRecords

LEMMA NextTree ==
  ASSUME CountTypes, spawned < MaxTrees
  PROVE  \E t \in Trees : t = spawned + 1
<1>1. MaxTrees \in Nat
  BY CronAssumption
<1>2. spawned + 1 \in 1 .. MaxTrees
  BY <1>1 DEF CountTypes
<1> QED BY <1>2 DEF Trees

-----------------------------------------------------------------------------
(* The scheduler and the trigger loop.                                     *)
LEMMA TickTypes ==
  ASSUME TypeOK, LocalsBound, Tick
  PROVE  TypeOK'
<1> USE TypeSplit
<1>1. CountTypes'
  BY CronAssumption DEF Tick, hist, CountTypes, LocalsBound, MaybeTree, Trees, NoTree,
     ProcType, ProcRecords
<1>2. ProcType' /\ FlagTypes' /\ RunType' /\ WatchType' /\ UserType'
  BY DEF Tick, hist, ProcType, FlagTypes, RunType, WatchType, UserType
<1> QED BY <1>1, <1>2, PTL

LEMMA TickKeeps ==
  ASSUME TypeOK, IInv, Tick
  PROVE  TypeOK' /\ IInv'
<1> USE DEF IInv
<1>1. TypeOK'
  BY TickTypes
<1>2. /\ LocalsBound' /\ RunsBound' /\ WatchesBound' /\ SpawnBound' /\ StopBound'
      /\ StatusMeans' /\ TreesOwned' /\ StopsCount' /\ EnabledInv'
      /\ ScheduleInv'
  BY DEF Tick, LocalsBound, NoTree, RunsBound, Opening, Base, Shown, WatchesBound,
     SpawnBound, StopBound, StatusMeans, TreesOwned, Tentative, StopsCount,
     EnabledInv, Disabling, ScheduleInv, hist
<1> QED BY <1>1, <1>2

LEMMA TriggerTypes ==
  ASSUME TypeOK, LocalsBound, NEW r \in Slots, Trigger(r)
  PROVE  TypeOK'
<1> USE TypeSplit
<1>1. RunType'
  BY CronAssumption DEF Trigger, hist, RunType, LocalsBound, MaybeTree, Trees, NoTree,
     CountTypes, ProcType, ProcRecords
<1>2. CountTypes'
  BY CronAssumption DEF Trigger, hist, CountTypes, LocalsBound, MaybeTree, Trees,
     NoTree, ProcType, ProcRecords
<1>3. ProcType' /\ FlagTypes' /\ WatchType' /\ UserType'
  BY DEF Trigger, hist, ProcType, FlagTypes, WatchType, UserType
<1> QED BY <1>1, <1>2, <1>3, PTL

LEMMA TriggerKeeps ==
  ASSUME TypeOK, IInv, NEW r \in Slots, Trigger(r)
  PROVE  TypeOK' /\ IInv'
<1> USE DEF IInv
<1>1. TypeOK'
  BY TriggerTypes
<1>2. LocalsBound'
  BY <1>1 DEF TypeOK, Statuses, MaybeTree, Trees, Trigger, hist, LocalsBound, NoTree
<1>3. RunsBound'
  BY <1>1 DEF TypeOK, Statuses, MaybeTree, Trees, Trigger, hist, RunsBound, Opening,
     Base, Shown, NoTree
<1>4. SpawnBound'
  BY <1>1 DEF TypeOK, Statuses, MaybeTree, Trees, Trigger, hist, SpawnBound, NoTree,
     Opening
<1>5. TreesOwned'
  BY <1>1 DEF TypeOK, Statuses, MaybeTree, Trees, Trigger, hist, TreesOwned, Tentative
<1>6. /\ WatchesBound' /\ StopBound' /\ StatusMeans' /\ StopsCount'
      /\ EnabledInv' /\ ScheduleInv'
  BY DEF Trigger, WatchesBound, Base, Shown, NoTree, StopBound, StatusMeans,
     StopsCount, EnabledInv, Disabling, ScheduleInv, hist
<1> QED BY <1>1, <1>2, <1>3, <1>4, <1>5, <1>6

LEMMA RunClaimTypes ==
  ASSUME TypeOK, LocalsBound, NEW r \in Slots, RunClaim(r)
  PROVE  TypeOK'
<1> USE TypeSplit
<1>1. ProcType'
  <2>1. PICK n \in Nat : n = proc.gen + 1
    BY NextGen
  <2>2. \/ proc' = proc
        \/ proc' = [proc EXCEPT !.gen = n, !.status = "Starting"]
    BY <2>1 DEF RunClaim
  <2> QED BY <2>2, StatusNames DEF ProcType, ProcRecords
<1>2. RunType'
  BY CronAssumption DEF RunClaim, Idle, hist, RunType, LocalsBound, MaybeTree, Trees,
     NoTree, CountTypes, ProcType, ProcRecords
<1>3. CountTypes'
  BY CronAssumption DEF RunClaim, Idle, hist, CountTypes, LocalsBound, MaybeTree,
     Trees, NoTree, ProcType, ProcRecords
<1>4. FlagTypes' /\ WatchType' /\ UserType'
  BY DEF RunClaim, hist, FlagTypes, WatchType, UserType
<1> QED BY <1>1, <1>2, <1>3, <1>4, PTL

LEMMA RunClaimKeeps ==
  ASSUME TypeOK, IInv, NEW r \in Slots, RunClaim(r)
  PROVE  TypeOK' /\ IInv'
<1> USE DEF IInv
<1>1. TypeOK'
  BY RunClaimTypes
<1>2. CASE proc.enabled /\ proc.desired /\ proc.status = "Sleeping"
  <2>1. /\ proc' = [proc EXCEPT !.gen = @ + 1, !.status = "Starting"]
        /\ runs' = [runs EXCEPT ![r].pc = "prepare", ![r].gen = proc.gen + 1]
        /\ runs[r].pc = "claim"
        /\ UNCHANGED <<present, sched, ticks, watch, alive, user, spawned, hist>>
    BY <1>2 DEF RunClaim
  <2>2. LocalsBound'
    BY <1>1, <1>2, <2>1 DEF TypeOK, Statuses, MaybeTree, Trees, LocalsBound, NoTree,
       hist
  <2>3. RunsBound'
    BY <1>1, <1>2, <2>1 DEF TypeOK, Statuses, MaybeTree, Trees, RunsBound, Opening,
       Base, Shown, NoTree, LocalsBound, WatchesBound, SpawnBound, StopBound,
       StatusMeans, TreesOwned, Tentative, StopsCount, EnabledInv, Disabling,
       ScheduleInv, hist
  <2>4. WatchesBound'
    BY <1>1, <1>2, <2>1 DEF TypeOK, Statuses, MaybeTree, Trees, WatchesBound, Base,
       Shown, NoTree, hist
  <2>5. SpawnBound'
    BY <1>1, <1>2, <2>1 DEF TypeOK, Statuses, MaybeTree, Trees, SpawnBound, NoTree,
       Opening, hist
  <2>6. StopBound'
    BY <1>1, <1>2, <2>1 DEF TypeOK, Statuses, MaybeTree, Trees, StopBound, NoTree,
       hist
  <2>7. StatusMeans'
    BY <1>1, <1>2, <2>1 DEF TypeOK, Statuses, MaybeTree, Trees, StatusMeans, Shown,
       NoTree, hist
  <2>8. TreesOwned'
    BY <1>1, <1>2, <2>1 DEF TypeOK, Statuses, MaybeTree, Trees, TreesOwned, Tentative,
       StatusMeans, Shown, NoTree, StopBound, hist
  <2>9. StopsCount'
    BY <1>1, <1>2, <2>1 DEF TypeOK, Statuses, MaybeTree, Trees, StopsCount, Base,
       NoTree, hist
  <2>10. EnabledInv'
    BY <1>1, <1>2, <2>1 DEF TypeOK, Statuses, MaybeTree, Trees, EnabledInv, Disabling,
       hist
  <2>11. ScheduleInv'
    BY <1>1, <1>2, <2>1 DEF TypeOK, Statuses, MaybeTree, Trees, ScheduleInv, Shown,
       Disabling, hist
  <2> QED BY <1>1, <2>2, <2>3, <2>4, <2>5, <2>6, <2>7, <2>8, <2>9, <2>10, <2>11
<1>3. CASE ~(proc.enabled /\ proc.desired /\ proc.status = "Sleeping")
  <2>1. LocalsBound'
    BY <1>1, <1>3 DEF TypeOK, Statuses, MaybeTree, Trees, RunClaim, Idle, hist,
       NoTree, LocalsBound
  <2>2. RunsBound'
    BY <1>1, <1>3 DEF TypeOK, Statuses, MaybeTree, Trees, RunClaim, Idle, hist,
       NoTree, RunsBound, Opening, Base, Shown, WatchesBound
  <2>3. WatchesBound'
    BY <1>1, <1>3 DEF TypeOK, Statuses, MaybeTree, Trees, RunClaim, Idle, hist,
       NoTree, WatchesBound, Base, Shown
  <2>4. SpawnBound'
    BY <1>1, <1>3 DEF TypeOK, Statuses, MaybeTree, Trees, RunClaim, Idle, hist,
       NoTree, SpawnBound, Opening
  <2>5. StopBound'
    BY <1>1, <1>3 DEF TypeOK, Statuses, MaybeTree, Trees, RunClaim, Idle, hist,
       NoTree, StopBound
  <2>6. StatusMeans'
    BY <1>1, <1>3 DEF TypeOK, Statuses, MaybeTree, Trees, RunClaim, Idle, hist,
       NoTree, StatusMeans, Shown
  <2>7. TreesOwned'
    BY <1>1, <1>3 DEF TypeOK, Statuses, MaybeTree, Trees, RunClaim, Idle, hist,
       NoTree, TreesOwned, Tentative, LocalsBound, RunsBound, Opening, Base, Shown
  <2>8. StopsCount'
    BY <1>1, <1>3 DEF TypeOK, Statuses, MaybeTree, Trees, RunClaim, Idle, hist,
       NoTree, StopsCount, Base
  <2>9. EnabledInv'
    BY <1>1, <1>3 DEF TypeOK, Statuses, MaybeTree, Trees, RunClaim, Idle, hist,
       NoTree, EnabledInv, Disabling
  <2>10. ScheduleInv'
    BY <1>1, <1>3 DEF TypeOK, Statuses, MaybeTree, Trees, RunClaim, Idle, hist,
       NoTree, ScheduleInv, Shown, Disabling
  <2> QED BY <1>1, <2>1, <2>2, <2>3, <2>4, <2>5, <2>6, <2>7, <2>8, <2>9, <2>10
<1> QED BY <1>1, <1>2, <1>3

LEMMA RunPrepareTypes ==
  ASSUME TypeOK, LocalsBound, NEW r \in Slots, RunPrepare(r)
  PROVE  TypeOK'
<1> USE TypeSplit
<1>1. RunType'
  BY CronAssumption DEF RunPrepare, Idle, hist, RunType, LocalsBound, MaybeTree,
     Trees, NoTree, CountTypes, ProcType, ProcRecords
<1>2. ProcType' /\ FlagTypes' /\ WatchType' /\ UserType' /\ CountTypes'
  BY DEF RunPrepare, hist, ProcType, FlagTypes, WatchType, UserType, CountTypes
<1> QED BY <1>1, <1>2, PTL

LEMMA RunPrepareKeeps ==
  ASSUME TypeOK, IInv, NEW r \in Slots, RunPrepare(r)
  PROVE  TypeOK' /\ IInv'
<1> USE DEF IInv
<1>1. TypeOK'
  BY RunPrepareTypes
<1>2. LocalsBound'
  BY <1>1 DEF TypeOK, Statuses, MaybeTree, Trees, RunPrepare, Current, Idle, hist,
     NoTree, LocalsBound
<1>3. RunsBound'
  BY <1>1 DEF TypeOK, Statuses, MaybeTree, Trees, RunPrepare, Current, Idle, hist,
     NoTree, RunsBound, Opening, Base, Shown
<1>4. SpawnBound'
  BY <1>1 DEF TypeOK, Statuses, MaybeTree, Trees, RunPrepare, Current, Idle, hist,
     NoTree, SpawnBound, Opening
<1>5. TreesOwned'
  BY <1>1 DEF TypeOK, Statuses, MaybeTree, Trees, RunPrepare, Current, Idle, hist,
     NoTree, TreesOwned, Tentative, LocalsBound, RunsBound, Opening, Base, Shown
<1>6. /\ WatchesBound' /\ StopBound' /\ StatusMeans' /\ StopsCount'
      /\ EnabledInv' /\ ScheduleInv'
  BY DEF RunPrepare, WatchesBound, Base, Shown, NoTree, StopBound, StatusMeans,
     StopsCount, EnabledInv, Disabling, ScheduleInv, hist
<1> QED BY <1>1, <1>2, <1>3, <1>4, <1>5, <1>6

LEMMA RunFailTypes ==
  ASSUME TypeOK, LocalsBound, NEW r \in Slots, RunFail(r)
  PROVE  TypeOK'
<1> USE TypeSplit
<1>1. ProcType'
  BY ErroredType DEF RunFail, ProcType
<1>2. RunType'
  BY CronAssumption DEF RunFail, Fault, Errored, RunStep, Idle, hist, RunType,
     LocalsBound, MaybeTree, Trees, NoTree, CountTypes, ProcType, ProcRecords
<1>3. CountTypes'
  BY CronAssumption DEF RunFail, Fault, Errored, RunStep, Idle, hist, CountTypes,
     LocalsBound, MaybeTree, Trees, NoTree, ProcType, ProcRecords
<1>4. FlagTypes' /\ WatchType' /\ UserType'
  BY DEF RunFail, hist, FlagTypes, WatchType, UserType
<1> QED BY <1>1, <1>2, <1>3, <1>4, PTL

LEMMA RunFailKeeps ==
  ASSUME TypeOK, IInv, NEW r \in Slots, RunFail(r)
  PROVE  TypeOK' /\ IInv'
<1> USE DEF IInv
<1>1. TypeOK'
  BY RunFailTypes
<1>2. CASE Current(runs[r].gen)
  <2>1. /\ proc' = Errored
        /\ runs' = [runs EXCEPT ![r].pc = "drop"]
        /\ runs[r].pc \in {"prepare", "spawn"}
        /\ UNCHANGED <<present, sched, ticks, watch, alive, user, spawned, hist>>
    BY <1>2 DEF RunFail, RunStep
  <2>2. LocalsBound'
    BY <1>1, <1>2, <2>1 DEF TypeOK, Statuses, MaybeTree, Trees, LocalsBound, NoTree,
       Errored, hist, Current
  <2>3. RunsBound'
    BY <1>1, <1>2, <2>1 DEF TypeOK, Statuses, MaybeTree, Trees, RunsBound, Opening,
       Base, Shown, NoTree, Errored, hist, Current
  <2>4. WatchesBound'
    BY <1>1, <1>2, <2>1 DEF TypeOK, Statuses, MaybeTree, Trees, WatchesBound, Base,
       Shown, NoTree, StopBound, Errored, hist, Current
  <2>5. SpawnBound'
    BY <1>1, <1>2, <2>1 DEF TypeOK, Statuses, MaybeTree, Trees, SpawnBound, NoTree,
       Opening, Errored, hist, Current
  <2>6. StopBound'
    BY <1>1, <1>2, <2>1 DEF TypeOK, Statuses, MaybeTree, Trees, StopBound, NoTree,
       RunsBound, Opening, Base, Shown, WatchesBound, Errored, hist, Current
  <2>7. StatusMeans'
    BY <1>1, <1>2, <2>1 DEF TypeOK, Statuses, MaybeTree, Trees, StatusMeans, Shown,
       NoTree, Errored, hist, Current
  <2>8. TreesOwned'
    BY <1>1, <1>2, <2>1 DEF TypeOK, Statuses, MaybeTree, Trees, TreesOwned, Tentative,
       LocalsBound, NoTree, RunsBound, Opening, Base, Shown, WatchesBound, SpawnBound,
       StopBound, StatusMeans, StopsCount, EnabledInv, Disabling, ScheduleInv,
       Errored, hist, Current
  <2>9. StopsCount'
    BY <1>1, <1>2, <2>1 DEF TypeOK, Statuses, MaybeTree, Trees, StopsCount, Base,
       NoTree, Errored, hist, Current
  <2>10. EnabledInv'
    BY <1>1, <1>2, <2>1 DEF TypeOK, Statuses, MaybeTree, Trees, EnabledInv, Disabling,
       StatusMeans, Shown, NoTree, StopBound, Errored, hist, Current
  <2>11. ScheduleInv'
    BY <1>1, <1>2, <2>1 DEF TypeOK, Statuses, MaybeTree, Trees, ScheduleInv, Shown,
       Disabling, Errored, hist, Current, NoTree
  <2> QED BY <1>1, <2>2, <2>3, <2>4, <2>5, <2>6, <2>7, <2>8, <2>9, <2>10, <2>11
<1>3. CASE ~Current(runs[r].gen)
  <2>1. LocalsBound'
    BY <1>1, <1>3 DEF TypeOK, Statuses, MaybeTree, Trees, RunFail, Fault, Current,
       Errored, RunStep, Idle, hist, NoTree, LocalsBound
  <2>2. RunsBound'
    BY <1>1, <1>3 DEF TypeOK, Statuses, MaybeTree, Trees, RunFail, Fault, Current,
       Errored, RunStep, Idle, hist, NoTree, RunsBound, Opening, Base, Shown
  <2>3. WatchesBound'
    BY <1>1, <1>3 DEF TypeOK, Statuses, MaybeTree, Trees, RunFail, Fault, Current,
       Errored, RunStep, Idle, hist, NoTree, WatchesBound, Base, Shown
  <2>4. SpawnBound'
    BY <1>1, <1>3 DEF TypeOK, Statuses, MaybeTree, Trees, RunFail, Fault, Current,
       Errored, RunStep, Idle, hist, NoTree, SpawnBound, Opening
  <2>5. StopBound'
    BY <1>1, <1>3 DEF TypeOK, Statuses, MaybeTree, Trees, RunFail, Fault, Current,
       Errored, RunStep, Idle, hist, NoTree, StopBound
  <2>6. StatusMeans'
    BY <1>1, <1>3 DEF TypeOK, Statuses, MaybeTree, Trees, RunFail, Fault, Current,
       Errored, RunStep, Idle, hist, NoTree, StatusMeans, Shown
  <2>7. TreesOwned'
    BY <1>1, <1>3 DEF TypeOK, Statuses, MaybeTree, Trees, RunFail, Fault, Current,
       Errored, RunStep, Idle, hist, NoTree, TreesOwned, Tentative, LocalsBound,
       RunsBound, Opening, Base, Shown
  <2>8. StopsCount'
    BY <1>1, <1>3 DEF TypeOK, Statuses, MaybeTree, Trees, RunFail, Fault, Current,
       Errored, RunStep, Idle, hist, NoTree, StopsCount, Base
  <2>9. EnabledInv'
    BY <1>1, <1>3 DEF TypeOK, Statuses, MaybeTree, Trees, RunFail, Fault, Current,
       Errored, RunStep, Idle, hist, NoTree, EnabledInv, Disabling
  <2>10. ScheduleInv'
    BY <1>1, <1>3 DEF TypeOK, Statuses, MaybeTree, Trees, RunFail, Fault, Current,
       Errored, RunStep, Idle, hist, NoTree, ScheduleInv, Shown, Disabling
  <2> QED BY <1>1, <2>1, <2>2, <2>3, <2>4, <2>5, <2>6, <2>7, <2>8, <2>9, <2>10
<1> QED BY <1>1, <1>2, <1>3

LEMMA RunSpawnTypes ==
  ASSUME TypeOK, LocalsBound, NEW r \in Slots, RunSpawn(r)
  PROVE  TypeOK'
<1> USE TypeSplit
<1>1. RunType'
  BY CronAssumption DEF RunSpawn, hist, RunType, LocalsBound, MaybeTree, Trees,
     NoTree, CountTypes, ProcType, ProcRecords
<1>2. CountTypes'
  BY CronAssumption DEF RunSpawn, hist, CountTypes, LocalsBound, MaybeTree, Trees,
     NoTree, ProcType, ProcRecords
<1>3. ProcType' /\ FlagTypes' /\ WatchType' /\ UserType'
  BY DEF RunSpawn, hist, ProcType, FlagTypes, WatchType, UserType
<1> QED BY <1>1, <1>2, <1>3, PTL

LEMMA RunSpawnKeeps ==
  ASSUME TypeOK, IInv, NEW r \in Slots, RunSpawn(r)
  PROVE  TypeOK' /\ IInv'
<1> USE DEF IInv
<1>1. TypeOK'
  BY RunSpawnTypes
<1>2. LocalsBound'
  BY <1>1 DEF TypeOK, Statuses, MaybeTree, Trees, RunSpawn, hist, LocalsBound, NoTree
<1>3. RunsBound'
  BY <1>1 DEF TypeOK, Statuses, MaybeTree, Trees, RunSpawn, hist, RunsBound, Opening,
     Base, Shown, NoTree
<1>4. SpawnBound'
  BY <1>1 DEF TypeOK, Statuses, MaybeTree, Trees, RunSpawn, hist, SpawnBound, NoTree,
     Opening
<1>5. TreesOwned'
  BY <1>1 DEF TypeOK, Statuses, MaybeTree, Trees, RunSpawn, hist, TreesOwned,
     Tentative
<1>6. /\ WatchesBound' /\ StopBound' /\ StatusMeans' /\ StopsCount'
      /\ EnabledInv' /\ ScheduleInv'
  BY DEF RunSpawn, WatchesBound, Base, Shown, NoTree, StopBound, StatusMeans,
     StopsCount, EnabledInv, Disabling, ScheduleInv, hist
<1> QED BY <1>1, <1>2, <1>3, <1>4, <1>5, <1>6

LEMMA RunCommitTypes ==
  ASSUME TypeOK, LocalsBound, NEW r \in Slots, RunCommit(r)
  PROVE  TypeOK'
<1> USE TypeSplit
<1>1. ProcType'
  BY StatusNames DEF RunCommit, ProcType, ProcRecords, RunType
<1>2. RunType'
  BY CronAssumption DEF RunCommit, hist, RunType, LocalsBound, MaybeTree, Trees,
     NoTree, CountTypes, ProcType, ProcRecords
<1>3. WatchType'
  BY CronAssumption DEF RunCommit, hist, WatchType, LocalsBound, MaybeTree, Trees,
     NoTree, RunType, UserType, UserRecords
<1>4. FlagTypes' /\ UserType' /\ CountTypes'
  BY DEF RunCommit, hist, FlagTypes, UserType, CountTypes
<1> QED BY <1>1, <1>2, <1>3, <1>4, PTL

LEMMA RunCommitKeeps ==
  ASSUME TypeOK, IInv, NEW r \in Slots, RunCommit(r)
  PROVE  TypeOK' /\ IInv'
<1> USE DEF IInv
<1>1. TypeOK'
  BY RunCommitTypes
<1>2. LocalsBound'
  BY <1>1 DEF TypeOK, Statuses, MaybeTree, Trees, RunCommit, Current, NoTree, hist,
     LocalsBound
<1>3. RunsBound'
  BY <1>1 DEF TypeOK, Statuses, MaybeTree, Trees, RunCommit, Current, NoTree, hist,
     RunsBound, Opening, Base, Shown
<1>4. WatchesBound'
  BY <1>1 DEF TypeOK, Statuses, MaybeTree, Trees, RunCommit, Current, NoTree, hist,
     WatchesBound, Base, Shown, LocalsBound, RunsBound, Opening
<1>5. SpawnBound'
  BY <1>1 DEF TypeOK, Statuses, MaybeTree, Trees, RunCommit, Current, NoTree, hist,
     SpawnBound, Opening
<1>6. StopBound'
  BY <1>1 DEF TypeOK, Statuses, MaybeTree, Trees, RunCommit, Current, NoTree, hist,
     StopBound, RunsBound, Opening, Base, Shown, WatchesBound
<1>7. StatusMeans'
  BY <1>1 DEF TypeOK, Statuses, MaybeTree, Trees, RunCommit, Current, NoTree, hist,
     StatusMeans, Shown
<1>8. TreesOwned'
  BY <1>1 DEF TypeOK, Statuses, MaybeTree, Trees, RunCommit, Current, NoTree, hist,
     TreesOwned, Tentative, LocalsBound, RunsBound, Opening, Base, Shown
<1>9. StopsCount'
  BY <1>1 DEF TypeOK, Statuses, MaybeTree, Trees, RunCommit, Current, NoTree, hist,
     StopsCount, Base
<1>10. EnabledInv'
  BY <1>1 DEF TypeOK, Statuses, MaybeTree, Trees, RunCommit, Current, NoTree, hist,
     EnabledInv, Disabling, LocalsBound, RunsBound, Opening, Base, Shown
<1>11. ScheduleInv'
  BY <1>1 DEF TypeOK, Statuses, MaybeTree, Trees, RunCommit, Current, NoTree, hist,
     ScheduleInv, Shown, Disabling, RunsBound, Opening, Base, WatchesBound
<1> QED BY <1>1, <1>2, <1>3, <1>4, <1>5, <1>6, <1>7, <1>8, <1>9, <1>10, <1>11

LEMMA RunAbandonTypes ==
  ASSUME TypeOK, LocalsBound, NEW r \in Slots, RunAbandon(r)
  PROVE  TypeOK'
<1> USE TypeSplit
<1>1. ProcType'
  BY ErroredType DEF RunAbandon, ProcType
<1>2. RunType'
  BY CronAssumption DEF RunAbandon, Fault, Errored, hist, RunType, LocalsBound,
     MaybeTree, Trees, NoTree, CountTypes, ProcType, ProcRecords
<1>3. CountTypes'
  BY CronAssumption DEF RunAbandon, Fault, Errored, hist, CountTypes, LocalsBound,
     MaybeTree, Trees, NoTree, ProcType, ProcRecords
<1>4. FlagTypes' /\ WatchType' /\ UserType'
  BY DEF RunAbandon, hist, FlagTypes, WatchType, UserType
<1> QED BY <1>1, <1>2, <1>3, <1>4, PTL

LEMMA RunAbandonKeeps ==
  ASSUME TypeOK, IInv, NEW r \in Slots, RunAbandon(r)
  PROVE  TypeOK' /\ IInv'
<1> USE DEF IInv
<1>1. TypeOK'
  BY RunAbandonTypes
<1>2. LocalsBound'
  BY <1>1 DEF TypeOK, Statuses, MaybeTree, Trees, RunAbandon, Current, Fault, Errored,
     NoTree, hist, LocalsBound
<1>3. RunsBound'
  BY <1>1 DEF TypeOK, Statuses, MaybeTree, Trees, RunAbandon, Current, Fault, Errored,
     NoTree, hist, RunsBound, Opening, Base, Shown
<1>4. WatchesBound'
  BY <1>1 DEF TypeOK, Statuses, MaybeTree, Trees, RunAbandon, Current, Fault, Errored,
     NoTree, hist, WatchesBound, Base, Shown, LocalsBound, RunsBound, Opening
<1>5. SpawnBound'
  BY <1>1 DEF TypeOK, Statuses, MaybeTree, Trees, RunAbandon, Current, Fault, Errored,
     NoTree, hist, SpawnBound, Opening
<1>6. StopBound'
  BY <1>1 DEF TypeOK, Statuses, MaybeTree, Trees, RunAbandon, Current, Fault, Errored,
     NoTree, hist, StopBound, RunsBound, Opening, Base, Shown, WatchesBound
<1>7. StatusMeans'
  BY <1>1 DEF TypeOK, Statuses, MaybeTree, Trees, RunAbandon, Current, Fault, Errored,
     NoTree, hist, StatusMeans, Shown
<1>8. TreesOwned'
  BY <1>1 DEF TypeOK, Statuses, MaybeTree, Trees, RunAbandon, Current, Fault, Errored,
     NoTree, hist, TreesOwned, Tentative, LocalsBound, RunsBound, Opening, Base, Shown
<1>9. StopsCount'
  BY <1>1 DEF TypeOK, Statuses, MaybeTree, Trees, RunAbandon, Current, Fault, Errored,
     NoTree, hist, StopsCount, Base
<1>10. EnabledInv'
  BY <1>1 DEF TypeOK, Statuses, MaybeTree, Trees, RunAbandon, Current, Fault, Errored,
     NoTree, hist, EnabledInv, Disabling, LocalsBound, RunsBound, Opening, Base, Shown
<1>11. ScheduleInv'
  BY <1>1 DEF TypeOK, Statuses, MaybeTree, Trees, RunAbandon, Current, Fault, Errored,
     NoTree, hist, ScheduleInv, Shown, Disabling
<1> QED BY <1>1, <1>2, <1>3, <1>4, <1>5, <1>6, <1>7, <1>8, <1>9, <1>10, <1>11

LEMMA RunDropTypes ==
  ASSUME TypeOK, LocalsBound, NEW r \in Slots, RunDrop(r)
  PROVE  TypeOK'
<1> USE TypeSplit
<1>1. FlagTypes'
  BY Zenon DEF RunDrop, Idle, FlagTypes
<1>2. RunType'
  BY CronAssumption DEF RunDrop, Idle, RunType, LocalsBound, MaybeTree, Trees, NoTree,
     CountTypes, ProcType, ProcRecords
<1>3. ProcType' /\ WatchType' /\ UserType' /\ CountTypes'
  BY DEF RunDrop, ProcType, WatchType, UserType, CountTypes
<1> QED BY <1>1, <1>2, <1>3, PTL

LEMMA RunDropKeeps ==
  ASSUME TypeOK, IInv, NEW r \in Slots, RunDrop(r)
  PROVE  TypeOK' /\ IInv'
<1> USE DEF IInv
<1>1. TypeOK'
  BY RunDropTypes
<1>2. LocalsBound'
  BY <1>1 DEF TypeOK, Statuses, MaybeTree, Trees, RunDrop, Idle, NoTree, LocalsBound
<1>3. RunsBound'
  BY <1>1 DEF TypeOK, Statuses, MaybeTree, Trees, RunDrop, Idle, NoTree, RunsBound,
     Opening, Base, Shown
<1>4. SpawnBound'
  BY <1>1 DEF TypeOK, Statuses, MaybeTree, Trees, RunDrop, Idle, NoTree, SpawnBound,
     Opening
<1>5. TreesOwned'
  BY <1>1 DEF TypeOK, Statuses, MaybeTree, Trees, RunDrop, Idle, NoTree, TreesOwned,
     Tentative, LocalsBound, RunsBound, Opening, Base, Shown
<1>6. ScheduleInv'
  BY <1>1 DEF TypeOK, Statuses, MaybeTree, Trees, RunDrop, Idle, NoTree, ScheduleInv,
     Shown, Disabling, StopBound
<1>7. /\ WatchesBound' /\ StopBound' /\ StatusMeans' /\ StopsCount'
      /\ EnabledInv'
  BY DEF RunDrop, WatchesBound, Base, Shown, NoTree, StopBound, StatusMeans,
     StopsCount, EnabledInv, Disabling
<1> QED BY <1>1, <1>2, <1>3, <1>4, <1>5, <1>6, <1>7

LEMMA RunLookTypes ==
  ASSUME TypeOK, LocalsBound, NEW r \in Slots, RunLook(r)
  PROVE  TypeOK'
<1> USE TypeSplit
<1>1. RunType'
  BY CronAssumption DEF RunLook, Idle, hist, RunType, LocalsBound, MaybeTree, Trees,
     NoTree, CountTypes, ProcType, ProcRecords
<1>2. ProcType' /\ FlagTypes' /\ WatchType' /\ UserType' /\ CountTypes'
  BY DEF RunLook, hist, ProcType, FlagTypes, WatchType, UserType, CountTypes
<1> QED BY <1>1, <1>2, PTL

LEMMA RunLookKeeps ==
  ASSUME TypeOK, IInv, NEW r \in Slots, RunLook(r)
  PROVE  TypeOK' /\ IInv'
<1> USE DEF IInv
<1>1. TypeOK'
  BY RunLookTypes
<1>2. LocalsBound'
  BY <1>1 DEF TypeOK, Statuses, MaybeTree, Trees, RunLook, Current, Idle, hist,
     NoTree, LocalsBound
<1>3. RunsBound'
  BY <1>1 DEF TypeOK, Statuses, MaybeTree, Trees, RunLook, Current, Idle, hist,
     NoTree, RunsBound, Opening, Base, Shown
<1>4. SpawnBound'
  BY <1>1 DEF TypeOK, Statuses, MaybeTree, Trees, RunLook, Current, Idle, hist,
     NoTree, SpawnBound, Opening
<1>5. TreesOwned'
  BY <1>1 DEF TypeOK, Statuses, MaybeTree, Trees, RunLook, Current, Idle, hist,
     NoTree, TreesOwned, Tentative, LocalsBound, RunsBound, Opening, Base, Shown
<1>6. /\ WatchesBound' /\ StopBound' /\ StatusMeans' /\ StopsCount'
      /\ EnabledInv' /\ ScheduleInv'
  BY DEF RunLook, WatchesBound, Base, Shown, NoTree, StopBound, StatusMeans,
     StopsCount, EnabledInv, Disabling, ScheduleInv, hist
<1> QED BY <1>1, <1>2, <1>3, <1>4, <1>5, <1>6

LEMMA RunEnsureTypes ==
  ASSUME TypeOK, LocalsBound, NEW r \in Slots, RunEnsure(r)
  PROVE  TypeOK'
<1> USE TypeSplit
<1>1. FlagTypes'
  BY Zenon DEF RunEnsure, Idle, hist, FlagTypes
<1>2. RunType'
  BY CronAssumption DEF RunEnsure, Idle, hist, RunType, LocalsBound, MaybeTree, Trees,
     NoTree, CountTypes, ProcType, ProcRecords
<1>3. ProcType' /\ WatchType' /\ UserType' /\ CountTypes'
  BY DEF RunEnsure, hist, ProcType, WatchType, UserType, CountTypes
<1> QED BY <1>1, <1>2, <1>3, PTL

LEMMA RunEnsureKeeps ==
  ASSUME TypeOK, IInv, NEW r \in Slots, RunEnsure(r)
  PROVE  TypeOK' /\ IInv'
<1> USE DEF IInv
<1>1. TypeOK'
  BY RunEnsureTypes
<1>2. LocalsBound'
  BY <1>1 DEF TypeOK, Statuses, MaybeTree, Trees, RunEnsure, Current, Idle, hist,
     NoTree, LocalsBound
<1>3. RunsBound'
  BY <1>1 DEF TypeOK, Statuses, MaybeTree, Trees, RunEnsure, Current, Idle, hist,
     NoTree, RunsBound, Opening, Base, Shown
<1>4. SpawnBound'
  BY <1>1 DEF TypeOK, Statuses, MaybeTree, Trees, RunEnsure, Current, Idle, hist,
     NoTree, SpawnBound, Opening
<1>5. TreesOwned'
  BY <1>1 DEF TypeOK, Statuses, MaybeTree, Trees, RunEnsure, Current, Idle, hist,
     NoTree, TreesOwned, Tentative, LocalsBound, RunsBound, Opening, Base, Shown
<1>6. ScheduleInv'
  BY <1>1 DEF TypeOK, Statuses, MaybeTree, Trees, RunEnsure, Current, Idle, hist,
     NoTree, ScheduleInv, Shown, Disabling, StopBound
<1>7. /\ WatchesBound' /\ StopBound' /\ StatusMeans' /\ StopsCount'
      /\ EnabledInv'
  BY DEF RunEnsure, WatchesBound, Base, Shown, NoTree, StopBound, StatusMeans,
     StopsCount, EnabledInv, Disabling, hist
<1> QED BY <1>1, <1>2, <1>3, <1>4, <1>5, <1>6, <1>7

-----------------------------------------------------------------------------
(* The exit of a committed tree's root.                                    *)
LEMMA RootExitTypes ==
  ASSUME TypeOK, LocalsBound, NEW w \in watch, RootExit(w)
  PROVE  TypeOK'
<1> USE TypeSplit
<1>1. WatchType'
  BY CronAssumption DEF RootExit, Move, hist, WatchType, LocalsBound, MaybeTree,
     Trees, NoTree, RunType, UserType, UserRecords
<1>2. ProcType' /\ FlagTypes' /\ RunType' /\ UserType' /\ CountTypes'
  BY DEF RootExit, hist, ProcType, FlagTypes, RunType, UserType, CountTypes
<1> QED BY <1>1, <1>2, PTL

LEMMA RootExitKeeps ==
  ASSUME TypeOK, IInv, NEW w \in watch, RootExit(w)
  PROVE  TypeOK' /\ IInv'
<1> USE DEF IInv
<1>1. TypeOK'
  BY RootExitTypes
<1>2. RunsBound'
  BY <1>1 DEF TypeOK, Statuses, MaybeTree, Trees, RootExit, Move, hist, RunsBound,
     Opening, Base, Shown, NoTree
<1>3. WatchesBound'
  BY <1>1 DEF TypeOK, Statuses, MaybeTree, Trees, RootExit, Move, hist, WatchesBound,
     Base, Shown, NoTree
<1>4. SpawnBound'
  BY <1>1 DEF TypeOK, Statuses, MaybeTree, Trees, RootExit, Move, hist, SpawnBound,
     NoTree, Opening
<1>5. /\ LocalsBound' /\ StopBound' /\ StatusMeans' /\ TreesOwned' /\ StopsCount'
      /\ EnabledInv' /\ ScheduleInv'
  BY DEF RootExit, LocalsBound, NoTree, StopBound, StatusMeans, Shown, TreesOwned,
     Tentative, StopsCount, Base, EnabledInv, Disabling, ScheduleInv, hist
<1> QED BY <1>1, <1>2, <1>3, <1>4, <1>5

LEMMA FinishTerminateTypes ==
  ASSUME TypeOK, LocalsBound, NEW w \in watch, FinishTerminate(w)
  PROVE  TypeOK'
<1> USE TypeSplit
<1>1. ProcType'
  BY ProcFields, StatusNames, MaybeTrees DEF FinishTerminate, Move, ProcType,
     ProcRecords
<1>2. WatchType'
  BY CronAssumption DEF FinishTerminate, Move, hist, WatchType, LocalsBound,
     MaybeTree, Trees, NoTree, RunType, UserType, UserRecords
<1>3. CountTypes'
  BY CronAssumption DEF FinishTerminate, Move, hist, CountTypes, LocalsBound,
     MaybeTree, Trees, NoTree, ProcType, ProcRecords
<1>4. FlagTypes' /\ RunType' /\ UserType'
  BY DEF FinishTerminate, hist, FlagTypes, RunType, UserType
<1> QED BY <1>1, <1>2, <1>3, <1>4, PTL

LEMMA FinishTerminateKeeps ==
  ASSUME TypeOK, IInv, NEW w \in watch, FinishTerminate(w)
  PROVE  TypeOK' /\ IInv'
<1> USE DEF IInv
<1>1. TypeOK'
  BY FinishTerminateTypes
<1>2. RunsBound'
  BY <1>1 DEF TypeOK, Statuses, MaybeTree, Trees, FinishTerminate, NoTree, Move, hist,
     RunsBound, Opening, Base, Shown
<1>3. WatchesBound'
  BY <1>1 DEF TypeOK, Statuses, MaybeTree, Trees, FinishTerminate, NoTree, Move, hist,
     WatchesBound, Base, Shown, StopBound
<1>4. SpawnBound'
  BY <1>1 DEF TypeOK, Statuses, MaybeTree, Trees, FinishTerminate, NoTree, Move, hist,
     SpawnBound, Opening
<1>5. StopBound'
  BY <1>1 DEF TypeOK, Statuses, MaybeTree, Trees, FinishTerminate, NoTree, Move, hist,
     StopBound
<1>6. StatusMeans'
  BY <1>1 DEF TypeOK, Statuses, MaybeTree, Trees, FinishTerminate, NoTree, Move, hist,
     StatusMeans, Shown, RunsBound, Opening, Base, WatchesBound, StopBound, SpawnBound
<1>7. TreesOwned'
  BY <1>1 DEF TypeOK, Statuses, MaybeTree, Trees, FinishTerminate, NoTree, Move, hist,
     TreesOwned, Tentative, RunsBound, Opening, Base, Shown, WatchesBound, StopBound,
     SpawnBound
<1>8. StopsCount'
  BY <1>1 DEF TypeOK, Statuses, MaybeTree, Trees, FinishTerminate, NoTree, Move, hist,
     StopsCount, Base
<1>9. EnabledInv'
  BY <1>1 DEF TypeOK, Statuses, MaybeTree, Trees, FinishTerminate, NoTree, Move, hist,
     EnabledInv, Disabling
<1>10. ScheduleInv'
  BY <1>1 DEF TypeOK, Statuses, MaybeTree, Trees, FinishTerminate, NoTree, Move, hist,
     ScheduleInv, Shown, Disabling
<1>11. LocalsBound'
  BY DEF FinishTerminate, LocalsBound, NoTree, hist
<1> QED BY <1>1, <1>2, <1>3, <1>4, <1>5, <1>6, <1>7, <1>8, <1>9, <1>10, <1>11

LEMMA FinishStuckTypes ==
  ASSUME TypeOK, LocalsBound, NEW w \in watch, FinishStuck(w)
  PROVE  TypeOK'
<1> USE TypeSplit
<1>1. ProcType'
  BY ProcFields, StatusNames, MaybeTrees DEF FinishStuck, Fault, Move, ProcType,
     ProcRecords
<1>2. WatchType'
  BY CronAssumption DEF FinishStuck, Fault, Move, hist, WatchType, LocalsBound,
     MaybeTree, Trees, NoTree, RunType, UserType, UserRecords
<1>3. CountTypes'
  BY CronAssumption DEF FinishStuck, Fault, Move, hist, CountTypes, LocalsBound,
     MaybeTree, Trees, NoTree, ProcType, ProcRecords
<1>4. FlagTypes' /\ RunType' /\ UserType'
  BY DEF FinishStuck, hist, FlagTypes, RunType, UserType
<1> QED BY <1>1, <1>2, <1>3, <1>4, PTL

LEMMA FinishStuckKeeps ==
  ASSUME TypeOK, IInv, NEW w \in watch, FinishStuck(w)
  PROVE  TypeOK' /\ IInv'
<1> USE DEF IInv
<1>1. TypeOK'
  BY FinishStuckTypes
<1>2. LocalsBound'
  BY DEF FinishStuck, LocalsBound, NoTree, hist
<1>3. CASE proc.desired \/ w.via = "loop"
  <2>1. /\ proc' = [proc EXCEPT !.status = "Errored", !.desired = FALSE]
        /\ IF w.via = "run" THEN Move(w, "drop") ELSE watch' = watch \ {w}
        /\ w.stage = "exited" /\ proc.gen = w.gen
        /\ UNCHANGED <<present, sched, ticks, runs, alive, user, spawned, hist>>
    BY <1>3 DEF FinishStuck
  <2>2. RunsBound'
    BY <1>1, <1>3, <2>1 DEF TypeOK, Statuses, MaybeTree, Trees, RunsBound, Opening,
       Base, Shown, NoTree, Errored, Move, hist
  <2>3. WatchesBound'
    BY <1>1, <1>3, <2>1 DEF TypeOK, Statuses, MaybeTree, Trees, WatchesBound, Base,
       Shown, NoTree, Errored, Move, hist
  <2>4. SpawnBound'
    BY <1>1, <1>3, <2>1 DEF TypeOK, Statuses, MaybeTree, Trees, SpawnBound, NoTree,
       Opening, Errored, Move, hist
  <2>5. StopBound'
    BY <1>1, <1>3, <2>1 DEF TypeOK, Statuses, MaybeTree, Trees, StopBound, NoTree,
       RunsBound, Opening, Base, Shown, WatchesBound, Errored, Move, hist
  <2>6. StatusMeans'
    BY <1>1, <1>3, <2>1 DEF TypeOK, Statuses, MaybeTree, Trees, StatusMeans, Shown,
       NoTree, Errored, Move, hist
  <2>7. TreesOwned'
    BY <1>1, <1>3, <2>1 DEF TypeOK, Statuses, MaybeTree, Trees, TreesOwned, Tentative,
       Errored, Move, hist, NoTree
  <2>8. StopsCount'
    BY <1>1, <1>3, <2>1 DEF TypeOK, Statuses, MaybeTree, Trees, StopsCount, Base,
       NoTree, Errored, Move, hist
  <2>9. EnabledInv'
    BY <1>1, <1>3, <2>1 DEF TypeOK, Statuses, MaybeTree, Trees, EnabledInv, Disabling,
       RunsBound, Opening, Base, Shown, NoTree, WatchesBound, StopBound, SpawnBound,
       Errored, Move, hist
  <2>10. ScheduleInv'
    BY <1>1, <1>3, <2>1 DEF TypeOK, Statuses, MaybeTree, Trees, ScheduleInv, Shown,
       Disabling, Errored, Move, hist, NoTree
  <2> QED BY <1>1, <2>2, <2>3, <2>4, <2>5, <2>6, <2>7, <2>8, <2>9, <2>10, <1>2
<1>4. CASE ~(proc.desired \/ w.via = "loop")
  <2>1. RunsBound'
    BY <1>1, <1>4 DEF TypeOK, Statuses, MaybeTree, Trees, FinishStuck, Fault, Move,
       hist, RunsBound, Opening, Base, Shown, NoTree
  <2>2. WatchesBound'
    BY <1>1, <1>4 DEF TypeOK, Statuses, MaybeTree, Trees, FinishStuck, Fault, Move,
       hist, WatchesBound, Base, Shown, NoTree
  <2>3. SpawnBound'
    BY <1>1, <1>4 DEF TypeOK, Statuses, MaybeTree, Trees, FinishStuck, Fault, Move,
       hist, SpawnBound, NoTree, Opening
  <2>4. StopBound'
    BY <1>1, <1>4 DEF TypeOK, Statuses, MaybeTree, Trees, FinishStuck, Fault, Move,
       hist, StopBound, NoTree
  <2>5. StatusMeans'
    BY <1>1, <1>4 DEF TypeOK, Statuses, MaybeTree, Trees, FinishStuck, Fault, Move,
       hist, StatusMeans, Shown, NoTree
  <2>6. TreesOwned'
    BY <1>1, <1>4 DEF TypeOK, Statuses, MaybeTree, Trees, FinishStuck, Fault, Move,
       hist, TreesOwned, Tentative
  <2>7. StopsCount'
    BY <1>1, <1>4 DEF TypeOK, Statuses, MaybeTree, Trees, FinishStuck, Fault, Move,
       hist, StopsCount, Base, NoTree
  <2>8. EnabledInv'
    BY <1>1, <1>4 DEF TypeOK, Statuses, MaybeTree, Trees, FinishStuck, Fault, Move,
       hist, EnabledInv, Disabling
  <2>9. ScheduleInv'
    BY <1>1, <1>4 DEF TypeOK, Statuses, MaybeTree, Trees, FinishStuck, Fault, Move,
       hist, ScheduleInv, Shown, Disabling
  <2> QED BY <1>1, <2>1, <2>2, <2>3, <2>4, <2>5, <2>6, <2>7, <2>8, <2>9, <1>2
<1> QED BY <1>1, <1>3, <1>4

LEMMA FinishDropTypes ==
  ASSUME TypeOK, LocalsBound, NEW w \in watch, FinishDrop(w)
  PROVE  TypeOK'
<1> USE TypeSplit
<1>1. FlagTypes'
  BY Zenon DEF FinishDrop, FlagTypes
<1>2. WatchType'
  BY CronAssumption DEF FinishDrop, WatchType, LocalsBound, MaybeTree, Trees, NoTree,
     RunType, UserType, UserRecords
<1>3. ProcType' /\ RunType' /\ UserType' /\ CountTypes'
  BY DEF FinishDrop, ProcType, RunType, UserType, CountTypes
<1> QED BY <1>1, <1>2, <1>3, PTL

LEMMA FinishDropKeeps ==
  ASSUME TypeOK, IInv, NEW w \in watch, FinishDrop(w)
  PROVE  TypeOK' /\ IInv'
<1> USE DEF IInv
<1>1. TypeOK'
  BY FinishDropTypes
<1>2. RunsBound'
  BY <1>1 DEF TypeOK, Statuses, MaybeTree, Trees, FinishDrop, RunsBound, Opening,
     Base, Shown, NoTree
<1>3. WatchesBound'
  BY <1>1 DEF TypeOK, Statuses, MaybeTree, Trees, FinishDrop, WatchesBound, Base,
     Shown, NoTree
<1>4. SpawnBound'
  BY <1>1 DEF TypeOK, Statuses, MaybeTree, Trees, FinishDrop, SpawnBound, NoTree,
     Opening
<1>5. ScheduleInv'
  BY <1>1 DEF TypeOK, Statuses, MaybeTree, Trees, FinishDrop, ScheduleInv, Shown,
     Disabling, StopBound, NoTree
<1>6. /\ LocalsBound' /\ StopBound' /\ StatusMeans' /\ TreesOwned' /\ StopsCount'
      /\ EnabledInv'
  BY DEF FinishDrop, LocalsBound, NoTree, StopBound, StatusMeans, Shown, TreesOwned,
     Tentative, StopsCount, Base, EnabledInv, Disabling
<1> QED BY <1>1, <1>2, <1>3, <1>4, <1>5, <1>6

LEMMA FinishSleepTypes ==
  ASSUME TypeOK, LocalsBound, NEW w \in watch, FinishSleep(w)
  PROVE  TypeOK'
<1> USE TypeSplit
<1>1. ProcType'
  BY ProcFields, StatusNames, MaybeTrees DEF FinishSleep, ProcType, ProcRecords
<1>2. WatchType'
  BY CronAssumption DEF FinishSleep, hist, WatchType, LocalsBound, MaybeTree, Trees,
     NoTree, RunType, UserType, UserRecords
<1>3. FlagTypes' /\ RunType' /\ UserType' /\ CountTypes'
  BY DEF FinishSleep, hist, FlagTypes, RunType, UserType, CountTypes
<1> QED BY <1>1, <1>2, <1>3, PTL

LEMMA FinishSleepKeeps ==
  ASSUME TypeOK, IInv, NEW w \in watch, FinishSleep(w)
  PROVE  TypeOK' /\ IInv'
<1> USE DEF IInv
<1>1. TypeOK'
  BY FinishSleepTypes
<1>2. RunsBound'
  BY <1>1 DEF TypeOK, Statuses, MaybeTree, Trees, FinishSleep, Current, hist,
     RunsBound, Opening, Base, Shown, NoTree
<1>3. WatchesBound'
  BY <1>1 DEF TypeOK, Statuses, MaybeTree, Trees, FinishSleep, Current, hist,
     WatchesBound, Base, Shown, NoTree
<1>4. SpawnBound'
  BY <1>1 DEF TypeOK, Statuses, MaybeTree, Trees, FinishSleep, Current, hist,
     SpawnBound, NoTree, Opening
<1>5. StopBound'
  BY <1>1 DEF TypeOK, Statuses, MaybeTree, Trees, FinishSleep, Current, hist,
     StopBound, NoTree, RunsBound, Opening, Base, Shown, WatchesBound
<1>6. StatusMeans'
  BY <1>1 DEF TypeOK, Statuses, MaybeTree, Trees, FinishSleep, Current, hist,
     StatusMeans, Shown, NoTree, RunsBound, Opening, Base, WatchesBound
<1>7. TreesOwned'
  BY <1>1 DEF TypeOK, Statuses, MaybeTree, Trees, FinishSleep, Current, hist,
     TreesOwned, Tentative
<1>8. StopsCount'
  BY <1>1 DEF TypeOK, Statuses, MaybeTree, Trees, FinishSleep, Current, hist,
     StopsCount, Base, NoTree
<1>9. EnabledInv'
  BY <1>1 DEF TypeOK, Statuses, MaybeTree, Trees, FinishSleep, Current, hist,
     EnabledInv, Disabling, StatusMeans, Shown, NoTree, StopBound
<1>10. ScheduleInv'
  BY <1>1 DEF TypeOK, Statuses, MaybeTree, Trees, FinishSleep, Current, hist,
     ScheduleInv, Shown, Disabling, RunsBound, Opening, Base, NoTree, WatchesBound
<1>11. LocalsBound'
  BY DEF FinishSleep, LocalsBound, NoTree, hist
<1> QED BY <1>1, <1>2, <1>3, <1>4, <1>5, <1>6, <1>7, <1>8, <1>9, <1>10, <1>11

-----------------------------------------------------------------------------
(* Requests.                                                               *)
LEMMA RequestTypes ==
  ASSUME TypeOK, LocalsBound, NEW op \in UserOps, Request(op)
  PROVE  TypeOK'
<1> USE TypeSplit
<1>1. UserType'
  <2>1. PICK p : p = Enter(op)
    OBVIOUS
  <2>2. p \in UserPcs /\ op \in UserNames
    BY <2>1, CronAssumption DEF Enter, UserPcs, UserNames
  <2>3. user' = [IdleUser EXCEPT !.pc = p, !.op = op]
    BY <2>1 DEF Request
  <2> QED BY <2>2, <2>3, UserIdles DEF UserType
<1>2. CountTypes'
  BY CronAssumption DEF Request, IdleUser, Enter, rest, CountTypes, LocalsBound,
     MaybeTree, Trees, NoTree, ProcType, ProcRecords
<1>3. ProcType' /\ FlagTypes' /\ RunType' /\ WatchType'
  BY DEF Request, rest, ProcType, FlagTypes, RunType, WatchType
<1> QED BY <1>1, <1>2, <1>3, PTL

LEMMA RequestKeeps ==
  ASSUME TypeOK, IInv, NEW op \in UserOps, Request(op)
  PROVE  TypeOK' /\ IInv'
<1> USE DEF IInv
<1>1. TypeOK'
  BY RequestTypes
<1>2. LocalsBound'
  BY <1>1 DEF TypeOK, Statuses, MaybeTree, Trees, Request, IdleUser, Enter, rest,
     NoTree, LocalsBound
<1>3. RunsBound'
  BY <1>1 DEF TypeOK, Statuses, MaybeTree, Trees, Request, IdleUser, Enter, rest,
     NoTree, RunsBound, Opening, Base, Shown
<1>4. WatchesBound'
  BY <1>1 DEF TypeOK, Statuses, MaybeTree, Trees, Request, IdleUser, Enter, rest,
     NoTree, WatchesBound, Base, Shown
<1>5. SpawnBound'
  BY <1>1 DEF TypeOK, Statuses, MaybeTree, Trees, Request, IdleUser, Enter, rest,
     NoTree, SpawnBound, Opening
<1>6. StopBound'
  BY <1>1 DEF TypeOK, Statuses, MaybeTree, Trees, Request, IdleUser, Enter, rest,
     NoTree, StopBound
<1>7. StatusMeans'
  BY <1>1 DEF TypeOK, Statuses, MaybeTree, Trees, Request, IdleUser, Enter, rest,
     NoTree, StatusMeans, Shown
<1>8. StopsCount'
  BY <1>1 DEF TypeOK, Statuses, MaybeTree, Trees, Request, IdleUser, Enter, rest,
     NoTree, StopsCount, Base
<1>9. EnabledInv'
  BY <1>1 DEF TypeOK, Statuses, MaybeTree, Trees, Request, IdleUser, Enter, rest,
     NoTree, EnabledInv, Disabling
<1>10. ScheduleInv'
  BY <1>1 DEF TypeOK, Statuses, MaybeTree, Trees, Request, IdleUser, Enter, rest,
     NoTree, ScheduleInv, Shown, Disabling
<1>11. TreesOwned'
  BY DEF Request, TreesOwned, Tentative, rest
<1> QED BY <1>1, <1>2, <1>3, <1>4, <1>5, <1>6, <1>7, <1>8, <1>9, <1>10, <1>11

LEMMA StopBeginTypes ==
  ASSUME TypeOK, LocalsBound, StopBegin
  PROVE  TypeOK'
<1> USE TypeSplit
<1>1. ProcType'
  <2>1. PICK n \in Nat : n = proc.gen + 1
    BY NextGen
  <2>2. \/ proc' = proc
        \/ proc' = [proc EXCEPT !.desired = FALSE, !.gen = n, !.status = "Stopping"]
    BY <2>1 DEF StopBegin
  <2> QED BY <2>2, StatusNames DEF ProcType, ProcRecords
<1>2. UserType'
  <2>1. PICK n \in Nat : n = proc.gen + 1
    BY NextGen
  <2>2. PICK p : p = Resume
    OBVIOUS
  <2>3. p \in UserPcs /\ "kill" \in UserPcs /\ "undo" \in UserPcs
    BY <2>2 DEF Resume, UserPcs
  <2>4. \/ user' = [user EXCEPT !.pc = "kill", !.gen = n, !.prev = proc.status,
                               !.prevGen = proc.gen]
        \/ user' = [user EXCEPT !.pc = "undo"]
        \/ user' = IdleUser
        \/ user' = [user EXCEPT !.pc = p]
    BY <2>1, <2>2 DEF StopBegin, UserStep, Done
  <2> QED BY <2>3, <2>4, ProcFields, UserIdles DEF UserType, UserRecords
<1>3. FlagTypes' /\ RunType' /\ WatchType' /\ CountTypes'
  BY DEF StopBegin, rest, FlagTypes, RunType, WatchType, CountTypes
<1> QED BY <1>1, <1>2, <1>3, PTL

LEMMA StopBeginKeeps ==
  ASSUME TypeOK, IInv, StopBegin
  PROVE  TypeOK' /\ IInv'
<1> USE DEF IInv
<1>1. TypeOK'
  BY StopBeginTypes
<1>2. CASE Stoppable
  <2>1. /\ user.pc = "stop"
        /\ proc' = [proc EXCEPT !.desired = FALSE, !.gen = @ + 1, !.status = "Stopping"]
        /\ user' = [user EXCEPT !.pc = "kill", !.gen = proc.gen + 1, !.prev = proc.status,
                                !.prevGen = proc.gen]
        /\ UNCHANGED <<sched, alive, stopGen, budget, rest>>
    BY <1>2 DEF StopBegin
  <2>2. LocalsBound'
    BY <1>1, <1>2, <2>1 DEF TypeOK, Statuses, MaybeTree, Trees, LocalsBound, NoTree,
       rest, Stoppable, Busy
  <2>3. RunsBound'
    BY <1>1, <1>2, <2>1 DEF TypeOK, Statuses, MaybeTree, Trees, RunsBound, Opening,
       Base, Shown, NoTree, rest, Stoppable, Busy
  <2>4. WatchesBound'
    BY <1>1, <1>2, <2>1 DEF TypeOK, Statuses, MaybeTree, Trees, WatchesBound, Base,
       Shown, NoTree, rest, Stoppable, Busy
  <2>5. SpawnBound'
    BY <1>1, <1>2, <2>1 DEF TypeOK, Statuses, MaybeTree, Trees, SpawnBound, NoTree,
       Opening, rest, Stoppable, Busy
  <2>6. StopBound'
    BY <1>1, <1>2, <2>1 DEF TypeOK, Statuses, MaybeTree, Trees, StopBound, NoTree,
       StatusMeans, Shown, rest, Stoppable, Busy
  <2>7. StatusMeans'
    BY <1>1, <1>2, <2>1 DEF TypeOK, Statuses, MaybeTree, Trees, StatusMeans, Shown,
       NoTree, rest, Stoppable, Busy
  <2>8. TreesOwned'
    BY <1>1, <1>2, <2>1 DEF TypeOK, Statuses, MaybeTree, Trees, TreesOwned, Tentative,
       rest, Stoppable, Busy, NoTree
  <2>9. StopsCount'
    BY <1>1, <1>2, <2>1 DEF TypeOK, Statuses, MaybeTree, Trees, StopsCount, Base,
       NoTree, rest, Stoppable, Busy
  <2>10. EnabledInv'
    BY <1>1, <1>2, <2>1 DEF TypeOK, Statuses, MaybeTree, Trees, EnabledInv, Disabling,
       StatusMeans, Shown, NoTree, StopBound, rest, Stoppable, Busy
  <2>11. ScheduleInv'
    BY <1>1, <1>2, <2>1 DEF TypeOK, Statuses, MaybeTree, Trees, ScheduleInv, Shown,
       Disabling, rest, Stoppable, Busy, NoTree
  <2> QED BY <1>1, <2>2, <2>3, <2>4, <2>5, <2>6, <2>7, <2>8, <2>9, <2>10, <2>11
<1>3. CASE ~Stoppable
  <2>1. LocalsBound'
    BY <1>1, <1>3 DEF TypeOK, Statuses, MaybeTree, Trees, StopBegin, Stoppable,
       UserStep, Resume, Done, rest, Busy, NoTree, IdleUser, LocalsBound
  <2>2. RunsBound'
    BY <1>1, <1>3 DEF TypeOK, Statuses, MaybeTree, Trees, StopBegin, Stoppable,
       UserStep, Resume, Done, rest, Busy, NoTree, IdleUser, RunsBound, Opening, Base,
       Shown
  <2>3. WatchesBound'
    BY <1>1, <1>3 DEF TypeOK, Statuses, MaybeTree, Trees, StopBegin, Stoppable,
       UserStep, Resume, Done, rest, Busy, NoTree, IdleUser, WatchesBound, Base, Shown
  <2>4. SpawnBound'
    BY <1>1, <1>3 DEF TypeOK, Statuses, MaybeTree, Trees, StopBegin, Stoppable,
       UserStep, Resume, Done, rest, Busy, NoTree, IdleUser, SpawnBound, Opening
  <2>5. StopBound'
    BY <1>1, <1>3 DEF TypeOK, Statuses, MaybeTree, Trees, StopBegin, Stoppable,
       UserStep, Resume, Done, rest, Busy, NoTree, IdleUser, StopBound, StatusMeans,
       Shown
  <2>6. StatusMeans'
    BY <1>1, <1>3 DEF TypeOK, Statuses, MaybeTree, Trees, StopBegin, Stoppable,
       UserStep, Resume, Done, rest, Busy, NoTree, IdleUser, StatusMeans, Shown
  <2>7. TreesOwned'
    BY <1>1, <1>3 DEF TypeOK, Statuses, MaybeTree, Trees, StopBegin, Stoppable,
       UserStep, Resume, Done, rest, Busy, NoTree, IdleUser, TreesOwned, Tentative
  <2>8. StopsCount'
    BY <1>1, <1>3 DEF TypeOK, Statuses, MaybeTree, Trees, StopBegin, Stoppable,
       UserStep, Resume, Done, rest, Busy, NoTree, IdleUser, StopsCount, Base
  <2>9. EnabledInv'
    BY <1>1, <1>3 DEF TypeOK, Statuses, MaybeTree, Trees, StopBegin, Stoppable,
       UserStep, Resume, Done, rest, Busy, NoTree, IdleUser, EnabledInv, Disabling
  <2>10. ScheduleInv'
    BY <1>1, <1>3 DEF TypeOK, Statuses, MaybeTree, Trees, StopBegin, Stoppable,
       UserStep, Resume, Done, rest, Busy, NoTree, IdleUser, ScheduleInv, Shown,
       Disabling
  <2> QED BY <1>1, <2>1, <2>2, <2>3, <2>4, <2>5, <2>6, <2>7, <2>8, <2>9, <2>10
<1> QED BY <1>1, <1>2, <1>3

LEMMA StopKillTypes ==
  ASSUME TypeOK, LocalsBound, StopKill
  PROVE  TypeOK'
<1> USE TypeSplit
<1>1. ProcType'
  BY ProcFields, StatusNames, MaybeTrees DEF StopKill, ProcType, ProcRecords
<1>2. UserType'
  BY UserMoves DEF StopKill, UserPcs
<1>3. CountTypes'
  BY CronAssumption DEF StopKill, UserStep, rest, CountTypes, LocalsBound, MaybeTree,
     Trees, NoTree, ProcType, ProcRecords
<1>4. FlagTypes' /\ RunType' /\ WatchType'
  BY DEF StopKill, rest, FlagTypes, RunType, WatchType
<1> QED BY <1>1, <1>2, <1>3, <1>4, PTL

LEMMA StopKillKeeps ==
  ASSUME TypeOK, IInv, StopKill
  PROVE  TypeOK' /\ IInv'
<1> USE DEF IInv
<1>1. TypeOK'
  BY StopKillTypes
<1>2. LocalsBound'
  BY <1>1 DEF TypeOK, Statuses, MaybeTree, Trees, StopKill, NoTree, UserStep, rest,
     LocalsBound
<1>3. RunsBound'
  BY <1>1 DEF TypeOK, Statuses, MaybeTree, Trees, StopKill, NoTree, UserStep, rest,
     RunsBound, Opening, Base, Shown, StopBound
<1>4. WatchesBound'
  BY <1>1 DEF TypeOK, Statuses, MaybeTree, Trees, StopKill, NoTree, UserStep, rest,
     WatchesBound, Base, Shown, StopBound
<1>5. SpawnBound'
  BY <1>1 DEF TypeOK, Statuses, MaybeTree, Trees, StopKill, NoTree, UserStep, rest,
     SpawnBound, Opening
<1>6. StopBound'
  BY <1>1 DEF TypeOK, Statuses, MaybeTree, Trees, StopKill, NoTree, UserStep, rest,
     StopBound
<1>7. StatusMeans'
  BY <1>1 DEF TypeOK, Statuses, MaybeTree, Trees, StopKill, NoTree, UserStep, rest,
     StatusMeans, Shown, StopBound
<1>8. TreesOwned'
  BY <1>1 DEF TypeOK, Statuses, MaybeTree, Trees, StopKill, NoTree, UserStep, rest,
     TreesOwned, Tentative
<1>9. StopsCount'
  BY <1>1 DEF TypeOK, Statuses, MaybeTree, Trees, StopKill, NoTree, UserStep, rest,
     StopsCount, Base, StopBound
<1>10. EnabledInv'
  BY <1>1 DEF TypeOK, Statuses, MaybeTree, Trees, StopKill, NoTree, UserStep, rest,
     EnabledInv, Disabling
<1>11. ScheduleInv'
  BY <1>1 DEF TypeOK, Statuses, MaybeTree, Trees, StopKill, NoTree, UserStep, rest,
     ScheduleInv, Shown, Disabling, StopBound
<1> QED BY <1>1, <1>2, <1>3, <1>4, <1>5, <1>6, <1>7, <1>8, <1>9, <1>10, <1>11

LEMMA StopFailTypes ==
  ASSUME TypeOK, LocalsBound, StopFail
  PROVE  TypeOK'
<1> USE TypeSplit
<1>1. ProcType'
  BY UserFields DEF StopFail, ProcType, ProcRecords
<1>2. UserType'
  BY UserMoves DEF StopFail, UserPcs
<1>3. CountTypes'
  BY CronAssumption DEF StopFail, Fault, UserStep, Done, rest, IdleUser, CountTypes,
     LocalsBound, MaybeTree, Trees, NoTree, ProcType, ProcRecords
<1>4. FlagTypes' /\ RunType' /\ WatchType'
  BY DEF StopFail, rest, FlagTypes, RunType, WatchType
<1> QED BY <1>1, <1>2, <1>3, <1>4, PTL

LEMMA StopFailKeeps ==
  ASSUME TypeOK, IInv, StopFail
  PROVE  TypeOK' /\ IInv'
<1> USE DEF IInv
<1>1. TypeOK'
  BY StopFailTypes
<1>2. LocalsBound'
  BY <1>1 DEF TypeOK, Statuses, MaybeTree, Trees, StopFail, NoTree, Fault, UserStep,
     Done, rest, IdleUser, LocalsBound
<1>3. RunsBound'
  BY <1>1 DEF TypeOK, Statuses, MaybeTree, Trees, StopFail, NoTree, Fault, UserStep,
     Done, rest, IdleUser, RunsBound, Opening, Base, Shown
<1>4. WatchesBound'
  BY <1>1 DEF TypeOK, Statuses, MaybeTree, Trees, StopFail, NoTree, Fault, UserStep,
     Done, rest, IdleUser, WatchesBound, Base, Shown
<1>5. SpawnBound'
  BY <1>1 DEF TypeOK, Statuses, MaybeTree, Trees, StopFail, NoTree, Fault, UserStep,
     Done, rest, IdleUser, SpawnBound, Opening
<1>6. StopBound'
  BY <1>1 DEF TypeOK, Statuses, MaybeTree, Trees, StopFail, NoTree, Fault, UserStep,
     Done, rest, IdleUser, StopBound
<1>7. StatusMeans'
  BY <1>1 DEF TypeOK, Statuses, MaybeTree, Trees, StopFail, NoTree, Fault, UserStep,
     Done, rest, IdleUser, StatusMeans, Shown, StopBound
<1>8. TreesOwned'
  BY <1>1 DEF TypeOK, Statuses, MaybeTree, Trees, StopFail, NoTree, Fault, UserStep,
     Done, rest, IdleUser, TreesOwned, Tentative
<1>9. StopsCount'
  BY <1>1 DEF TypeOK, Statuses, MaybeTree, Trees, StopFail, NoTree, Fault, UserStep,
     Done, rest, IdleUser, StopsCount, Base
<1>10. EnabledInv'
  BY <1>1 DEF TypeOK, Statuses, MaybeTree, Trees, StopFail, NoTree, Fault, UserStep,
     Done, rest, IdleUser, EnabledInv, Disabling, StopBound
<1>11. ScheduleInv'
  BY <1>1 DEF TypeOK, Statuses, MaybeTree, Trees, StopFail, NoTree, Fault, UserStep,
     Done, rest, IdleUser, ScheduleInv, Shown, Disabling, StopBound
<1> QED BY <1>1, <1>2, <1>3, <1>4, <1>5, <1>6, <1>7, <1>8, <1>9, <1>10, <1>11

LEMMA ToggleUndoTypes ==
  ASSUME TypeOK, LocalsBound, ToggleUndo
  PROVE  TypeOK'
<1> USE TypeSplit
<1>1. ProcType'
  BY UserFields DEF ToggleUndo, ProcType, ProcRecords
<1>2. UserType'
  BY UserMoves DEF ToggleUndo, UserPcs
<1>3. FlagTypes' /\ RunType' /\ WatchType' /\ CountTypes'
  BY DEF ToggleUndo, rest, FlagTypes, RunType, WatchType, CountTypes
<1> QED BY <1>1, <1>2, <1>3, PTL

LEMMA ToggleUndoKeeps ==
  ASSUME TypeOK, IInv, ToggleUndo
  PROVE  TypeOK' /\ IInv'
<1> USE DEF IInv
<1>1. TypeOK'
  BY ToggleUndoTypes
<1>2. LocalsBound'
  BY <1>1 DEF TypeOK, Statuses, MaybeTree, Trees, ToggleUndo, UserStep, Done, rest,
     IdleUser, NoTree, LocalsBound
<1>3. RunsBound'
  BY <1>1 DEF TypeOK, Statuses, MaybeTree, Trees, ToggleUndo, UserStep, Done, rest,
     IdleUser, NoTree, RunsBound, Opening, Base, Shown
<1>4. WatchesBound'
  BY <1>1 DEF TypeOK, Statuses, MaybeTree, Trees, ToggleUndo, UserStep, Done, rest,
     IdleUser, NoTree, WatchesBound, Base, Shown
<1>5. SpawnBound'
  BY <1>1 DEF TypeOK, Statuses, MaybeTree, Trees, ToggleUndo, UserStep, Done, rest,
     IdleUser, NoTree, SpawnBound, Opening
<1>6. StopBound'
  BY <1>1 DEF TypeOK, Statuses, MaybeTree, Trees, ToggleUndo, UserStep, Done, rest,
     IdleUser, NoTree, StopBound
<1>7. StatusMeans'
  BY <1>1 DEF TypeOK, Statuses, MaybeTree, Trees, ToggleUndo, UserStep, Done, rest,
     IdleUser, NoTree, StatusMeans, Shown
<1>8. TreesOwned'
  BY <1>1 DEF TypeOK, Statuses, MaybeTree, Trees, ToggleUndo, UserStep, Done, rest,
     IdleUser, NoTree, TreesOwned, Tentative
<1>9. StopsCount'
  BY <1>1 DEF TypeOK, Statuses, MaybeTree, Trees, ToggleUndo, UserStep, Done, rest,
     IdleUser, NoTree, StopsCount, Base
<1>10. EnabledInv'
  BY <1>1 DEF TypeOK, Statuses, MaybeTree, Trees, ToggleUndo, UserStep, Done, rest,
     IdleUser, NoTree, EnabledInv, Disabling, LocalsBound, RunsBound, Opening, Base,
     Shown
<1>11. ScheduleInv'
  BY <1>1 DEF TypeOK, Statuses, MaybeTree, Trees, ToggleUndo, UserStep, Done, rest,
     IdleUser, NoTree, ScheduleInv, Shown, Disabling, LocalsBound, RunsBound, Opening,
     Base, WatchesBound, SpawnBound, StopBound, StatusMeans, TreesOwned, Tentative,
     StopsCount, EnabledInv
<1> QED BY <1>1, <1>2, <1>3, <1>4, <1>5, <1>6, <1>7, <1>8, <1>9, <1>10, <1>11

LEMMA StopUnscheduleTypes ==
  ASSUME TypeOK, LocalsBound, StopUnschedule
  PROVE  TypeOK'
<1> USE TypeSplit
<1>1. FlagTypes'
  BY Zenon DEF StopUnschedule, UserStep, rest, FlagTypes
<1>2. UserType'
  BY UserMoves DEF StopUnschedule, UserPcs
<1>3. ProcType' /\ RunType' /\ WatchType' /\ CountTypes'
  BY DEF StopUnschedule, rest, ProcType, RunType, WatchType, CountTypes
<1> QED BY <1>1, <1>2, <1>3, PTL

LEMMA StopUnscheduleKeeps ==
  ASSUME TypeOK, IInv, StopUnschedule
  PROVE  TypeOK' /\ IInv'
<1> USE DEF IInv
<1>1. TypeOK'
  BY StopUnscheduleTypes
<1>2. LocalsBound'
  BY <1>1 DEF TypeOK, Statuses, MaybeTree, Trees, StopUnschedule, UserStep, rest,
     LocalsBound, NoTree
<1>3. RunsBound'
  BY <1>1 DEF TypeOK, Statuses, MaybeTree, Trees, StopUnschedule, UserStep, rest,
     RunsBound, Opening, Base, Shown, NoTree
<1>4. WatchesBound'
  BY <1>1 DEF TypeOK, Statuses, MaybeTree, Trees, StopUnschedule, UserStep, rest,
     WatchesBound, Base, Shown, NoTree
<1>5. SpawnBound'
  BY <1>1 DEF TypeOK, Statuses, MaybeTree, Trees, StopUnschedule, UserStep, rest,
     SpawnBound, NoTree, Opening
<1>6. StopBound'
  BY <1>1 DEF TypeOK, Statuses, MaybeTree, Trees, StopUnschedule, UserStep, rest,
     StopBound, NoTree
<1>7. StatusMeans'
  BY <1>1 DEF TypeOK, Statuses, MaybeTree, Trees, StopUnschedule, UserStep, rest,
     StatusMeans, Shown, NoTree
<1>8. StopsCount'
  BY <1>1 DEF TypeOK, Statuses, MaybeTree, Trees, StopUnschedule, UserStep, rest,
     StopsCount, Base, NoTree
<1>9. EnabledInv'
  BY <1>1 DEF TypeOK, Statuses, MaybeTree, Trees, StopUnschedule, UserStep, rest,
     EnabledInv, Disabling
<1>10. ScheduleInv'
  BY <1>1 DEF TypeOK, Statuses, MaybeTree, Trees, StopUnschedule, UserStep, rest,
     ScheduleInv, Shown, Disabling, StopBound, NoTree
<1>11. TreesOwned'
  BY DEF StopUnschedule, TreesOwned, Tentative, rest
<1> QED BY <1>1, <1>2, <1>3, <1>4, <1>5, <1>6, <1>7, <1>8, <1>9, <1>10, <1>11

LEMMA StopDoneTypes ==
  ASSUME TypeOK, LocalsBound, StopDone
  PROVE  TypeOK'
<1> USE TypeSplit
<1>1. ProcType'
  BY ProcFields, StatusNames, MaybeTrees DEF StopDone, Resume, ProcType, ProcRecords
<1>2. UserType'
  BY UserMoves DEF StopDone, Resume, UserPcs
<1>3. CountTypes'
  BY CronAssumption DEF StopDone, Resume, Done, UserStep, rest, IdleUser, CountTypes,
     LocalsBound, MaybeTree, Trees, NoTree, ProcType, ProcRecords
<1>4. FlagTypes' /\ RunType' /\ WatchType'
  BY DEF StopDone, rest, FlagTypes, RunType, WatchType
<1> QED BY <1>1, <1>2, <1>3, <1>4, PTL

LEMMA StopDoneKeeps ==
  ASSUME TypeOK, IInv, StopDone
  PROVE  TypeOK' /\ IInv'
<1> USE DEF IInv
<1>1. TypeOK'
  BY StopDoneTypes
<1>2. LocalsBound'
  BY <1>1 DEF TypeOK, Statuses, MaybeTree, Trees, StopDone, NoTree, Resume, Done,
     UserStep, rest, IdleUser, LocalsBound
<1>3. RunsBound'
  BY <1>1 DEF TypeOK, Statuses, MaybeTree, Trees, StopDone, NoTree, Resume, Done,
     UserStep, rest, IdleUser, RunsBound, Opening, Base, Shown, StopBound
<1>4. WatchesBound'
  BY <1>1 DEF TypeOK, Statuses, MaybeTree, Trees, StopDone, NoTree, Resume, Done,
     UserStep, rest, IdleUser, WatchesBound, Base, Shown, StopBound
<1>5. SpawnBound'
  BY <1>1 DEF TypeOK, Statuses, MaybeTree, Trees, StopDone, NoTree, Resume, Done,
     UserStep, rest, IdleUser, SpawnBound, Opening
<1>6. StopBound'
  BY <1>1 DEF TypeOK, Statuses, MaybeTree, Trees, StopDone, NoTree, Resume, Done,
     UserStep, rest, IdleUser, StopBound
<1>7. StatusMeans'
  BY <1>1 DEF TypeOK, Statuses, MaybeTree, Trees, StopDone, NoTree, Resume, Done,
     UserStep, rest, IdleUser, StatusMeans, Shown, StopBound
<1>8. TreesOwned'
  BY <1>1 DEF TypeOK, Statuses, MaybeTree, Trees, StopDone, NoTree, Resume, Done,
     UserStep, rest, IdleUser, TreesOwned, Tentative, StopBound
<1>9. StopsCount'
  BY <1>1 DEF TypeOK, Statuses, MaybeTree, Trees, StopDone, NoTree, Resume, Done,
     UserStep, rest, IdleUser, StopsCount, Base, StopBound
<1>10. EnabledInv'
  BY <1>1 DEF TypeOK, Statuses, MaybeTree, Trees, StopDone, NoTree, Resume, Done,
     UserStep, rest, IdleUser, EnabledInv, Disabling
<1>11. ScheduleInv'
  BY <1>1 DEF TypeOK, Statuses, MaybeTree, Trees, StopDone, NoTree, Resume, Done,
     UserStep, rest, IdleUser, ScheduleInv, Shown, Disabling
<1> QED BY <1>1, <1>2, <1>3, <1>4, <1>5, <1>6, <1>7, <1>8, <1>9, <1>10, <1>11

LEMMA RemoveTypes ==
  ASSUME TypeOK, LocalsBound, Remove
  PROVE  TypeOK'
<1> USE TypeSplit
<1>1. FlagTypes'
  BY Zenon DEF Remove, Done, IdleUser, FlagTypes
<1>2. UserType'
  BY UserMoves DEF Remove, UserPcs
<1>3. ProcType' /\ RunType' /\ WatchType' /\ CountTypes'
  BY DEF Remove, ProcType, RunType, WatchType, CountTypes
<1> QED BY <1>1, <1>2, <1>3, PTL

LEMMA RemoveKeeps ==
  ASSUME TypeOK, IInv, Remove
  PROVE  TypeOK' /\ IInv'
<1> USE DEF IInv
<1>1. TypeOK'
  BY RemoveTypes
<1>2. LocalsBound'
  BY <1>1 DEF TypeOK, Statuses, MaybeTree, Trees, Remove, Done, IdleUser, NoTree,
     LocalsBound
<1>3. RunsBound'
  BY <1>1 DEF TypeOK, Statuses, MaybeTree, Trees, Remove, Done, IdleUser, NoTree,
     RunsBound, Opening, Base, Shown
<1>4. WatchesBound'
  BY <1>1 DEF TypeOK, Statuses, MaybeTree, Trees, Remove, Done, IdleUser, NoTree,
     WatchesBound, Base, Shown
<1>5. SpawnBound'
  BY <1>1 DEF TypeOK, Statuses, MaybeTree, Trees, Remove, Done, IdleUser, NoTree,
     SpawnBound, Opening
<1>6. StopBound'
  BY <1>1 DEF TypeOK, Statuses, MaybeTree, Trees, Remove, Done, IdleUser, NoTree,
     StopBound
<1>7. StatusMeans'
  BY <1>1 DEF TypeOK, Statuses, MaybeTree, Trees, Remove, Done, IdleUser, NoTree,
     StatusMeans, Shown
<1>8. StopsCount'
  BY <1>1 DEF TypeOK, Statuses, MaybeTree, Trees, Remove, Done, IdleUser, NoTree,
     StopsCount, Base
<1>9. EnabledInv'
  BY <1>1 DEF TypeOK, Statuses, MaybeTree, Trees, Remove, Done, IdleUser, NoTree,
     EnabledInv, Disabling
<1>10. ScheduleInv'
  BY <1>1 DEF TypeOK, Statuses, MaybeTree, Trees, Remove, Done, IdleUser, NoTree,
     ScheduleInv, Shown, Disabling, StopBound
<1>11. TreesOwned'
  BY DEF Remove, TreesOwned, Tentative
<1> QED BY <1>1, <1>2, <1>3, <1>4, <1>5, <1>6, <1>7, <1>8, <1>9, <1>10, <1>11

LEMMA SpawnBeginTypes ==
  ASSUME TypeOK, LocalsBound, SpawnBegin
  PROVE  TypeOK'
<1> USE TypeSplit
<1>1. ProcType'
  <2>1. PICK n \in Nat : n = proc.gen + 1
    BY NextGen
  <2>2. \/ proc' = proc
        \/ proc' = [proc EXCEPT !.desired = TRUE, !.gen = n, !.status = "Starting"]
    BY <2>1 DEF SpawnBegin
  <2> QED BY <2>2, StatusNames DEF ProcType, ProcRecords
<1>2. UserType'
  <2>1. PICK n \in Nat : n = proc.gen + 1
    BY NextGen
  <2>2. \/ user' = IdleUser
        \/ user' = [user EXCEPT !.pc = "exec", !.gen = n]
    BY <2>1 DEF SpawnBegin, Done
  <2>3. "exec" \in UserPcs
    BY DEF UserPcs
  <2> QED BY <2>2, <2>3, UserIdles DEF UserType, UserRecords
<1>3. FlagTypes' /\ RunType' /\ WatchType' /\ CountTypes'
  BY DEF SpawnBegin, rest, FlagTypes, RunType, WatchType, CountTypes
<1> QED BY <1>1, <1>2, <1>3, PTL

LEMMA SpawnBeginKeeps ==
  ASSUME TypeOK, IInv, SpawnBegin
  PROVE  TypeOK' /\ IInv'
<1> USE DEF IInv
<1>1. TypeOK'
  BY SpawnBeginTypes
<1>2. CASE proc.enabled /\ ~Busy(proc.status) /\ proc.tree = NoTree
  <2>1. /\ user.pc = "begin"
        /\ proc' = [proc EXCEPT !.desired = TRUE, !.gen = @ + 1, !.status = "Starting"]
        /\ user' = [user EXCEPT !.pc = "exec", !.gen = proc.gen + 1]
        /\ UNCHANGED <<sched, alive, stopGen, budget, rest>>
    BY <1>2 DEF SpawnBegin
  <2>2. LocalsBound'
    BY <1>1, <1>2, <2>1 DEF TypeOK, Statuses, MaybeTree, Trees, LocalsBound, NoTree,
       rest, Busy
  <2>3. RunsBound'
    BY <1>1, <1>2, <2>1 DEF TypeOK, Statuses, MaybeTree, Trees, RunsBound, Opening,
       Base, Shown, NoTree, rest, Busy
  <2>4. WatchesBound'
    BY <1>1, <1>2, <2>1 DEF TypeOK, Statuses, MaybeTree, Trees, WatchesBound, Base,
       Shown, NoTree, rest, Busy
  <2>5. SpawnBound'
    BY <1>1, <1>2, <2>1 DEF TypeOK, Statuses, MaybeTree, Trees, SpawnBound, NoTree,
       Opening, RunsBound, Base, Shown, WatchesBound, rest, Busy
  <2>6. StopBound'
    BY <1>1, <1>2, <2>1 DEF TypeOK, Statuses, MaybeTree, Trees, StopBound, NoTree,
       rest, Busy
  <2>7. StatusMeans'
    BY <1>1, <1>2, <2>1 DEF TypeOK, Statuses, MaybeTree, Trees, StatusMeans, Shown,
       NoTree, rest, Busy
  <2>8. TreesOwned'
    BY <1>1, <1>2, <2>1 DEF TypeOK, Statuses, MaybeTree, Trees, TreesOwned, Tentative,
       rest, Busy, NoTree
  <2>9. StopsCount'
    BY <1>1, <1>2, <2>1 DEF TypeOK, Statuses, MaybeTree, Trees, StopsCount, Base,
       NoTree, rest, Busy
  <2>10. EnabledInv'
    BY <1>1, <1>2, <2>1 DEF TypeOK, Statuses, MaybeTree, Trees, EnabledInv, Disabling,
       rest, Busy, NoTree
  <2>11. ScheduleInv'
    BY <1>1, <1>2, <2>1 DEF TypeOK, Statuses, MaybeTree, Trees, ScheduleInv, Shown,
       Disabling, rest, Busy, NoTree
  <2> QED BY <1>1, <2>2, <2>3, <2>4, <2>5, <2>6, <2>7, <2>8, <2>9, <2>10, <2>11
<1>3. CASE ~(proc.enabled /\ ~Busy(proc.status) /\ proc.tree = NoTree)
  <2>1. LocalsBound'
    BY <1>1, <1>3 DEF TypeOK, Statuses, MaybeTree, Trees, SpawnBegin, Busy, NoTree,
       Done, rest, IdleUser, LocalsBound
  <2>2. RunsBound'
    BY <1>1, <1>3 DEF TypeOK, Statuses, MaybeTree, Trees, SpawnBegin, Busy, NoTree,
       Done, rest, IdleUser, RunsBound, Opening, Base, Shown
  <2>3. WatchesBound'
    BY <1>1, <1>3 DEF TypeOK, Statuses, MaybeTree, Trees, SpawnBegin, Busy, NoTree,
       Done, rest, IdleUser, WatchesBound, Base, Shown
  <2>4. SpawnBound'
    BY <1>1, <1>3 DEF TypeOK, Statuses, MaybeTree, Trees, SpawnBegin, Busy, NoTree,
       Done, rest, IdleUser, SpawnBound, Opening
  <2>5. StopBound'
    BY <1>1, <1>3 DEF TypeOK, Statuses, MaybeTree, Trees, SpawnBegin, Busy, NoTree,
       Done, rest, IdleUser, StopBound
  <2>6. StatusMeans'
    BY <1>1, <1>3 DEF TypeOK, Statuses, MaybeTree, Trees, SpawnBegin, Busy, NoTree,
       Done, rest, IdleUser, StatusMeans, Shown
  <2>7. TreesOwned'
    BY <1>1, <1>3 DEF TypeOK, Statuses, MaybeTree, Trees, SpawnBegin, Busy, NoTree,
       Done, rest, IdleUser, TreesOwned, Tentative
  <2>8. StopsCount'
    BY <1>1, <1>3 DEF TypeOK, Statuses, MaybeTree, Trees, SpawnBegin, Busy, NoTree,
       Done, rest, IdleUser, StopsCount, Base
  <2>9. EnabledInv'
    BY <1>1, <1>3 DEF TypeOK, Statuses, MaybeTree, Trees, SpawnBegin, Busy, NoTree,
       Done, rest, IdleUser, EnabledInv, Disabling
  <2>10. ScheduleInv'
    BY <1>1, <1>3 DEF TypeOK, Statuses, MaybeTree, Trees, SpawnBegin, Busy, NoTree,
       Done, rest, IdleUser, ScheduleInv, Shown, Disabling
  <2> QED BY <1>1, <2>1, <2>2, <2>3, <2>4, <2>5, <2>6, <2>7, <2>8, <2>9, <2>10
<1> QED BY <1>1, <1>2, <1>3

LEMMA SpawnFailTypes ==
  ASSUME TypeOK, LocalsBound, SpawnFail
  PROVE  TypeOK'
<1> USE TypeSplit
<1>1. ProcType'
  BY ErroredType DEF SpawnFail, ProcType
<1>2. UserType'
  BY UserMoves DEF SpawnFail, UserPcs
<1>3. CountTypes'
  BY CronAssumption DEF SpawnFail, Fault, Errored, Done, rest, IdleUser, CountTypes,
     LocalsBound, MaybeTree, Trees, NoTree, ProcType, ProcRecords
<1>4. FlagTypes' /\ RunType' /\ WatchType'
  BY DEF SpawnFail, rest, FlagTypes, RunType, WatchType
<1> QED BY <1>1, <1>2, <1>3, <1>4, PTL

LEMMA SpawnFailKeeps ==
  ASSUME TypeOK, IInv, SpawnFail
  PROVE  TypeOK' /\ IInv'
<1> USE DEF IInv
<1>1. TypeOK'
  BY SpawnFailTypes
<1>2. LocalsBound'
  BY <1>1 DEF TypeOK, Statuses, MaybeTree, Trees, SpawnFail, Fault, Current, Errored,
     Done, rest, NoTree, IdleUser, LocalsBound
<1>3. RunsBound'
  BY <1>1 DEF TypeOK, Statuses, MaybeTree, Trees, SpawnFail, Fault, Current, Errored,
     Done, rest, NoTree, IdleUser, RunsBound, Opening, Base, Shown
<1>4. WatchesBound'
  BY <1>1 DEF TypeOK, Statuses, MaybeTree, Trees, SpawnFail, Fault, Current, Errored,
     Done, rest, NoTree, IdleUser, WatchesBound, Base, Shown
<1>5. SpawnBound'
  BY <1>1 DEF TypeOK, Statuses, MaybeTree, Trees, SpawnFail, Fault, Current, Errored,
     Done, rest, NoTree, IdleUser, SpawnBound, Opening
<1>6. StopBound'
  BY <1>1 DEF TypeOK, Statuses, MaybeTree, Trees, SpawnFail, Fault, Current, Errored,
     Done, rest, NoTree, IdleUser, StopBound
<1>7. StatusMeans'
  BY <1>1 DEF TypeOK, Statuses, MaybeTree, Trees, SpawnFail, Fault, Current, Errored,
     Done, rest, NoTree, IdleUser, StatusMeans, Shown
<1>8. TreesOwned'
  BY <1>1 DEF TypeOK, Statuses, MaybeTree, Trees, SpawnFail, Fault, Current, Errored,
     Done, rest, NoTree, IdleUser, TreesOwned, Tentative, RunsBound, Opening, Base,
     Shown, WatchesBound, StopBound, SpawnBound
<1>9. StopsCount'
  BY <1>1 DEF TypeOK, Statuses, MaybeTree, Trees, SpawnFail, Fault, Current, Errored,
     Done, rest, NoTree, IdleUser, StopsCount, Base
<1>10. EnabledInv'
  BY <1>1 DEF TypeOK, Statuses, MaybeTree, Trees, SpawnFail, Fault, Current, Errored,
     Done, rest, NoTree, IdleUser, EnabledInv, Disabling, StatusMeans, Shown,
     StopBound
<1>11. ScheduleInv'
  BY <1>1 DEF TypeOK, Statuses, MaybeTree, Trees, SpawnFail, Fault, Current, Errored,
     Done, rest, NoTree, IdleUser, ScheduleInv, Shown, Disabling, RunsBound, Opening,
     Base, WatchesBound, StopBound, SpawnBound
<1> QED BY <1>1, <1>2, <1>3, <1>4, <1>5, <1>6, <1>7, <1>8, <1>9, <1>10, <1>11

LEMMA SpawnExecTypes ==
  ASSUME TypeOK, LocalsBound, SpawnExec
  PROVE  TypeOK'
<1> USE TypeSplit
<1>1. ProcType'
  <2>1. PICK t \in Trees : t = spawned + 1
    BY NextTree DEF SpawnExec
  <2>2. proc' = [proc EXCEPT !.tree = t]
    BY <2>1 DEF SpawnExec
  <2> QED BY <2>2, MaybeTrees DEF ProcType, ProcRecords
<1>2. UserType'
  <2>1. PICK t \in Trees : t = spawned + 1
    BY NextTree DEF SpawnExec
  <2>2. user' = [user EXCEPT !.pc = "schedule", !.child = t]
    BY <2>1 DEF SpawnExec
  <2> QED BY <2>2, MaybeTrees DEF UserType, UserRecords, UserPcs
<1>3. CountTypes'
  BY CronAssumption DEF SpawnExec, CountTypes, LocalsBound, MaybeTree, Trees, NoTree,
     ProcType, ProcRecords
<1>4. FlagTypes' /\ RunType' /\ WatchType'
  BY DEF SpawnExec, FlagTypes, RunType, WatchType
<1> QED BY <1>1, <1>2, <1>3, <1>4, PTL

LEMMA SpawnExecKeeps ==
  ASSUME TypeOK, IInv, SpawnExec
  PROVE  TypeOK' /\ IInv'
<1> USE DEF IInv
<1>1. TypeOK'
  BY SpawnExecTypes
<1>2. LocalsBound'
  BY <1>1 DEF TypeOK, Statuses, MaybeTree, Trees, SpawnExec, LocalsBound, NoTree
<1>3. RunsBound'
  BY <1>1 DEF TypeOK, Statuses, MaybeTree, Trees, SpawnExec, RunsBound, Opening, Base,
     Shown, NoTree, WatchesBound, StopBound, SpawnBound
<1>4. WatchesBound'
  BY <1>1 DEF TypeOK, Statuses, MaybeTree, Trees, SpawnExec, WatchesBound, Base,
     Shown, NoTree, RunsBound, Opening, StopBound, SpawnBound
<1>5. SpawnBound'
  BY <1>1 DEF TypeOK, Statuses, MaybeTree, Trees, SpawnExec, SpawnBound, NoTree,
     Opening
<1>6. StopBound'
  BY <1>1 DEF TypeOK, Statuses, MaybeTree, Trees, SpawnExec, StopBound, NoTree
<1>7. StatusMeans'
  BY <1>1 DEF TypeOK, Statuses, MaybeTree, Trees, SpawnExec, StatusMeans, Shown,
     NoTree, RunsBound, Opening, Base, WatchesBound, StopBound, SpawnBound
<1>8. TreesOwned'
  BY <1>1 DEF TypeOK, Statuses, MaybeTree, Trees, SpawnExec, TreesOwned, Tentative,
     RunsBound, Opening, Base, Shown, NoTree, WatchesBound, StopBound, SpawnBound
<1>9. StopsCount'
  BY <1>1 DEF TypeOK, Statuses, MaybeTree, Trees, SpawnExec, StopsCount, Base, NoTree,
     RunsBound, Opening, Shown, WatchesBound, StopBound, SpawnBound
<1>10. EnabledInv'
  BY <1>1 DEF TypeOK, Statuses, MaybeTree, Trees, SpawnExec, EnabledInv, Disabling
<1>11. ScheduleInv'
  BY <1>1 DEF TypeOK, Statuses, MaybeTree, Trees, SpawnExec, ScheduleInv, Shown,
     Disabling
<1> QED BY <1>1, <1>2, <1>3, <1>4, <1>5, <1>6, <1>7, <1>8, <1>9, <1>10, <1>11

LEMMA SpawnScheduleTypes ==
  ASSUME TypeOK, LocalsBound, SpawnSchedule
  PROVE  TypeOK'
<1> USE TypeSplit
<1>1. FlagTypes'
  BY Zenon DEF SpawnSchedule, UserStep, rest, FlagTypes
<1>2. UserType'
  BY UserMoves DEF SpawnSchedule, UserPcs
<1>3. ProcType' /\ RunType' /\ WatchType' /\ CountTypes'
  BY DEF SpawnSchedule, rest, ProcType, RunType, WatchType, CountTypes
<1> QED BY <1>1, <1>2, <1>3, PTL

LEMMA SpawnScheduleKeeps ==
  ASSUME TypeOK, IInv, SpawnSchedule
  PROVE  TypeOK' /\ IInv'
<1> USE DEF IInv
<1>1. TypeOK'
  BY SpawnScheduleTypes
<1>2. LocalsBound'
  BY <1>1 DEF TypeOK, Statuses, MaybeTree, Trees, SpawnSchedule, UserStep, rest,
     LocalsBound, NoTree
<1>3. RunsBound'
  BY <1>1 DEF TypeOK, Statuses, MaybeTree, Trees, SpawnSchedule, UserStep, rest,
     RunsBound, Opening, Base, Shown, NoTree
<1>4. WatchesBound'
  BY <1>1 DEF TypeOK, Statuses, MaybeTree, Trees, SpawnSchedule, UserStep, rest,
     WatchesBound, Base, Shown, NoTree
<1>5. SpawnBound'
  BY <1>1 DEF TypeOK, Statuses, MaybeTree, Trees, SpawnSchedule, UserStep, rest,
     SpawnBound, NoTree, Opening
<1>6. StopBound'
  BY <1>1 DEF TypeOK, Statuses, MaybeTree, Trees, SpawnSchedule, UserStep, rest,
     StopBound, NoTree
<1>7. StatusMeans'
  BY <1>1 DEF TypeOK, Statuses, MaybeTree, Trees, SpawnSchedule, UserStep, rest,
     StatusMeans, Shown, NoTree
<1>8. StopsCount'
  BY <1>1 DEF TypeOK, Statuses, MaybeTree, Trees, SpawnSchedule, UserStep, rest,
     StopsCount, Base, NoTree
<1>9. EnabledInv'
  BY <1>1 DEF TypeOK, Statuses, MaybeTree, Trees, SpawnSchedule, UserStep, rest,
     EnabledInv, Disabling
<1>10. ScheduleInv'
  BY <1>1 DEF TypeOK, Statuses, MaybeTree, Trees, SpawnSchedule, UserStep, rest,
     ScheduleInv, Shown, Disabling, RunsBound, Opening, Base, NoTree, WatchesBound,
     StopBound, SpawnBound
<1>11. TreesOwned'
  BY DEF SpawnSchedule, TreesOwned, Tentative, rest
<1> QED BY <1>1, <1>2, <1>3, <1>4, <1>5, <1>6, <1>7, <1>8, <1>9, <1>10, <1>11

LEMMA SpawnCommitTypes ==
  ASSUME TypeOK, LocalsBound, SpawnCommit
  PROVE  TypeOK'
<1> USE TypeSplit
<1>1. ProcType'
  BY ProcFields, StatusNames, MaybeTrees DEF SpawnCommit, ProcType, ProcRecords
<1>2. WatchType'
  BY CronAssumption DEF SpawnCommit, Done, IdleUser, WatchType, LocalsBound,
     MaybeTree, Trees, NoTree, RunType, UserType, UserRecords
<1>3. UserType'
  BY UserMoves DEF SpawnCommit, UserPcs
<1>4. FlagTypes' /\ RunType' /\ CountTypes'
  BY DEF SpawnCommit, FlagTypes, RunType, CountTypes
<1> QED BY <1>1, <1>2, <1>3, <1>4, PTL

LEMMA SpawnCommitKeeps ==
  ASSUME TypeOK, IInv, SpawnCommit
  PROVE  TypeOK' /\ IInv'
<1> USE DEF IInv
<1>1. TypeOK'
  BY SpawnCommitTypes
<1>2. LocalsBound'
  BY <1>1 DEF TypeOK, Statuses, MaybeTree, Trees, SpawnCommit, Done, IdleUser, NoTree,
     LocalsBound
<1>3. RunsBound'
  BY <1>1 DEF TypeOK, Statuses, MaybeTree, Trees, SpawnCommit, Done, IdleUser, NoTree,
     RunsBound, Opening, Base, Shown, WatchesBound, StopBound, SpawnBound
<1>4. WatchesBound'
  BY <1>1 DEF TypeOK, Statuses, MaybeTree, Trees, SpawnCommit, Done, IdleUser, NoTree,
     WatchesBound, Base, Shown, RunsBound, Opening, StopBound, SpawnBound
<1>5. SpawnBound'
  BY <1>1 DEF TypeOK, Statuses, MaybeTree, Trees, SpawnCommit, Done, IdleUser, NoTree,
     SpawnBound, Opening
<1>6. StopBound'
  BY <1>1 DEF TypeOK, Statuses, MaybeTree, Trees, SpawnCommit, Done, IdleUser, NoTree,
     StopBound
<1>7. StatusMeans'
  BY <1>1 DEF TypeOK, Statuses, MaybeTree, Trees, SpawnCommit, Done, IdleUser, NoTree,
     StatusMeans, Shown
<1>8. TreesOwned'
  BY <1>1 DEF TypeOK, Statuses, MaybeTree, Trees, SpawnCommit, Done, IdleUser, NoTree,
     TreesOwned, Tentative
<1>9. StopsCount'
  BY <1>1 DEF TypeOK, Statuses, MaybeTree, Trees, SpawnCommit, Done, IdleUser, NoTree,
     StopsCount, Base
<1>10. EnabledInv'
  BY <1>1 DEF TypeOK, Statuses, MaybeTree, Trees, SpawnCommit, Done, IdleUser, NoTree,
     EnabledInv, Disabling, RunsBound, Opening, Base, Shown, WatchesBound, StopBound,
     SpawnBound
<1>11. ScheduleInv'
  BY <1>1 DEF TypeOK, Statuses, MaybeTree, Trees, SpawnCommit, Done, IdleUser, NoTree,
     ScheduleInv, Shown, Disabling, RunsBound, Opening, Base, WatchesBound, StopBound,
     SpawnBound
<1> QED BY <1>1, <1>2, <1>3, <1>4, <1>5, <1>6, <1>7, <1>8, <1>9, <1>10, <1>11

LEMMA ToggleOffTypes ==
  ASSUME TypeOK, LocalsBound, ToggleOff
  PROVE  TypeOK'
<1> USE TypeSplit
<1>1. ProcType'
  <2>1. PICK n \in Nat : n = proc.gen + 1
    BY NextGen
  <2>2. \/ proc' = [proc EXCEPT !.enabled = FALSE]
        \/ proc' = [proc EXCEPT !.enabled = FALSE, !.desired = FALSE, !.gen = n,
                               !.status = "Stopped"]
    BY <2>1 DEF ToggleOff
  <2> QED BY <2>2, StatusNames DEF ProcType, ProcRecords
<1>2. UserType'
  <2>1. \E p \in {"cancel", "cancelled"} : user' = [user EXCEPT !.pc = p, !.wasEnabled = proc.enabled]
    BY DEF ToggleOff
  <2> QED BY <2>1, ProcFields DEF UserType, UserRecords, UserPcs
<1>3. FlagTypes' /\ RunType' /\ WatchType' /\ CountTypes'
  BY DEF ToggleOff, rest, FlagTypes, RunType, WatchType, CountTypes
<1> QED BY <1>1, <1>2, <1>3, PTL

LEMMA ToggleOffKeeps ==
  ASSUME TypeOK, IInv, ToggleOff
  PROVE  TypeOK' /\ IInv'
<1> USE DEF IInv
<1>1. TypeOK'
  BY ToggleOffTypes
<1>2. LocalsBound'
  BY <1>1 DEF TypeOK, Statuses, MaybeTree, Trees, ToggleOff, NoTree, rest, LocalsBound
<1>3. RunsBound'
  BY <1>1 DEF TypeOK, Statuses, MaybeTree, Trees, ToggleOff, NoTree, rest, RunsBound,
     Opening, Base, Shown
<1>4. WatchesBound'
  BY <1>1 DEF TypeOK, Statuses, MaybeTree, Trees, ToggleOff, NoTree, rest,
     WatchesBound, Base, Shown
<1>5. SpawnBound'
  BY <1>1 DEF TypeOK, Statuses, MaybeTree, Trees, ToggleOff, NoTree, rest, SpawnBound,
     Opening
<1>6. StopBound'
  BY <1>1 DEF TypeOK, Statuses, MaybeTree, Trees, ToggleOff, NoTree, rest, StopBound
<1>7. StatusMeans'
  BY <1>1 DEF TypeOK, Statuses, MaybeTree, Trees, ToggleOff, NoTree, rest,
     StatusMeans, Shown
<1>8. TreesOwned'
  BY <1>1 DEF TypeOK, Statuses, MaybeTree, Trees, ToggleOff, NoTree, rest, TreesOwned,
     Tentative
<1>9. StopsCount'
  BY <1>1 DEF TypeOK, Statuses, MaybeTree, Trees, ToggleOff, NoTree, rest, StopsCount,
     Base
<1>10. EnabledInv'
  BY <1>1 DEF TypeOK, Statuses, MaybeTree, Trees, ToggleOff, NoTree, rest, EnabledInv,
     Disabling, StatusMeans, Shown, StopBound
<1>11. ScheduleInv'
  BY <1>1 DEF TypeOK, Statuses, MaybeTree, Trees, ToggleOff, NoTree, rest,
     ScheduleInv, Shown, Disabling, StatusMeans, StopBound
<1> QED BY <1>1, <1>2, <1>3, <1>4, <1>5, <1>6, <1>7, <1>8, <1>9, <1>10, <1>11

LEMMA ToggleCancelTypes ==
  ASSUME TypeOK, LocalsBound, ToggleCancel
  PROVE  TypeOK'
<1> USE TypeSplit
<1>1. FlagTypes'
  BY Zenon DEF ToggleCancel, UserStep, Done, rest, IdleUser, FlagTypes
<1>2. UserType'
  BY UserMoves DEF ToggleCancel, UserPcs
<1>3. CountTypes'
  BY CronAssumption DEF ToggleCancel, UserStep, Done, rest, IdleUser, CountTypes,
     LocalsBound, MaybeTree, Trees, NoTree, ProcType, ProcRecords
<1>4. ProcType' /\ RunType' /\ WatchType'
  BY DEF ToggleCancel, rest, ProcType, RunType, WatchType
<1> QED BY <1>1, <1>2, <1>3, <1>4, PTL

LEMMA ToggleCancelKeeps ==
  ASSUME TypeOK, IInv, ToggleCancel
  PROVE  TypeOK' /\ IInv'
<1> USE DEF IInv
<1>1. TypeOK'
  BY ToggleCancelTypes
<1>2. LocalsBound'
  BY <1>1 DEF TypeOK, Statuses, MaybeTree, Trees, ToggleCancel, UserStep, Done, rest,
     IdleUser, NoTree, LocalsBound
<1>3. RunsBound'
  BY <1>1 DEF TypeOK, Statuses, MaybeTree, Trees, ToggleCancel, UserStep, Done, rest,
     IdleUser, NoTree, RunsBound, Opening, Base, Shown
<1>4. WatchesBound'
  BY <1>1 DEF TypeOK, Statuses, MaybeTree, Trees, ToggleCancel, UserStep, Done, rest,
     IdleUser, NoTree, WatchesBound, Base, Shown
<1>5. SpawnBound'
  BY <1>1 DEF TypeOK, Statuses, MaybeTree, Trees, ToggleCancel, UserStep, Done, rest,
     IdleUser, NoTree, SpawnBound, Opening
<1>6. StopBound'
  BY <1>1 DEF TypeOK, Statuses, MaybeTree, Trees, ToggleCancel, UserStep, Done, rest,
     IdleUser, NoTree, StopBound
<1>7. StatusMeans'
  BY <1>1 DEF TypeOK, Statuses, MaybeTree, Trees, ToggleCancel, UserStep, Done, rest,
     IdleUser, NoTree, StatusMeans, Shown
<1>8. StopsCount'
  BY <1>1 DEF TypeOK, Statuses, MaybeTree, Trees, ToggleCancel, UserStep, Done, rest,
     IdleUser, NoTree, StopsCount, Base, StatusMeans, Shown, StopBound
<1>9. EnabledInv'
  BY <1>1 DEF TypeOK, Statuses, MaybeTree, Trees, ToggleCancel, UserStep, Done, rest,
     IdleUser, NoTree, EnabledInv, Disabling, LocalsBound, RunsBound, Opening, Base,
     Shown, WatchesBound, SpawnBound, StopBound, StatusMeans, TreesOwned, Tentative,
     StopsCount, ScheduleInv
<1>10. ScheduleInv'
  BY <1>1 DEF TypeOK, Statuses, MaybeTree, Trees, ToggleCancel, UserStep, Done, rest,
     IdleUser, NoTree, ScheduleInv, Shown, Disabling, LocalsBound, RunsBound, Opening,
     Base, WatchesBound, SpawnBound, StopBound, StatusMeans, TreesOwned, Tentative,
     StopsCount, EnabledInv
<1>11. TreesOwned'
  BY DEF ToggleCancel, TreesOwned, Tentative, rest
<1> QED BY <1>1, <1>2, <1>3, <1>4, <1>5, <1>6, <1>7, <1>8, <1>9, <1>10, <1>11

LEMMA ToggleOnTypes ==
  ASSUME TypeOK, LocalsBound, ToggleOn
  PROVE  TypeOK'
<1> USE TypeSplit
<1>1. ProcType'
  BY ProcFields, StatusNames, MaybeTrees DEF ToggleOn, ProcType, ProcRecords
<1>2. UserType'
  BY UserMoves DEF ToggleOn, UserPcs
<1>3. FlagTypes' /\ RunType' /\ WatchType' /\ CountTypes'
  BY DEF ToggleOn, rest, FlagTypes, RunType, WatchType, CountTypes
<1> QED BY <1>1, <1>2, <1>3, PTL

LEMMA ToggleOnKeeps ==
  ASSUME TypeOK, IInv, ToggleOn
  PROVE  TypeOK' /\ IInv'
<1> USE DEF IInv
<1>1. TypeOK'
  BY ToggleOnTypes
<1>2. LocalsBound'
  BY <1>1 DEF TypeOK, Statuses, MaybeTree, Trees, ToggleOn, NoTree, UserStep, Done,
     rest, IdleUser, LocalsBound
<1>3. RunsBound'
  BY <1>1 DEF TypeOK, Statuses, MaybeTree, Trees, ToggleOn, NoTree, UserStep, Done,
     rest, IdleUser, RunsBound, Opening, Base, Shown
<1>4. WatchesBound'
  BY <1>1 DEF TypeOK, Statuses, MaybeTree, Trees, ToggleOn, NoTree, UserStep, Done,
     rest, IdleUser, WatchesBound, Base, Shown
<1>5. SpawnBound'
  BY <1>1 DEF TypeOK, Statuses, MaybeTree, Trees, ToggleOn, NoTree, UserStep, Done,
     rest, IdleUser, SpawnBound, Opening
<1>6. StopBound'
  BY <1>1 DEF TypeOK, Statuses, MaybeTree, Trees, ToggleOn, NoTree, UserStep, Done,
     rest, IdleUser, StopBound
<1>7. StatusMeans'
  BY <1>1 DEF TypeOK, Statuses, MaybeTree, Trees, ToggleOn, NoTree, UserStep, Done,
     rest, IdleUser, StatusMeans, Shown
<1>8. TreesOwned'
  BY <1>1 DEF TypeOK, Statuses, MaybeTree, Trees, ToggleOn, NoTree, UserStep, Done,
     rest, IdleUser, TreesOwned, Tentative
<1>9. StopsCount'
  BY <1>1 DEF TypeOK, Statuses, MaybeTree, Trees, ToggleOn, NoTree, UserStep, Done,
     rest, IdleUser, StopsCount, Base
<1>10. EnabledInv'
  BY <1>1 DEF TypeOK, Statuses, MaybeTree, Trees, ToggleOn, NoTree, UserStep, Done,
     rest, IdleUser, EnabledInv, Disabling
<1>11. ScheduleInv'
  BY <1>1 DEF TypeOK, Statuses, MaybeTree, Trees, ToggleOn, NoTree, UserStep, Done,
     rest, IdleUser, ScheduleInv, Shown, Disabling
<1> QED BY <1>1, <1>2, <1>3, <1>4, <1>5, <1>6, <1>7, <1>8, <1>9, <1>10, <1>11

LEMMA ToggleSleepTypes ==
  ASSUME TypeOK, LocalsBound, ToggleSleep
  PROVE  TypeOK'
<1> USE TypeSplit
<1>1. ProcType'
  <2>1. PICK n \in Nat : n = proc.gen + 1
    BY NextGen
  <2>2. proc' = [proc EXCEPT !.desired = TRUE, !.gen = n, !.status = "Sleeping"]
    BY <2>1 DEF ToggleSleep
  <2> QED BY <2>2, StatusNames DEF ProcType, ProcRecords
<1>2. UserType'
  BY UserMoves DEF ToggleSleep, UserPcs
<1>3. FlagTypes' /\ RunType' /\ WatchType' /\ CountTypes'
  BY DEF ToggleSleep, rest, FlagTypes, RunType, WatchType, CountTypes
<1> QED BY <1>1, <1>2, <1>3, PTL

LEMMA ToggleSleepKeeps ==
  ASSUME TypeOK, IInv, ToggleSleep
  PROVE  TypeOK' /\ IInv'
<1> USE DEF IInv
<1>1. TypeOK'
  BY ToggleSleepTypes
<1>2. LocalsBound'
  BY <1>1 DEF TypeOK, Statuses, MaybeTree, Trees, ToggleSleep, UserStep, rest,
     LocalsBound, NoTree
<1>3. RunsBound'
  BY <1>1 DEF TypeOK, Statuses, MaybeTree, Trees, ToggleSleep, UserStep, rest,
     RunsBound, Opening, Base, Shown, NoTree
<1>4. WatchesBound'
  BY <1>1 DEF TypeOK, Statuses, MaybeTree, Trees, ToggleSleep, UserStep, rest,
     WatchesBound, Base, Shown, NoTree
<1>5. SpawnBound'
  BY <1>1 DEF TypeOK, Statuses, MaybeTree, Trees, ToggleSleep, UserStep, rest,
     SpawnBound, NoTree, Opening
<1>6. StopBound'
  BY <1>1 DEF TypeOK, Statuses, MaybeTree, Trees, ToggleSleep, UserStep, rest,
     StopBound, NoTree
<1>7. StatusMeans'
  BY <1>1 DEF TypeOK, Statuses, MaybeTree, Trees, ToggleSleep, UserStep, rest,
     StatusMeans, Shown, NoTree, StopBound
<1>8. TreesOwned'
  BY <1>1 DEF TypeOK, Statuses, MaybeTree, Trees, ToggleSleep, UserStep, rest,
     TreesOwned, Tentative
<1>9. StopsCount'
  BY <1>1 DEF TypeOK, Statuses, MaybeTree, Trees, ToggleSleep, UserStep, rest,
     StopsCount, Base, NoTree
<1>10. EnabledInv'
  BY <1>1 DEF TypeOK, Statuses, MaybeTree, Trees, ToggleSleep, UserStep, rest,
     EnabledInv, Disabling, StopBound, NoTree
<1>11. ScheduleInv'
  BY <1>1 DEF TypeOK, Statuses, MaybeTree, Trees, ToggleSleep, UserStep, rest,
     ScheduleInv, Shown, Disabling
<1> QED BY <1>1, <1>2, <1>3, <1>4, <1>5, <1>6, <1>7, <1>8, <1>9, <1>10, <1>11

LEMMA InsertTypes ==
  ASSUME TypeOK, LocalsBound, Insert
  PROVE  TypeOK'
<1> USE TypeSplit
<1>1. FlagTypes'
  BY Zenon DEF Insert, Done, rest, IdleUser, FlagTypes
<1>2. UserType'
  BY UserMoves DEF Insert, UserPcs
<1>3. ProcType' /\ RunType' /\ WatchType' /\ CountTypes'
  BY DEF Insert, rest, ProcType, RunType, WatchType, CountTypes
<1> QED BY <1>1, <1>2, <1>3, PTL

LEMMA InsertKeeps ==
  ASSUME TypeOK, IInv, Insert
  PROVE  TypeOK' /\ IInv'
<1> USE DEF IInv
<1>1. TypeOK'
  BY InsertTypes
<1>2. LocalsBound'
  BY <1>1 DEF TypeOK, Statuses, MaybeTree, Trees, Insert, Done, rest, IdleUser,
     NoTree, LocalsBound
<1>3. RunsBound'
  BY <1>1 DEF TypeOK, Statuses, MaybeTree, Trees, Insert, Done, rest, IdleUser,
     NoTree, RunsBound, Opening, Base, Shown
<1>4. WatchesBound'
  BY <1>1 DEF TypeOK, Statuses, MaybeTree, Trees, Insert, Done, rest, IdleUser,
     NoTree, WatchesBound, Base, Shown
<1>5. SpawnBound'
  BY <1>1 DEF TypeOK, Statuses, MaybeTree, Trees, Insert, Done, rest, IdleUser,
     NoTree, SpawnBound, Opening
<1>6. StopBound'
  BY <1>1 DEF TypeOK, Statuses, MaybeTree, Trees, Insert, Done, rest, IdleUser,
     NoTree, StopBound
<1>7. StatusMeans'
  BY <1>1 DEF TypeOK, Statuses, MaybeTree, Trees, Insert, Done, rest, IdleUser,
     NoTree, StatusMeans, Shown
<1>8. StopsCount'
  BY <1>1 DEF TypeOK, Statuses, MaybeTree, Trees, Insert, Done, rest, IdleUser,
     NoTree, StopsCount, Base
<1>9. EnabledInv'
  BY <1>1 DEF TypeOK, Statuses, MaybeTree, Trees, Insert, Done, rest, IdleUser,
     NoTree, EnabledInv, Disabling
<1>10. ScheduleInv'
  BY <1>1 DEF TypeOK, Statuses, MaybeTree, Trees, Insert, Done, rest, IdleUser,
     NoTree, ScheduleInv, Shown, Disabling
<1>11. TreesOwned'
  BY DEF Insert, TreesOwned, Tentative, rest
<1> QED BY <1>1, <1>2, <1>3, <1>4, <1>5, <1>6, <1>7, <1>8, <1>9, <1>10, <1>11
-----------------------------------------------------------------------------
(* The initial states, and all steps together.                             *)

LEMMA InitTypes ==
  ASSUME Init
  PROVE  TypeOK
<1> USE TypeSplit
<1>1. ProcType
  <2>1. CASE proc = [status |-> "Stopped", desired |-> FALSE, gen |-> 0,
                     enabled |-> TRUE, tree |-> NoTree]
    BY <2>1, StatusNames, MaybeTrees DEF ProcType, ProcRecords
  <2>2. CASE proc = [status |-> "Sleeping", desired |-> TRUE, gen |-> 1,
                     enabled |-> TRUE, tree |-> NoTree]
    BY <2>2, StatusNames, MaybeTrees DEF ProcType, ProcRecords
  <2> QED BY <2>1, <2>2 DEF Init
<1>2. FlagTypes
  BY Zenon DEF Init, FlagTypes
<1>3. RunType
  BY MaybeTrees DEF Init, Idle, RunType
<1>4. WatchType
  BY DEF Init, WatchType
<1>5. UserType
  <2>1. "insert" \in UserPcs /\ "restore" \in UserNames
    BY DEF UserPcs, UserNames
  <2>2. user = IdleUser \/ user = [IdleUser EXCEPT !.pc = "insert", !.op = "restore"]
    BY DEF Init
  <2> QED BY <2>1, <2>2, UserIdles DEF UserType
<1>6. CountTypes
  BY CronAssumption DEF Init, CountTypes
<1> QED BY <1>1, <1>2, <1>3, <1>4, <1>5, <1>6

LEMMA InitInvariant ==
  ASSUME Init
  PROVE  IInv
<1>1. /\ \A r \in Slots : runs[r] = Idle
      /\ watch = {} /\ alive = {} /\ stopGen = -1 /\ present /\ ~sched
  BY DEF Init
<1>2. /\ proc.tree = 0 /\ proc.gen \in {0, 1} /\ proc.enabled
      /\ \/ proc.status = "Stopped" /\ ~proc.desired /\ user.pc = "idle" /\ user.op = "none"
         \/ /\ proc.status = "Sleeping" /\ proc.desired
            /\ user.pc = "insert" /\ user.op = "restore"
  <2>1. CASE /\ proc = [status |-> "Stopped", desired |-> FALSE, gen |-> 0,
                        enabled |-> TRUE, tree |-> NoTree]
             /\ user = IdleUser
    BY <2>1 DEF IdleUser, NoTree
  <2>2. CASE /\ proc = [status |-> "Sleeping", desired |-> TRUE, gen |-> 1,
                        enabled |-> TRUE, tree |-> NoTree]
             /\ user = [IdleUser EXCEPT !.pc = "insert", !.op = "restore"]
    BY <2>2 DEF IdleUser, NoTree
  <2> QED BY <2>1, <2>2 DEF Init
<1>3. LocalsBound /\ RunsBound /\ WatchesBound
  BY <1>1, <1>2 DEF LocalsBound, RunsBound, WatchesBound, Idle, IdleUser, NoTree, Opening
<1>4. SpawnBound /\ StopBound /\ StatusMeans /\ TreesOwned
  BY <1>1, <1>2 DEF SpawnBound, StopBound, StatusMeans, TreesOwned, Shown, IdleUser, NoTree
<1>5. StopsCount /\ EnabledInv
  BY <1>1, <1>2 DEF StopsCount, EnabledInv, Base, Disabling, IdleUser, NoTree
<1>6. ScheduleInv
  BY <1>1, <1>2 DEF ScheduleInv, Shown, Disabling, IdleUser
<1> QED BY <1>3, <1>4, <1>5, <1>6 DEF IInv

LEMMA StutterKeeps ==
  ASSUME TypeOK, IInv, UNCHANGED vars
  PROVE  TypeOK' /\ IInv'
<1>1. TypeOK'
  <2>1. /\ ProcType' /\ FlagTypes' /\ RunType' /\ WatchType' /\ UserType'
        /\ CountTypes'
    BY TypeSplit DEF vars, hist, ProcType, FlagTypes, RunType, WatchType, UserType, CountTypes
  <2> QED BY <2>1, TypeSplit, PTL
<1>2. IInv'
  BY DEF vars, hist, IInv, LocalsBound, RunsBound, WatchesBound, SpawnBound, StopBound,
     StatusMeans, TreesOwned, StopsCount, EnabledInv, ScheduleInv, Base, Shown,
     Disabling, Tentative, Opening
<1> QED BY <1>1, <1>2

LEMMA RequestSteps ==
  ASSUME TypeOK, IInv, UserTask \/ StopFail \/ SpawnFail
  PROVE  TypeOK' /\ IInv'
  BY StopBeginKeeps, StopKillKeeps, StopFailKeeps, ToggleUndoKeeps, StopUnscheduleKeeps,
     StopDoneKeeps, RemoveKeeps, SpawnBeginKeeps, SpawnFailKeeps, SpawnExecKeeps,
     SpawnScheduleKeeps, SpawnCommitKeeps, ToggleOffKeeps, ToggleCancelKeeps,
     ToggleOnKeeps, ToggleSleepKeeps, InsertKeeps DEF UserTask

LEMMA RunSteps ==
  ASSUME TypeOK, IInv, NEW r \in Slots, Trigger(r) \/ RunTask(r) \/ RunFail(r)
  PROVE  TypeOK' /\ IInv'
  BY TriggerKeeps, RunClaimKeeps, RunPrepareKeeps, RunFailKeeps, RunSpawnKeeps,
     RunCommitKeeps, RunAbandonKeeps, RunDropKeeps, RunLookKeeps, RunEnsureKeeps
     DEF RunTask

LEMMA FinishSteps ==
  ASSUME TypeOK, IInv, NEW w \in watch, RootExit(w) \/ FinishStuck(w) \/ Finish(w)
  PROVE  TypeOK' /\ IInv'
  BY RootExitKeeps, FinishStuckKeeps, FinishTerminateKeeps, FinishDropKeeps,
     FinishSleepKeeps DEF Finish

LEMMA EveryStepKeeps ==
  ASSUME TypeOK, IInv, [Next]_vars
  PROVE  TypeOK' /\ IInv'
<1>1. CASE Tick
  BY <1>1, TickKeeps
<1>2. CASE \E r \in Slots : Trigger(r) \/ RunTask(r) \/ RunFail(r)
  BY <1>2, RunSteps
<1>3. CASE \E w \in watch : RootExit(w) \/ FinishStuck(w) \/ Finish(w)
  BY <1>3, FinishSteps
<1>4. CASE \E op \in UserOps : Request(op)
  BY <1>4, RequestKeeps
<1>5. CASE UserTask \/ StopFail \/ SpawnFail
  BY <1>5, RequestSteps
<1>6. CASE UNCHANGED vars
  BY <1>6, StutterKeeps
<1> QED BY <1>1, <1>2, <1>3, <1>4, <1>5, <1>6 DEF Next

(* Who is bound to which generation, what each status means and where the  *)
(* scheduler is, whatever the order of runs, exits, requests and faults    *)
(* (cron_trigger_loop, finish_cron_run, restart_loop and the requests).    *)
THEOREM CronInvariantHolds == Spec => [](TypeOK /\ IInv)
<1>1. Init => TypeOK /\ IInv
  BY InitTypes, InitInvariant
<1>2. (TypeOK /\ IInv) /\ [Next]_vars => (TypeOK /\ IInv)'
  BY EveryStepKeeps
<1> QED BY <1>1, <1>2, PTL DEF Spec

(* Two runs a job has committed are never alive together: finish_cron_run  *)
(* lets the job sleep, and be triggered again, only once the whole tree of *)
(* the last run is gone.                                                   *)
THEOREM RunsNeverOverlap == Spec => []NoOverlap
<1>1. TypeOK /\ IInv => NoOverlap
  BY DEF IInv, TreesOwned, NoOverlap
<1> QED BY <1>1, CronInvariantHolds, PTL

(* Nor does the entry sleep, ready for the next tick, while one is.        *)
THEOREM SleepIsQuiet == Spec => []SleepingIsQuiet
<1>1. TypeOK /\ IInv => SleepingIsQuiet
  BY DEF TypeOK, IInv, TreesOwned, StatusMeans, StopBound, Shown, SleepingIsQuiet, Trees,
         NoTree
<1> QED BY <1>1, CronInvariantHolds, PTL

(* Between requests the scheduler is where the status of the job says,     *)
(* in spite of the runs that remove it or put it back.                     *)
THEOREM ScheduleFollowsStatus == Spec => []ScheduleMatches
<1>1. TypeOK /\ IInv => ScheduleMatches
  BY DEF IInv, LocalsBound, ScheduleInv, Shown, Disabling, ScheduleMatches
<1> QED BY <1>1, CronInvariantHolds, PTL

LEMMA OnlyCommitLooks ==
  ASSUME TypeOK, [Next]_vars, NEW r \in Slots, runs[r].pc = "commit", runs'[r].pc = "look"
  PROVE  RunCommit(r)
<1>1. runs' # runs
  OBVIOUS
<1>2. ASSUME NEW s \in Slots, Trigger(s) \/ RunTask(s) \/ RunFail(s)
      PROVE  RunCommit(r)
  <2>1. runs \in [Slots -> [pc : {"idle", "claim", "prepare", "spawn", "commit",
                                 "drop", "look", "ensure"},
                           gen : Nat, child : MaybeTree]]
    BY DEF TypeOK
  <2>2. ~Trigger(s) /\ ~RunClaim(s) /\ ~RunPrepare(s) /\ ~RunFail(s)
    BY <2>1 DEF Trigger, RunClaim, RunPrepare, RunFail, RunStep, Idle
  <2>3. ~RunSpawn(s) /\ ~RunAbandon(s) /\ ~RunDrop(s) /\ ~RunLook(s) /\ ~RunEnsure(s)
    BY <2>1 DEF RunSpawn, RunAbandon, RunDrop, RunLook, RunEnsure, Idle
  <2>4. RunCommit(s)
    BY <1>2, <2>2, <2>3 DEF RunTask
  <2>5. s = r
    BY <2>1, <2>4 DEF RunCommit
  <2> QED BY <2>4, <2>5
<1>3. ASSUME NEW w \in watch, RootExit(w) \/ FinishStuck(w) \/ Finish(w)
      PROVE  FALSE
  BY <1>1, <1>3 DEF RootExit, FinishStuck, Finish, FinishTerminate, FinishDrop, FinishSleep
<1>4. ~Tick /\ ~(\E op \in UserOps : Request(op)) /\ ~UNCHANGED vars
  BY <1>1 DEF Tick, Request, rest, vars
<1>5. ~(UserTask \/ StopFail \/ SpawnFail)
  BY <1>1 DEF UserTask, StopFail, SpawnFail, StopBegin, StopKill, ToggleUndo,
     StopUnschedule, StopDone, Remove, SpawnBegin, SpawnExec, SpawnSchedule, SpawnCommit,
     ToggleOff, ToggleCancel, ToggleOn, ToggleSleep, Insert, rest
<1> QED BY <1>2, <1>3, <1>4, <1>5 DEF Next

(* A run claimed before a stop or a disable that was acknowledged never    *)
(* commits, however long its hook or its spawn took.                       *)
THEOREM StopsCancelRuns == Spec => StopCancelsRuns
<1>1. ASSUME TypeOK, IInv, [Next]_vars, NEW r \in Slots,
             runs[r].pc = "commit", runs'[r].pc = "look"
      PROVE  runs[r].gen > stopGen
  <2>1. proc.gen = runs[r].gen /\ proc.desired
    BY <1>1, OnlyCommitLooks DEF RunCommit, Current
  <2>2. stopGen < Base /\ user.pc # "kill"
    BY <1>1, <2>1 DEF IInv, StopsCount, StopBound
  <2> QED BY <1>1, <2>1, <2>2 DEF Base, TypeOK
<1>2. TypeOK /\ IInv /\ [Next]_vars
        => [\A r \in Slots : runs[r].pc = "commit" /\ runs'[r].pc = "look"
              => runs[r].gen > stopGen]_vars
  BY <1>1
<1> QED BY <1>2, CronInvariantHolds, PTL DEF Spec, StopCancelsRuns
=============================================================================
