-------------------------- MODULE ProcessTreeProofs --------------------------
(***************************************************************************)
(* RunningIsDesired, LiveTreesOwned and OneServing for every set of        *)
(* restart tasks when no file watcher reports changes: no live tree is     *)
(* lost, no two committed trees live at once, and what is shown running is *)
(* meant to run.  Each event is about one commit, so one actor at a time   *)
(* has a stake in a generation, and that actor alone may clear the entry,  *)
(* end its tree or begin the next spawn.  A file watcher breaks this: it   *)
(* announces a generation that an exit announces too.                      *)
(***************************************************************************)
EXTENDS ProcessLifecycleProofs

-----------------------------------------------------------------------------
(* The inductive invariant.                                                *)

(* Where a restart task is between clearing the entry and the commit.      *)
Waiting == {"check", "begin", "failed"}
Respawning == Waiting \cup Spawning

(* Actor a may act on the entry of generation g.  A restart task that has  *)
(* cleared it has a stake in its event's generation and in the next.       *)
Stake(a, g) ==
  \/ a = Loop /\ pc[a] # "idle" /\ loc[a].gen = g
  \/ a = User /\ pc[a] \in Spawning /\ loc[a].gen = g
  \/ a \in Tasks /\ pc[a] \in Serves /\ loc[a].gen = g
  \/ a \in Tasks /\ pc[a] \in Respawning /\ g \in {loc[a].expect, loc[a].expect + 1}

(* One stake in a generation: of an exit watcher, an event or an actor.    *)
Exclusive ==
  /\ \A e, f \in events : e.gen = f.gen => e = f
  /\ \A v, w \in watch : v.gen = w.gen => v = w
  /\ \A e \in events, w \in watch : e.gen # w.gen
  /\ \A a \in Actors : \A g : Stake(a, g) =>
       /\ \A e \in events : e.gen # g
       /\ \A w \in watch : w.gen # g
       /\ \A b \in Actors : Stake(b, g) => a = b

(* A restart task spawns the generation after its event's.                 *)
RespawnFits(a) ==
  /\ pc[a] \in Serves => loc[a].gen = loc[a].expect
  /\ pc[a] \in Respawning => loc[a].expect \in 0 .. Ceiling
  /\ pc[a] \in Spawning => loc[a].gen = loc[a].expect + 1
RespawnLocals ==
  /\ \A a \in Tasks : RespawnFits(a)
  /\ loc[User].expect = NoGen

(* The status a stop returns to when it fails, and whether the process is  *)
(* then wanted.                                                            *)
StatusOf == IF StopRuns THEN loc[User].prev ELSE proc.status
Wanted == StopRuns \/ proc.desired
Busy == {"Starting", "Stopping", "Running"}

(* The latest generation, once announced, stays wanted until its event is  *)
(* handled.                                                                *)
AnnouncedWanted ==
  Announced(Ceiling) => Wanted /\ StatusOf \in {"Running", "Stopping"}

(* A spawn of the latest generation finds an entry without a tree, and     *)
(* with no PID but its own.                                                *)
SpawnsAlone(a) ==
  a \in Spawners /\ pc[a] \in Spawning /\ loc[a].gen = Ceiling =>
    /\ Wanted /\ StatusOf = "Starting" /\ proc.tree = NoTree
    /\ proc.pid # NoTree => pc[a] \in {"attach", "commit", "abandon"}
                            /\ proc.pid = loc[a].child
    /\ pc[a] \in Attaching /\ pc[User] # "stopOk" => proc.pid = loc[a].child

(* A task waiting to respawn the latest generation left the entry empty    *)
(* and in transition.                                                      *)
WaitsEmpty(a) ==
  a \in Tasks /\ pc[a] \in Waiting /\ loc[a].expect = Ceiling =>
    StatusOf \in Busy /\ proc.tree = NoTree /\ proc.pid = NoTree

(* A tree some cleaner keeps terminating.                                  *)
Cleaned(t) == \E c \in cleaners : c.tree = t

(* What a spawn that did not commit, or a newer lifecycle, left behind a   *)
(* waiting task is no live tree of the entry's.                            *)
LeavesEmpty(a) ==
  a \in Tasks /\ pc[a] \in Waiting /\ loc[a].expect + 1 = Ceiling =>
    proc.tree = NoTree /\ (proc.pid \in alive => Cleaned(proc.pid))

(* Actor a has a spawn under way or coming up in generation g.             *)
Pending(a, g) ==
  \/ a = User /\ pc[a] \in Spawning /\ loc[a].gen = g
  \/ a \in Tasks /\ pc[a] \in Respawning /\ loc[a].expect + 1 = g

(* Who terminates a tree terminates what the entry's PID names.            *)
KillsEntry(a) ==
  pc[a] = "kill" =>
    /\ loc[a].hold = proc.pid /\ loc[a].owned = proc.pid /\ proc.tree = NoTree
    /\ a # User => loc[a].gen = Ceiling
    /\ loc[a].guard => /\ genOf[proc.pid] = Ceiling
                       /\ \A b \in Spawners : ~Pending(b, Ceiling)

(* A termination that succeeded left nothing.                              *)
HasEmptied(a) ==
  /\ (a \in Tasks /\ pc[a] = "clear") \/ (a = Loop /\ pc[a] = "exitOk") =>
       (loc[a].gen = Ceiling => proc.tree = NoTree /\ proc.pid = NoTree)
  /\ a = User /\ pc[a] = "stopOk" =>
       ~proc.cleaning /\ proc.tree = NoTree /\ proc.pid = NoTree

(* A start goes ahead on an entry that is at rest.                         *)
BeginsAtRest(a) ==
  a = User /\ pc[a] = "begin" => ~Active(proc) /\ proc.pid = NoTree

(* What each place says about the entry.                                   *)
Placed(a) == /\ SpawnsAlone(a) /\ WaitsEmpty(a) /\ LeavesEmpty(a)
             /\ KillsEntry(a) /\ HasEmptied(a) /\ BeginsAtRest(a)

(* The entry's tree is its PID's, of the latest generation.                *)
TreeFits == proc.tree # NoTree => proc.tree = proc.pid /\ genOf[proc.tree] = Ceiling

(* A live tree is the entry's PID, the child of a spawn or a cleaner's.    *)
Known(t) ==
  \/ t = proc.pid \/ Cleaned(t)
  \/ \E a \in Spawners : pc[a] \in HoldingChild /\ loc[a].child = t
LiveTreesKnown == alive \subseteq 1 .. spawned /\ \A t \in alive : Known(t)

TInv == /\ Exclusive /\ RespawnLocals /\ AnnouncedWanted /\ TreeFits
        /\ LiveTreesKnown /\ RunningIsDesired /\ proc.pid \in 0 .. spawned
        /\ \A a \in Actors : Placed(a)

-----------------------------------------------------------------------------
(* Kinds of steps.                                                         *)

Others(a) == \A b \in Actors \ {a} : pc'[b] = pc[b] /\ loc'[b] = loc[b]

(* The entry stays as it is, as far as the generation in it goes.          *)
Steady ==
  /\ UNCHANGED genOf /\ Ceiling' = Ceiling
  /\ proc'.pid = proc.pid /\ proc'.tree = proc.tree
  /\ StatusOf' = StatusOf /\ (Wanted => Wanted')
  /\ proc'.cleaning => proc.cleaning
  /\ alive' \subseteq alive /\ \A t \in alive' : Cleaned(t) => Cleaned(t)'
  /\ pc[User] = "stopOk" => pc'[User] = "stopOk"
  /\ \A b \in Spawners : Pending(b, Ceiling)' => Pending(b, Ceiling)

(* Actor a takes no stake and no new place in which the invariant asks     *)
(* something of it.                                                        *)
Relaxes(a) ==
  /\ Others(a) /\ events' \subseteq events /\ watch' \subseteq watch
  /\ \A g : Stake(a, g)' => Stake(a, g)
  /\ a \in Tasks => RespawnFits(a)'
  /\ a = User => loc'[a].expect = NoGen

(* Actor a stays where it was or goes where nothing is asked of it.        *)
Eases(a) ==
  /\ pc'[a] \in {"kill", "exitOk", "clear", "begin"} =>
       pc[a] = pc'[a] /\ loc'[a] = loc[a]
  /\ a = User /\ pc'[a] = "stopOk" => pc[a] = "stopOk" /\ loc'[a] = loc[a]
  /\ a \in Tasks /\ pc'[a] \in Waiting =>
       pc[a] \in Waiting /\ loc'[a].expect = loc[a].expect
  /\ a \in Spawners /\ pc'[a] \in Spawning =>
       /\ pc[a] \in Spawning
       /\ loc'[a].gen = loc[a].gen /\ loc'[a].child = loc[a].child
       /\ pc'[a] \in Attaching => pc[a] \in Attaching
       /\ pc[a] \in {"attach", "commit", "abandon"} =>
            pc'[a] \in {"attach", "commit", "abandon"}

(* Trees and children stay as they are.                                    *)
Settles(a) ==
  /\ UNCHANGED <<spawned, cleaners>> /\ alive' \subseteq alive
  /\ a \in Spawners /\ pc[a] \in HoldingChild =>
       pc'[a] \in HoldingChild /\ loc'[a].child = loc[a].child

(* Nobody takes a stake: still one in each generation.                     *)
LEMMA RelaxesExclusive ==
  ASSUME Exclusive, NEW a \in Actors, Relaxes(a)
  PROVE  Exclusive'
<1>1. ASSUME NEW b \in Actors, NEW g, Stake(b, g)' PROVE Stake(b, g)
  BY <1>1 DEF Relaxes, Others, Stake
<1>2. /\ \A e, f \in events' : e.gen = f.gen => e = f
      /\ \A v, w \in watch' : v.gen = w.gen => v = w
      /\ \A e \in events', w \in watch' : e.gen # w.gen
  BY DEF Exclusive, Relaxes
<1>3. ASSUME NEW b \in Actors, NEW g, Stake(b, g)'
      PROVE  /\ \A e \in events' : e.gen # g
             /\ \A w \in watch' : w.gen # g
             /\ \A c \in Actors : Stake(c, g)' => b = c
  <2>1. Stake(b, g)
    BY <1>1, <1>3
  <2>2. /\ \A e \in events : e.gen # g
        /\ \A w \in watch : w.gen # g
        /\ \A c \in Actors : Stake(c, g) => b = c
    BY <2>1 DEF Exclusive
  <2>3. QED
    BY <1>1, <2>2 DEF Relaxes
<1>4. QED
  BY <1>2, <1>3 DEF Exclusive

(* What restart tasks know of generations stays true while the latest only *)
(* grows.                                                                  *)
LEMMA RespawnKept ==
  ASSUME IInv, IInv', RespawnLocals, NEW a \in Actors, Others(a), Ceiling' >= Ceiling,
         a \in Tasks => RespawnFits(a)', a = User => loc'[a].expect = NoGen
  PROVE  RespawnLocals'
<1>1. Ceiling \in Nat /\ Ceiling' \in Nat /\ Tasks \subseteq Actors /\ User \in Actors
      /\ User \notin Tasks
  BY Basics, CeilingNext
<1>2. ASSUME NEW b \in Tasks, b # a PROVE RespawnFits(b)'
  <2>1. pc'[b] = pc[b] /\ loc'[b] = loc[b] /\ RespawnFits(b)
    BY <1>1, <1>2 DEF Others, RespawnLocals
  <2>2. QED
    BY <1>1, <2>1 DEF RespawnFits
<1>3. loc'[User].expect = NoGen
  BY <1>1 DEF Others, RespawnLocals
<1>4. QED
  BY <1>2, <1>3 DEF RespawnLocals

(* Actor b sees nothing of a steady step of another.                       *)
LEMMA PlacedSteady ==
  ASSUME IInv, IInv', NEW b \in Actors, pc'[b] = pc[b], loc'[b] = loc[b], Placed(b), Steady
  PROVE  Placed(b)'
<1>1. SpawnsAlone(b)'
  BY DEF Placed, SpawnsAlone, Steady
<1>2. WaitsEmpty(b)'
  BY DEF Placed, WaitsEmpty, Steady
<1>3. LeavesEmpty(b)'
  BY DEF Placed, LeavesEmpty, Steady
<1>4. KillsEntry(b)'
  BY DEF Placed, KillsEntry, Steady
<1>5. HasEmptied(b)'
  BY DEF Placed, HasEmptied, Steady
<1>6. BeginsAtRest(b)'
  BY DEF Placed, BeginsAtRest, Steady, StatusOf, StopRuns, Active
<1>7. QED
  BY <1>1, <1>2, <1>3, <1>4, <1>5, <1>6 DEF Placed

(* The same for the actor of the step when its place asks for no more.     *)
LEMMA PlacedEases ==
  ASSUME IInv, IInv', NEW a \in Actors, Placed(a), Steady, Eases(a)
  PROVE  Placed(a)'
<1>1. SpawnsAlone(a)'
  BY DEF Placed, SpawnsAlone, Steady, Eases
<1>2. WaitsEmpty(a)'
  BY DEF Placed, WaitsEmpty, Steady, Eases
<1>3. LeavesEmpty(a)'
  BY DEF Placed, LeavesEmpty, Steady, Eases
<1>4. KillsEntry(a)'
  BY DEF Placed, KillsEntry, Steady, Eases
<1>5. HasEmptied(a)'
  BY DEF Placed, HasEmptied, Steady, Eases
<1>6. BeginsAtRest(a)'
  BY DEF Placed, BeginsAtRest, Steady, StatusOf, StopRuns, Active, Eases
<1>7. QED
  BY <1>1, <1>2, <1>3, <1>4, <1>5, <1>6 DEF Placed

(* Nothing is asked of an actor without a stake in the latest generation.  *)
LEMMA PlacedApart ==
  ASSUME RespawnLocals', NEW b \in Actors, ~Stake(b, Ceiling)', pc'[b] # "kill",
         b = User => pc'[b] \notin {"stopOk", "begin"}
  PROVE  Placed(b)'
<1>1. SpawnsAlone(b)' /\ WaitsEmpty(b)' /\ LeavesEmpty(b)'
  BY DEF SpawnsAlone, WaitsEmpty, LeavesEmpty, Stake, RespawnLocals, RespawnFits,
     Spawners, Respawning
<1>2. KillsEntry(b)' /\ HasEmptied(b)' /\ BeginsAtRest(b)'
  BY DEF KillsEntry, HasEmptied, BeginsAtRest, Stake, Actors, Serves
<1>3. QED
  BY <1>1, <1>2 DEF Placed

(* What is announced of the latest generation was.                         *)
LEMMA WantedKept ==
  ASSUME AnnouncedWanted, NoNews, Steady
  PROVE  AnnouncedWanted'
<1>1. Announced(Ceiling)' => Announced(Ceiling)
  BY DEF NoNews, Steady
<1>2. QED
  BY <1>1 DEF AnnouncedWanted, Steady

(* Live trees stay known while nobody lets go of one.                      *)
LEMMA KnownKept ==
  ASSUME LiveTreesKnown, proc'.pid = proc.pid, NEW a \in Actors, Others(a), Settles(a)
  PROVE  LiveTreesKnown'
<1>1. ASSUME NEW b \in Spawners, pc[b] \in HoldingChild
      PROVE  pc'[b] \in HoldingChild /\ loc'[b].child = loc[b].child
  BY <1>1 DEF Others, Settles, Spawners, Actors
<1>2. ASSUME NEW t \in alive' PROVE Known(t)'
  <2>1. Known(t)
    BY <1>2 DEF LiveTreesKnown, Settles
  <2>2. QED
    BY <1>1, <2>1 DEF Known, Cleaned, Settles
<1>3. QED
  BY <1>2 DEF LiveTreesKnown, Settles

(* A steady step whose actor's new place asks what holds.                  *)
LEMMA StaysWith ==
  ASSUME IInv, IInv', TInv, NEW a \in Actors, Steady, NoNews, Others(a), Exclusive',
         a \in Tasks => RespawnFits(a)', a = User => loc'[a].expect = NoGen,
         LiveTreesKnown', UNCHANGED spawned, RunningIsDesired', Placed(a)'
  PROVE  TInv'
<1>1. RespawnLocals'
  <2>1. Ceiling' >= Ceiling
    BY Basics DEF Steady
  <2>2. QED
    BY <2>1, RespawnKept DEF TInv
<1>2. AnnouncedWanted' /\ TreeFits'
  BY WantedKept DEF TInv, TreeFits, Steady
<1>3. proc'.pid \in 0 .. spawned'
  BY DEF TInv, Steady
<1>4. ASSUME NEW b \in Actors PROVE Placed(b)'
  BY <1>4, PlacedSteady DEF TInv, Others
<1>5. QED
  BY <1>1, <1>2, <1>3, <1>4 DEF TInv

(* ... which also takes no stake ...                                       *)
LEMMA StaysElse ==
  ASSUME IInv, IInv', TInv, NEW a \in Actors, Steady, NoNews, Relaxes(a),
         LiveTreesKnown', UNCHANGED spawned, RunningIsDesired', Placed(a)'
  PROVE  TInv'
<1>1. Exclusive'
  BY RelaxesExclusive DEF TInv
<1>2. QED
  BY <1>1, StaysWith DEF Relaxes

(* ... and after which nothing more is asked of its actor.                 *)
LEMMA StaysTInv ==
  ASSUME IInv, IInv', TInv, NEW a \in Actors, Steady, NoNews,
         Relaxes(a), Eases(a), Settles(a), RunningIsDesired'
  PROVE  TInv'
<1>1. LiveTreesKnown' /\ UNCHANGED spawned
  BY KnownKept DEF TInv, Relaxes, Steady, Settles
<1>2. Placed(a)'
  BY PlacedEases DEF TInv
<1>3. QED
  BY <1>1, <1>2, StaysElse

-----------------------------------------------------------------------------
(* What a stake is worth.                                                  *)

(* Whoever has a stake in the latest generation while no stop runs is      *)
(* alone with it.                                                          *)
LEMMA OwnerAlone ==
  ASSUME IInv, KInv, TInv, NEW a \in Actors, Stake(a, Ceiling), ~StopRuns
  PROVE  /\ \A e \in events : e.gen # Ceiling
         /\ \A w \in watch : w.gen # Ceiling
         /\ \A b \in Actors \ {a} : /\ ~Stake(b, Ceiling) /\ pc[b] # "kill"
                                    /\ b = User => pc[b] # "stopOk"
<1>1. /\ \A e \in events : e.gen # Ceiling
      /\ \A w \in watch : w.gen # Ceiling
      /\ \A b \in Actors \ {a} : ~Stake(b, Ceiling)
  BY DEF TInv, Exclusive
<1>2. ASSUME NEW b \in Actors \ {a}, pc[b] = "kill" PROVE FALSE
  <2>1. b # User
    BY <1>2 DEF StopRuns
  <2>2. loc[b].gen = Ceiling
    BY <1>2, <2>1 DEF TInv, Placed, KillsEntry
  <2>3. Stake(b, Ceiling)
    BY <1>2, <2>1, <2>2 DEF Stake, Actors, Serves
  <2>4. QED
    BY <1>1, <2>3
<1>3. QED
  BY <1>1, <1>2 DEF StopRuns

(* An announced generation, a spawn under way and a task about to respawn  *)
(* keep the entry in transition, so that no start begins.                  *)
LEMMA OwnerBusy ==
  ASSUME IInv, KInv, TInv, NEW a \in Actors, Stake(a, Ceiling), ~StopRuns,
         pc[a] \in Waiting => loc[a].expect = Ceiling
  PROVE  proc.status \in Busy /\ pc[User] # "begin"
<1>1. proc.status \in Busy
  <2>1. CASE pc[a] \in Spawning /\ a \in Spawners /\ loc[a].gen = Ceiling
    BY <2>1 DEF TInv, Placed, SpawnsAlone, StatusOf, Busy
  <2>2. CASE pc[a] \in Waiting /\ a \in Tasks
    BY <2>2 DEF TInv, Placed, WaitsEmpty, StatusOf
  <2>3. CASE Announced(Ceiling)
    BY <2>3 DEF TInv, AnnouncedWanted, StatusOf, Busy
  <2>4. CASE a \in Tasks /\ pc[a] \in Spawning /\ Ceiling \in {loc[a].expect, loc[a].expect + 1}
    <3>1. loc[a].gen \in 0 .. Ceiling /\ loc[a].gen = loc[a].expect + 1
      BY <2>4, SpawningPast DEF TInv, RespawnLocals, RespawnFits, Spawners
    <3>2. loc[a].expect \in Nat /\ Ceiling \in Nat
      BY <2>4, Basics DEF IInv, TaskLocals, Spawning
    <3>3. loc[a].gen = Ceiling
      BY <2>4, <3>1, <3>2
    <3>4. QED
      BY <2>1, <2>4, <3>3 DEF Spawners
  <2>5. QED
    BY <2>1, <2>2, <2>3, <2>4 DEF Stake, Announced, Respawning, Spawners
<1>2. pc[User] # "begin"
  BY <1>1, Basics DEF TInv, Placed, BeginsAtRest, Active, Busy
<1>3. QED
  BY <1>1, <1>2

(* While its owner acts on the latest generation nothing is asked of the   *)
(* others.                                                                 *)
LEMMA OwnerPlaces ==
  ASSUME IInv, KInv, TInv, RespawnLocals', NEW a \in Actors, Stake(a, Ceiling),
         ~StopRuns, Others(a), Ceiling' = Ceiling, pc[User] # "begin" \/ a = User
  PROVE  \A b \in Actors \ {a} : Placed(b)'
<1> SUFFICES ASSUME NEW b \in Actors \ {a} PROVE Placed(b)'
  OBVIOUS
<1>1. /\ ~Stake(b, Ceiling) /\ pc[b] # "kill" /\ pc'[b] = pc[b] /\ loc'[b] = loc[b]
      /\ b = User => pc[b] # "stopOk"
  BY OwnerAlone DEF Others
<1>2. ~Stake(b, Ceiling)'
  BY <1>1 DEF Stake
<1>3. QED
  BY <1>1, <1>2, PlacedApart

(* After such a step only the owner still announces the generation.        *)
LEMMA OwnerAnnounces ==
  ASSUME IInv, KInv, TInv, NEW a \in Actors, Stake(a, Ceiling), ~StopRuns, ~StopRuns',
         Others(a), Ceiling' = Ceiling, events' \subseteq events, watch' \subseteq watch,
         Announced(Ceiling)'
  PROVE  \/ a = Loop /\ pc'[a] # "idle"
         \/ a \in Tasks /\ pc'[a] \in Serves
         \/ proc'.status = "Running"
<1>1. /\ \A e \in events : e.gen # Ceiling
      /\ \A w \in watch : w.gen # Ceiling
      /\ \A b \in Actors \ {a} : ~Stake(b, Ceiling)
  BY OwnerAlone
<1>2. \A b \in Actors \ {a} : ~Stake(b, Ceiling)'
  BY <1>1 DEF Stake, Others
<1>3. QED
  BY <1>1, <1>2, Basics DEF Announced, Stake

(* A new generation: nothing is asked of anyone when the old tree is gone. *)
LEMMA AdvancePlaces ==
  ASSUME IInv, IInv', KInv, TInv, NEW a \in Actors, Others(a), Ceiling' > Ceiling,
         proc'.tree = NoTree, proc'.pid \in alive' => Cleaned(proc.pid)',
         \A b \in Actors \ {a} : pc[b] # "kill",
         a # User => pc[User] \notin {"stopOk", "begin"}
  PROVE  \A b \in Actors \ {a} : Placed(b)'
<1> SUFFICES ASSUME NEW b \in Actors \ {a} PROVE Placed(b)'
  OBVIOUS
<1>1. /\ pc'[b] = pc[b] /\ loc'[b] = loc[b] /\ pc[b] # "kill"
      /\ b = User => pc[b] \notin {"stopOk", "begin"}
  BY DEF Others
<1>2. Ceiling \in Nat /\ Ceiling' \in Nat
  BY Basics, CeilingNext
<1>3. SpawnsAlone(b)'
  BY <1>1, <1>2, SpawningPast DEF SpawnsAlone
<1>4. WaitsEmpty(b)'
  BY <1>1, <1>2 DEF WaitsEmpty, TInv, RespawnLocals, RespawnFits, Respawning
<1>5. LeavesEmpty(b)'
  BY <1>1 DEF LeavesEmpty
<1>6. HasEmptied(b)'
  <2>1. ASSUME (b \in Tasks /\ pc[b] = "clear") \/ (b = Loop /\ pc[b] = "exitOk")
        PROVE  Announced(loc[b].gen)
    BY <2>1 DEF Announced, Serves
  <2>2. QED
    BY <1>1, <1>2, <2>1 DEF HasEmptied, KInv, AnnouncedPast
<1>7. KillsEntry(b)' /\ BeginsAtRest(b)'
  BY <1>1 DEF KillsEntry, BeginsAtRest
<1>8. QED
  BY <1>3, <1>4, <1>5, <1>6, <1>7 DEF Placed

(* ... and it is not announced.                                            *)
LEMMA AdvanceWanted ==
  ASSUME IInv, IInv', KInv, Ceiling' > Ceiling, NoNews
  PROVE  AnnouncedWanted'
<1>1. Ceiling \in Nat /\ Ceiling' \in Nat
  BY Basics, CeilingNext
<1>2. ~Announced(Ceiling')
  BY <1>1 DEF KInv, AnnouncedPast
<1>3. ~Announced(Ceiling)'
  BY <1>2 DEF NoNews
<1>4. QED
  BY <1>3 DEF AnnouncedWanted

-----------------------------------------------------------------------------
(* Requests and the steps of the user's operation.                         *)

(* A step of the user between spawns and terminations.                     *)
LEMMA UserStays ==
  ASSUME IInv, IInv', TInv, Others(User), NoNews, Ceiling' = Ceiling,
         UNCHANGED <<alive, spawned, genOf, events, watch, cleaners>>,
         proc'.pid = proc.pid, proc'.tree = proc.tree, proc'.cleaning = proc.cleaning,
         StatusOf' = StatusOf, Wanted => Wanted', RunningIsDesired',
         pc[User] \notin Spawning, pc[User] # "stopOk",
         pc'[User] \notin Spawning \cup {"kill", "exitOk", "clear", "begin", "stopOk"},
         loc'[User].expect = NoGen
  PROVE  TInv'
<1>1. User \in Actors /\ User \notin Tasks /\ User # Loop
  BY Basics
<1>2. ASSUME NEW b \in Spawners, Pending(b, Ceiling)' PROVE Pending(b, Ceiling)
  BY <1>1, <1>2 DEF Pending, Others, Actors
<1>3. Steady
  BY <1>2 DEF Steady, Cleaned
<1>4. Relaxes(User)
  BY <1>1 DEF Relaxes, Stake
<1>5. Eases(User)
  BY <1>1 DEF Eases
<1>6. Settles(User)
  BY DEF Settles, HoldingChild
<1>7. QED
  BY <1>1, <1>3, <1>4, <1>5, <1>6, StaysTInv

(* Accepting a request.                                                    *)
LEMMA RequestsTInv == IInv /\ IInv' /\ KInv /\ TInv /\ Requests => TInv'
<1> SUFFICES ASSUME IInv, IInv', KInv, TInv, Requests PROVE TInv'
  OBVIOUS
<1>1. Keeps(User)
  BY RequestsKeep
<1>2. /\ pc[User] = "idle"
      /\ pc'[User] \in {"check", "stop", "remove", "idle", "disable", "enable"}
      /\ loc'[User].expect = NoGen
  <2>1. \E op, p : Request(op, p) /\ p \in {"check", "stop", "remove", "idle", "disable", "enable"}
    BY DEF Requests, OpStart, OpStartExisting, OpStop, OpRestart, OpDelete,
       OpUpdate, OpSetEnabled, OpReset
  <2>2. PICK op, p : Request(op, p) /\ p \in {"check", "stop", "remove", "idle", "disable", "enable"}
    BY <2>1
  <2>3. pc[User] = "idle" /\ pc'[User] = p
        /\ loc'[User] \in {Fresh, [Fresh EXCEPT !.op = op]}
    BY <2>2, StepMoves, Basics DEF Request
  <2>4. Fresh.expect = NoGen /\ [Fresh EXCEPT !.op = op].expect = NoGen
    BY DEF Fresh
  <2>5. QED
    BY <2>2, <2>3, <2>4
<1>3. /\ proc'.status = proc.status /\ proc'.desired = proc.desired
      /\ proc'.cleaning = proc.cleaning
  BY Basics DEF Requests, OpStart, OpStartExisting, OpStop, OpRestart, OpDelete,
     OpUpdate, OpSetEnabled, OpReset, IInv, Untouched, Entries
<1>4. UNCHANGED <<alive, spawned, genOf, watch, events, cleaners>>
  BY DEF Requests, OpStart, OpStartExisting, OpStop, OpRestart, OpDelete,
     OpUpdate, OpSetEnabled, OpReset, os, tasks
<1>5. StatusOf' = StatusOf /\ (Wanted => Wanted')
  BY <1>2, <1>3 DEF StatusOf, Wanted, StopRuns
<1>6. RunningIsDesired'
  BY <1>3 DEF TInv, RunningIsDesired
<1>7. QED
  BY <1>1, <1>2, <1>3, <1>4, <1>5, <1>6, UserStays DEF Keeps, Follows, Others, Spawning

(* The user's steps that leave the generation as it is.                    *)
LEMMA UserKeepsTInv ==
  ASSUME IInv, IInv', KInv, TInv, UserStep, Ceiling' = Ceiling
  PROVE  TInv'
<1>1. /\ Others(User) /\ NoNews /\ proc'.pid = proc.pid /\ proc'.tree = proc.tree
  <2>1. Keeps(User)
    BY UserStepKind, Basics DEF Advances
  <2>2. QED
    BY <2>1 DEF Keeps, Follows, Others
<1>2. UNCHANGED <<alive, spawned, genOf, watch, events, cleaners>>
  BY DEF UserStep, OpUnstart, OpBump, OpRemove, OpPatch, OpRollback, OpToggle,
     StopRefused, StopBegin, StopErr, StopOk, os, tasks
<1>3. /\ pc[User] \in {"unstart", "bump", "remove", "patch", "rollback", "disable",
                       "enable", "stop", "stopErr", "stopOk"}
      /\ pc'[User] \in {"idle", "check", "remove", "patch", "term"}
      /\ loc'[User] \in {Fresh, loc[User], [loc[User] EXCEPT !.op = "rollback"],
           [loc[User] EXCEPT !.gen = proc.gen + 1, !.prev = proc.status,
                             !.prevGen = proc.gen]}
  <2>1. CASE StopBegin
    BY <2>1, StepMoves, Basics DEF StopBegin
  <2>2. CASE OpRollback
    BY <2>2, StepMoves, Basics DEF OpRollback
  <2>3. CASE ~StopBegin /\ ~OpRollback
    BY <2>3, GotoMoves, Basics DEF UserStep, OpUnstart, OpBump, OpRemove,
       OpPatch, OpToggle, StopRefused, StopErr, StopOk, AfterStop
  <2>4. QED
    BY <2>1, <2>2, <2>3
<1>4. loc'[User].expect = NoGen
  <2>1. loc[User] \in Locals /\ loc[User].expect = NoGen
    BY Basics DEF TInv, RespawnLocals
  <2>2. Fresh.expect = NoGen
    BY DEF Fresh
  <2>3. /\ [loc[User] EXCEPT !.op = "rollback"].expect = NoGen
        /\ [loc[User] EXCEPT !.gen = proc.gen + 1, !.prev = proc.status,
                             !.prevGen = proc.gen].expect = NoGen
    BY <2>1 DEF Locals
  <2>4. QED
    BY <1>3, <2>1, <2>2, <2>3
<1>5. proc'.cleaning = proc.cleaning
  BY Basics DEF UserStep, OpUnstart, OpBump, OpRemove, OpPatch, OpRollback,
     OpToggle, StopRefused, StopBegin, StopErr, StopOk, Cleared, Forgotten, Entries
<1>6. CASE StopBegin
  <2>1. /\ pc[User] = "stop" /\ pc'[User] = "term" /\ loc[User] \in Locals
        /\ loc'[User] = [loc[User] EXCEPT !.gen = proc.gen + 1,
                           !.prev = proc.status, !.prevGen = proc.gen]
    BY <1>6, StepMoves, Basics DEF StopBegin
  <2>2. loc'[User].prev = proc.status
    BY <2>1 DEF Locals
  <2>3. StatusOf' = StatusOf /\ Wanted'
    BY <2>1, <2>2 DEF StatusOf, StopRuns, Wanted
  <2>4. RunningIsDesired'
    BY <1>6, Basics DEF StopBegin, RunningIsDesired, Entries
  <2>5. QED
    BY <1>1, <1>2, <1>4, <1>5, <2>1, <2>3, <2>4, UserStays DEF Spawning
<1>7. CASE StopErr
  <2>1. pc[User] = "stopErr" /\ pc'[User] = "idle" /\ StopRuns /\ ~StopRuns'
    BY <1>7, GotoMoves, Basics DEF StopErr, StopRuns
  <2>2. proc' = [proc EXCEPT !.status = loc[User].prev, !.desired = TRUE,
                             !.gen = loc[User].prevGen]
    BY <1>7, <2>1 DEF StopErr, IInv, GenerationsOrdered
  <2>3. proc'.status = loc[User].prev /\ proc'.desired
    BY <2>2, Basics DEF Entries
  <2>4. StatusOf' = StatusOf /\ Wanted'
    BY <2>1, <2>3 DEF StatusOf, Wanted
  <2>5. RunningIsDesired'
    BY <2>3 DEF RunningIsDesired
  <2>6. QED
    BY <1>1, <1>2, <1>4, <1>5, <2>1, <2>4, <2>5, UserStays DEF Spawning
<1>8. CASE /\ ~StopBegin /\ ~StopErr
  <2>1. ~StopOk
    <3>1. ASSUME StopOk PROVE Ceiling' # Ceiling
      <4>1. StopRuns /\ proc.gen = loc[User].gen /\ ~StopRuns'
        BY <1>3, <3>1, GotoMoves, Basics DEF StopOk, StopRuns, IInv,
           GenerationsOrdered, AfterStop
      <4>2. proc'.gen = proc.gen
        BY <3>1, <4>1, Basics DEF StopOk, Cleared, Forgotten, Entries
      <4>3. QED
        BY <4>1, <4>2, Basics DEF Ceiling
    <3>2. QED
      BY <3>1
  <2>2. /\ pc[User] \notin {"stopErr", "stopOk", "term", "kill"}
        /\ pc'[User] \in {"idle", "check"}
    BY <1>8, <2>1, StepMoves, GotoMoves, Basics DEF UserStep, OpUnstart, OpBump,
       OpRemove, OpPatch, OpRollback, OpToggle, StopRefused
  <2>3. ~StopRuns /\ ~StopRuns'
    BY <2>2 DEF StopRuns
  <2>4. proc'.status = proc.status /\ proc'.desired = proc.desired
    <3>1. CASE OpToggle
      <4>1. proc'.gen = proc.gen /\ proc.gen + 1 # proc.gen
        BY <2>3, Basics DEF Ceiling
      <4>2. proc' = [proc EXCEPT !.enabled = pc[User] = "enable"]
        BY <3>1, <4>1, Basics DEF OpToggle, Entries
      <4>3. QED
        BY <4>2, Basics DEF Entries
    <3>2. CASE OpBump
      BY <3>2, Basics DEF OpBump, Entries
    <3>3. CASE ~OpToggle /\ ~OpBump
      BY <1>8, <2>1, <3>3 DEF UserStep, OpUnstart, OpRemove, OpPatch, OpRollback,
         StopRefused
    <3>4. QED
      BY <3>1, <3>2, <3>3
  <2>5. StatusOf' = StatusOf /\ (Wanted => Wanted') /\ RunningIsDesired'
    BY <2>3, <2>4 DEF StatusOf, Wanted, TInv, RunningIsDesired
  <2>6. QED
    BY <1>1, <1>2, <1>3, <1>4, <1>5, <2>2, <2>5, UserStays DEF Spawning
<1>9. QED
  BY <1>6, <1>7, <1>8

(* A step that begins a new generation on an entry without a tree.         *)
LEMMA AdvanceTInv ==
  ASSUME IInv, IInv', KInv, TInv, NEW a \in Actors, Advances(a), Exclusive',
         a \in Tasks => RespawnFits(a)', a = User => loc'[a].expect = NoGen,
         proc'.tree = NoTree, proc'.pid \in alive' => Cleaned(proc.pid)',
         \A b \in Actors \ {a} : pc[b] # "kill",
         a # User => pc[User] \notin {"stopOk", "begin"},
         RespawnLocals' => Placed(a)',
         LiveTreesKnown', RunningIsDesired', proc'.pid \in 0 .. spawned'
  PROVE  TInv'
<1>1. Follows(a) /\ Ceiling' > Ceiling /\ NoNews /\ Others(a)
  BY DEF Advances, Follows, Others
<1>2. RespawnLocals'
  <2>1. Ceiling' >= Ceiling
    BY <1>1 DEF Follows
  <2>2. QED
    BY <1>1, <2>1, RespawnKept DEF TInv
<1>3. AnnouncedWanted'
  BY <1>1, AdvanceWanted
<1>4. TreeFits'
  BY DEF TreeFits
<1>5. \A b \in Actors : Placed(b)'
  BY <1>1, <1>2, AdvancePlaces
<1>6. QED
  BY <1>2, <1>3, <1>4, <1>5 DEF TInv

(* A stop that succeeded and a disabling.                                  *)
LEMMA UserAdvancesTInv ==
  ASSUME IInv, IInv', KInv, TInv, UserStep, Ceiling' # Ceiling
  PROVE  TInv'
<1>1. Advances(User)
  BY UserStepKind DEF Keeps
<1>2. StopOk \/ (OpToggle /\ proc'.gen # proc.gen)
  <2>1. CASE StopBegin
    <3>1. ~StopRuns /\ StopRuns' /\ loc'[User] = [loc[User] EXCEPT !.gen = proc.gen + 1,
                           !.prev = proc.status, !.prevGen = proc.gen]
      BY <2>1, StepMoves, Basics DEF StopBegin, StopRuns
    <3>2. Ceiling' = Ceiling
      BY <3>1, Basics DEF Ceiling, Locals
    <3>3. QED
      BY <3>2
  <2>2. CASE StopErr
    <3>1. StopRuns /\ ~StopRuns'
      BY <2>2, GotoMoves, Basics DEF StopErr, StopRuns
    <3>2. proc' = [proc EXCEPT !.status = loc[User].prev, !.desired = TRUE,
                               !.gen = loc[User].prevGen]
      BY <2>2, <3>1 DEF StopErr, IInv, GenerationsOrdered
    <3>3. Ceiling' = Ceiling
      BY <3>1, <3>2, Basics DEF Ceiling, Entries
    <3>4. QED
      BY <3>3
  <2>3. CASE OpUnstart \/ OpBump \/ OpRemove \/ OpPatch \/ OpRollback \/ StopRefused
             \/ (OpToggle /\ proc'.gen = proc.gen)
    <3>1. ~StopRuns /\ ~StopRuns'
      BY <2>3, StepMoves, GotoMoves, Basics DEF OpUnstart, OpBump, OpRemove,
         OpPatch, OpRollback, OpToggle, StopRefused, StopRuns
    <3>2. proc'.gen = proc.gen
      BY <2>3, Basics DEF OpUnstart, OpBump, OpRemove, OpPatch, OpRollback,
         StopRefused, Entries
    <3>3. QED
      BY <3>1, <3>2 DEF Ceiling
  <2>4. QED
    BY <2>1, <2>2, <2>3 DEF UserStep
<1>3. UNCHANGED <<alive, spawned, genOf, watch, events, cleaners>>
  BY <1>2 DEF OpToggle, StopOk, os, tasks
<1>4. /\ pc'[User] \in {"idle", "check", "remove", "patch"} /\ pc[User] \notin HoldingChild
      /\ loc'[User] \in {Fresh, loc[User]} /\ Others(User)
  BY <1>2, GotoMoves, Basics DEF OpToggle, StopOk, AfterStop, HoldingChild, Spawning,
     Others
<1>5. loc'[User].expect = NoGen
  BY <1>4 DEF TInv, RespawnLocals, Fresh
<1>6. /\ proc'.tree = NoTree /\ proc'.pid = NoTree /\ proc.pid = NoTree
      /\ proc'.status = "Stopped" /\ \A b \in Actors : pc[b] # "kill"
  <2>1. CASE StopOk
    <3>1. pc[User] = "stopOk" /\ StopRuns
      BY <2>1 DEF StopOk, StopRuns
    <3>2. proc' = [Cleared(proc) EXCEPT !.status = "Stopped"]
      BY <2>1, <3>1 DEF StopOk, IInv, GenerationsOrdered
    <3>3. ~proc.cleaning /\ proc.pid = NoTree
      BY <3>1, Basics DEF TInv, Placed, HasEmptied
    <3>4. \A b \in Actors : pc[b] # "kill"
      BY <3>3 DEF IInv, CleanupExclusive
    <3>5. QED
      BY <3>2, <3>3, <3>4, Basics DEF Cleared, Forgotten, Entries
  <2>2. CASE OpToggle /\ proc'.gen # proc.gen
    <3>1. /\ proc.pid = NoTree
          /\ proc' = [proc EXCEPT !.enabled = FALSE, !.desired = FALSE,
                                  !.gen = proc.gen + 1, !.status = "Stopped"]
      BY <2>2, Basics DEF OpToggle, Entries
    <3>2. proc.tree = NoTree
      BY <3>1 DEF TInv, TreeFits
    <3>3. ASSUME NEW b \in Actors, pc[b] = "kill" PROVE FALSE
      BY <3>1, <3>3 DEF TInv, Placed, KillsEntry, KInv, KillLocals
    <3>4. QED
      BY <3>1, <3>2, <3>3, Basics DEF Entries
  <2>3. QED
    BY <1>2, <2>1, <2>2
<1>7. Exclusive'
  <2>1. Relaxes(User)
    BY <1>3, <1>4, <1>5, Basics DEF Relaxes, Stake, Spawning
  <2>2. QED
    BY <2>1, RelaxesExclusive, Basics DEF TInv
<1>8. LiveTreesKnown'
  <2>1. Settles(User)
    BY <1>3, <1>4 DEF Settles
  <2>2. QED
    BY <1>4, <1>6, <2>1, KnownKept, Basics DEF TInv
<1>9. RespawnLocals' => Placed(User)'
  BY <1>4, PlacedApart, Basics DEF Stake, Spawning
<1>10. RunningIsDesired' /\ proc'.pid \in 0 .. spawned' /\ proc'.pid \notin alive'
  BY <1>3, <1>6, Basics DEF RunningIsDesired, NoTree, TInv, LiveTreesKnown
<1>11. QED
  BY <1>1, <1>5, <1>6, <1>7, <1>8, <1>9, <1>10, AdvanceTInv, Basics

-----------------------------------------------------------------------------
(* Spawns.                                                                 *)

(* A spawn of a restart task is of the generation after its event's.       *)
LEMMA SpawnOfTask ==
  ASSUME IInv, TInv, NEW a \in Tasks, pc[a] \in Spawning
  PROVE  /\ loc[a].gen = loc[a].expect + 1 /\ loc[a].expect \in Nat
         /\ loc[a].gen \in 0 .. Ceiling /\ loc[a].expect < Ceiling
<1>1. loc[a].gen \in 0 .. Ceiling
  BY SpawningPast DEF Spawners
<1>2. loc[a].gen = loc[a].expect + 1 /\ loc[a].expect \in Nat
  BY DEF TInv, RespawnLocals, RespawnFits, IInv, TaskLocals, Spawning
<1>3. QED
  BY <1>1, <1>2, Basics

(* The steps of a spawn that leave the entry and the trees alone.          *)
LEMMA SpawnStays ==
  ASSUME IInv, IInv', KInv, TInv, NEW a \in Spawners, proc' = proc,
         \/ SpawnCheck(a) \/ SpawnRefused(a) \/ SpawnExecFail(a) \/ SpawnIdentify(a)
         \/ SpawnAttach(a) \/ SpawnCancelled(a) \/ SpawnPid(a)
  PROVE  TInv'
<1>1. /\ UNCHANGED <<alive, spawned, genOf, watch, events, cleaners>>
      /\ a \in Actors /\ a # Loop /\ loc[a] \in Locals
  BY Basics DEF SpawnCheck, SpawnRefused, SpawnExecFail, SpawnIdentify, SpawnAttach,
     SpawnCancelled, SpawnPid, os, tasks
<1>2. CASE SpawnPid(a) /\ Current(proc, loc[a].gen)
  <2>1. proc.pid = loc[a].child /\ loc[a].child # NoTree
    <3>1. proc' = [proc EXCEPT !.pid = loc[a].child, !.identity = TRUE]
      BY <1>2 DEF SpawnPid
    <3>2. proc.pid = loc[a].child
      BY <3>1, Basics DEF Entries
    <3>3. loc[a].child \in 1 .. spawned
      BY <1>2 DEF SpawnPid, IInv, SpawnLocals, HoldingChild, Spawning
    <3>4. QED
      BY <3>2, <3>3, Basics DEF NoTree
  <2>2. loc[a].gen = Ceiling /\ pc[a] = "pid"
    BY <1>2, Basics DEF Current, SpawnPid
  <2>3. QED
    BY <1>1, <2>1, <2>2 DEF TInv, Placed, SpawnsAlone, Spawning
<1>3. CASE ~(SpawnPid(a) /\ Current(proc, loc[a].gen))
  <2>1. Keeps(a) \/ Advances(a)
    BY <1>3, SpawnKind
  <2>2. /\ pc[a] \in {"check", "begin"} \cup Spawning
        /\ pc'[a] \in {"begin", SpawnErr(a)} \cup Spawning
    BY <1>1, <1>3, StepMoves, GotoMoves, Basics DEF SpawnCheck, SpawnRefused,
       SpawnExecFail, SpawnIdentify, SpawnAttach, SpawnCancelled, SpawnPid, Spawning
  <2>3. SpawnErr(a) \in {"failed", "unstart", "rollback", "idle"}
        /\ (a # User => SpawnErr(a) = "failed")
    BY DEF SpawnErr
  <2>4. /\ Others(a) /\ NoNews
    BY <2>1 DEF Keeps, Advances, Follows, Others
  <2>5. Ceiling' = Ceiling /\ StatusOf' = StatusOf /\ (Wanted => Wanted')
    <3>1. CASE a = User
      BY <2>2, <2>3, <3>1 DEF StopRuns, Spawning, Ceiling, StatusOf, Wanted
    <3>2. CASE a # User
      BY <1>1, <2>4, <3>2, Basics DEF StopRuns, Others, Ceiling, StatusOf, Wanted
    <3>3. QED
      BY <3>1, <3>2
  <2>6. \/ pc'[a] = "idle" /\ loc'[a] = Fresh
        \/ /\ loc'[a].expect = loc[a].expect /\ loc'[a].gen = loc[a].gen
           /\ loc'[a].child = loc[a].child
    <3>1. CASE SpawnIdentify(a)
      <4>1. pc[a] = "identify" /\ \E known \in BOOLEAN :
              \/ Step(a, "pid", [loc[a] EXCEPT !.identity = known])
              \/ Step(a, "abandon", [loc[a] EXCEPT !.identity = known])
        BY <3>1, Zenon DEF SpawnIdentify
      <4>2. \E known \in BOOLEAN : loc'[a] = [loc[a] EXCEPT !.identity = known]
        BY <1>1, <4>1, StepMoves, Basics
      <4>3. QED
        BY <1>1, <4>2 DEF Locals
    <3>2. CASE SpawnAttach(a)
      <4>1. loc'[a] \in {loc[a], [loc[a] EXCEPT !.count = proc.restarts]}
        BY <1>1, <3>2, StepMoves, GotoMoves, Basics DEF SpawnAttach
      <4>2. QED
        BY <1>1, <4>1 DEF Locals
    <3>3. CASE \/ SpawnCheck(a) \/ SpawnRefused(a) \/ SpawnExecFail(a)
               \/ SpawnCancelled(a) \/ SpawnPid(a)
      BY <1>1, <3>3, GotoMoves, Basics DEF SpawnCheck, SpawnRefused, SpawnExecFail,
         SpawnCancelled, SpawnPid
    <3>4. QED
      BY <3>1, <3>2, <3>3
  <2>7. \/ pc[a] \in {"check", "begin"} /\ pc'[a] \in {"begin", SpawnErr(a)}
        \/ pc[a] = "exec" /\ pc'[a] = SpawnErr(a)
        \/ pc[a] = "identify" /\ pc'[a] \in {"pid", "abandon"}
        \/ pc[a] = "attach" /\ pc'[a] \in {"commit", "abandon"}
        \/ pc[a] \in {"pid", "commit"} /\ pc'[a] = "abandon"
    BY <1>1, <1>3, StepMoves, GotoMoves, Basics DEF SpawnCheck, SpawnRefused,
       SpawnExecFail, SpawnIdentify, SpawnAttach, SpawnCancelled, SpawnPid
  <2>8. Relaxes(a)
    <3>1. \A g : Stake(a, g)' => Stake(a, g)
      BY <1>1, <2>3, <2>6, <2>7, Basics
         DEF Stake, Respawning, Waiting, Spawning, Serves, Spawners
    <3>2. a \in Tasks => RespawnFits(a)'
      BY <1>1, <2>3, <2>5, <2>6, <2>7, Basics
         DEF TInv, RespawnLocals, RespawnFits, Respawning, Waiting, Spawning, Serves
    <3>3. a = User => loc'[a].expect = NoGen
      BY <2>6 DEF TInv, RespawnLocals, Fresh
    <3>4. QED
      BY <1>1, <2>4, <3>1, <3>2, <3>3 DEF Relaxes
  <2>9. Steady
    <3>1. ASSUME NEW b \in Spawners, Pending(b, Ceiling)' PROVE Pending(b, Ceiling)
      <4>1. CASE b # a
        BY <2>4, <2>5, <3>1, <4>1, Basics DEF Pending, Others
      <4>2. CASE b = a
        BY <1>1, <2>3, <2>5, <2>6, <2>7, <3>1, <4>2, Basics
           DEF Pending, Respawning, Waiting, Spawning, Spawners
      <4>3. QED
        BY <4>1, <4>2
    <3>2. pc[User] = "stopOk" => pc'[User] = "stopOk"
      BY <2>4, <2>7, Basics DEF Others
    <3>3. QED
      BY <1>1, <2>5, <3>1, <3>2 DEF Steady, Cleaned
  <2>10. Settles(a)
    BY <1>1, <2>3, <2>6, <2>7 DEF Settles, HoldingChild, Spawning
  <2>11. Placed(a)'
    <3>1. KillsEntry(a)' /\ HasEmptied(a)'
      BY <2>3, <2>7, Basics DEF KillsEntry, HasEmptied
    <3>2. BeginsAtRest(a)'
      <4>1. ASSUME a = User, pc'[a] = "begin" PROVE ~Active(proc) /\ proc.pid = NoTree
        <5>1. SpawnCheck(a)
          <6>1. pc[a] \in {"check", "begin"}
            BY <2>3, <2>7, <4>1
          <6>2. ~SpawnRefused(a)
            BY <1>1, <2>3, <4>1, GotoMoves, Basics DEF SpawnRefused
          <6>3. QED
            BY <6>1, <6>2 DEF SpawnExecFail, SpawnIdentify, SpawnAttach,
               SpawnCancelled, SpawnPid
        <5>2. loc[a].expect = NoGen
          BY <4>1 DEF TInv, RespawnLocals
        <5>3. QED
          BY <1>1, <2>3, <4>1, <5>1, <5>2, GotoMoves, Basics DEF SpawnCheck
      <4>2. QED
        BY <4>1 DEF BeginsAtRest, Active
    <3>3. SpawnsAlone(a)'
      <4>1. ASSUME pc'[a] \in Spawning
            PROVE  /\ pc[a] \in Spawning /\ loc'[a].gen = loc[a].gen
                   /\ loc'[a].child = loc[a].child
                   /\ pc'[a] \in Attaching => pc[a] \in Attaching
                   /\ pc[a] \in {"attach", "commit", "abandon"} =>
                        pc'[a] \in {"attach", "commit", "abandon"}
        BY <2>3, <2>6, <2>7, <4>1 DEF Spawning, Attaching
      <4>2. SpawnsAlone(a)
        BY <1>1 DEF TInv, Placed
      <4>3. QED
        BY <2>9, <4>1, <4>2 DEF SpawnsAlone, Steady
    <3>4. CASE pc[a] = "exec"
      <4>1. a \in Tasks => loc[a].gen = loc[a].expect + 1 /\ loc[a].expect < Ceiling
        BY <3>4, SpawnOfTask DEF Spawning
      <4>2. WaitsEmpty(a)'
        BY <2>3, <2>5, <2>6, <2>7, <3>4, <4>1, Basics DEF WaitsEmpty, Waiting
      <4>3. loc[a].gen = Ceiling => proc.tree = NoTree /\ proc.pid = NoTree
        BY <1>1, <3>4 DEF TInv, Placed, SpawnsAlone, Spawning
      <4>4. NoTree \notin alive
        BY DEF TInv, LiveTreesKnown, NoTree
      <4>5. LeavesEmpty(a)'
        BY <1>1, <2>3, <2>5, <2>6, <2>7, <3>4, <4>1, <4>3, <4>4
           DEF LeavesEmpty, Waiting
      <4>6. QED
        BY <3>1, <3>2, <3>3, <4>2, <4>5 DEF Placed
    <3>5. CASE pc[a] # "exec"
      <4>1. a \in Tasks /\ pc'[a] \in Waiting =>
              pc[a] \in Waiting /\ loc'[a].expect = loc[a].expect
        BY <2>3, <2>6, <2>7, <3>5 DEF Waiting
      <4>2. WaitsEmpty(a)' /\ LeavesEmpty(a)'
        BY <1>1, <2>5, <4>1 DEF WaitsEmpty, LeavesEmpty, TInv, Placed, Cleaned
      <4>3. QED
        BY <3>1, <3>2, <3>3, <4>2 DEF Placed
    <3>6. QED
      BY <3>4, <3>5
  <2>12. RunningIsDesired'
    BY DEF TInv, RunningIsDesired
  <2>13. LiveTreesKnown'
    BY <1>1, <2>4, <2>9, <2>10, KnownKept DEF TInv, Steady
  <2>14. QED
    BY <1>1, <2>4, <2>8, <2>9, <2>11, <2>12, <2>13, StaysElse
<1>4. QED
  BY <1>2, <1>3

(* While the entry has no PID nobody terminates its tree.                  *)
LEMMA NobodyKills ==
  ASSUME IInv, KInv, TInv, proc.pid = NoTree, NEW b \in Actors
  PROVE  pc[b] # "kill"
BY DEF TInv, Placed, KillsEntry, KInv, KillLocals

(* A spawn takes its generation: of a start on an entry at rest, or of the *)
(* restart task that cleared the entry.                                    *)
LEMMA SpawnBeginTInv ==
  ASSUME IInv, IInv', KInv, TInv, NEW a \in Spawners, SpawnBegin(a)
  PROVE  TInv'
<1>1. /\ a \in Actors /\ a # Loop /\ loc[a] \in Locals /\ ActorsType /\ User \notin Tasks
      /\ proc \in Entries
  BY Basics
<1>2. /\ pc[a] = "begin" /\ pc'[a] = "exec"
      /\ loc'[a] = [loc[a] EXCEPT !.gen = proc.gen + 1]
  BY <1>1, StepMoves DEF SpawnBegin
<1>3. /\ loc'[a].gen = proc.gen + 1 /\ loc'[a].expect = loc[a].expect
  BY <1>1, <1>2 DEF Locals
<1>4. /\ proc'.gen = proc.gen + 1 /\ proc'.status = "Starting" /\ proc'.desired
      /\ proc'.tree = proc.tree /\ proc'.pid = proc.pid /\ SpawnAllowed(a)
      /\ UNCHANGED <<alive, spawned, cleaners, watch, events>>
  BY <1>1 DEF SpawnBegin, Entries, SpawnAllowed, os, tasks
<1>5. a \in Tasks => loc[a].expect \in Nat /\ proc.desired /\ loc[a].expect = proc.gen
  BY <1>2, <1>4, Basics DEF IInv, TaskLocals, SpawnAllowed, NoGen
<1>6. ~StopRuns /\ Ceiling = proc.gen
  BY <1>2, <1>5, Basics DEF StopRuns, Spawners
<1>7. ~StopRuns' /\ Ceiling' = Ceiling + 1
  BY <1>4, <1>6, Basics DEF IInv, GenerationsOrdered, Ceiling
<1>8. Advances(a) /\ Others(a) /\ NoNews
  BY <1>6, <1>7, SpawnKind, Basics DEF Keeps, Advances, Follows, Others
<1>9. proc.pid = NoTree /\ proc.tree = NoTree
  <2>1. CASE a = User
    BY <1>2, <2>1, Basics DEF TInv, Placed, BeginsAtRest, TreeFits
  <2>2. CASE a \in Tasks
    BY <1>1, <1>2, <1>5, <1>6, <2>2 DEF TInv, Placed, WaitsEmpty, Waiting
  <2>3. QED
    BY <2>1, <2>2 DEF Spawners
<1>10. a \in Tasks => Stake(a, Ceiling) /\ pc[User] \notin {"stopOk", "begin"}
  <2>1. ASSUME a \in Tasks PROVE Stake(a, Ceiling) /\ loc[a].expect = Ceiling
    BY <1>2, <1>5, <1>6, <2>1 DEF Stake, Respawning, Waiting
  <2>2. QED
    BY <1>1, <1>6, <2>1, OwnerBusy DEF StopRuns
<1>11. a \in Tasks => RespawnFits(a)'
  BY <1>2, <1>3, <1>5, <1>6, <1>7, Basics DEF RespawnFits, Serves
<1>12. Exclusive'
  <2>1. CASE a \in Tasks
    <3>1. \A g : Stake(a, g)' => Stake(a, g)
      BY <1>1, <1>2, <1>3, <2>1 DEF Stake, Respawning, Waiting, Serves
    <3>2. Relaxes(a)
      BY <1>1, <1>4, <1>8, <1>11, <2>1, <3>1 DEF Relaxes
    <3>3. QED
      BY <1>1, <3>2, RelaxesExclusive DEF TInv
  <2>2. CASE a = User
    <3>1. \A g : Stake(a, g)' <=> g = Ceiling + 1
      BY <1>1, <1>2, <1>3, <1>6, <2>2 DEF Stake, Spawning
    <3>2. ~Announced(Ceiling + 1)
      BY Basics DEF KInv, AnnouncedPast
    <3>3. ASSUME NEW b \in Actors, b # a PROVE ~Stake(b, Ceiling + 1)
      <4>1. CASE b \in Tasks /\ pc[b] \in Waiting /\ loc[b].expect + 1 = Ceiling + 1
        <5>1. loc[b].expect = Ceiling
          BY <4>1, Basics DEF IInv, TaskLocals, Waiting
        <5>2. proc.status \in Busy
          BY <1>6, <3>3, <4>1, <5>1 DEF TInv, Placed, WaitsEmpty, StatusOf
        <5>3. ~Active(proc)
          BY <1>1, <1>2, <2>2 DEF TInv, Placed, BeginsAtRest
        <5>4. QED
          BY <5>2, <5>3 DEF Busy, Active
      <4>2. CASE b \in Tasks /\ pc[b] \in Spawning /\ loc[b].expect + 1 = Ceiling + 1
        BY <4>2, SpawnOfTask, Basics
      <4>3. CASE b \in Tasks /\ pc[b] \in Respawning /\ loc[b].expect = Ceiling + 1
        BY <4>3, Basics DEF TInv, RespawnLocals, RespawnFits
      <4>4. QED
        BY <2>2, <3>2, <3>3, <4>1, <4>2, <4>3 DEF Stake, Announced, Respawning
    <3>4. ASSUME NEW b \in Actors, NEW g, Stake(b, g)'
          PROVE  /\ \A e \in events : e.gen # g
                 /\ \A w \in watch : w.gen # g
                 /\ \A c \in Actors : Stake(c, g)' => b = c
      <4>1. \A c \in Actors \ {a} : Stake(c, g)' <=> Stake(c, g)
        BY <1>8 DEF Stake, Others
      <4>2. CASE b = a
        BY <3>1, <3>2, <3>3, <3>4, <4>1, <4>2 DEF Announced
      <4>3. CASE b # a
        <5>1. Stake(b, g) /\ g # Ceiling + 1
          BY <3>3, <3>4, <4>1, <4>3
        <5>2. /\ \A e \in events : e.gen # g
              /\ \A w \in watch : w.gen # g
              /\ \A c \in Actors : Stake(c, g) => b = c
          BY <5>1 DEF TInv, Exclusive
        <5>3. QED
          BY <3>1, <4>1, <5>1, <5>2
      <4>4. QED
        BY <4>2, <4>3
    <3>5. QED
      BY <1>4, <3>4 DEF TInv, Exclusive
  <2>3. QED
    BY <2>1, <2>2 DEF Spawners
<1>13. a = User => loc'[a].expect = NoGen
  BY <1>3 DEF TInv, RespawnLocals
<1>14. Placed(a)'
  <2>1. SpawnsAlone(a)'
    BY <1>2, <1>4, <1>7, <1>9 DEF SpawnsAlone, Wanted, StatusOf, Attaching
  <2>2. QED
    BY <1>2, <2>1 DEF Placed, WaitsEmpty, LeavesEmpty, Waiting, KillsEntry,
       HasEmptied, BeginsAtRest
<1>15. LiveTreesKnown'
  BY <1>1, <1>2, <1>4, <1>8, KnownKept DEF TInv, Settles, HoldingChild, Spawning
<1>16. proc'.pid \notin alive' /\ proc'.pid \in 0 .. spawned' /\ RunningIsDesired'
  BY <1>1, <1>4, <1>9 DEF TInv, LiveTreesKnown, NoTree, RunningIsDesired
<1>17. QED
  BY <1>1, <1>4, <1>8, <1>9, <1>10, <1>11, <1>12, <1>13, <1>14, <1>15, <1>16,
     AdvanceTInv, NobodyKills DEF Spawners

(* What a spawn of the latest generation is worth while no stop runs.      *)
LEMMA SpawnOwner ==
  ASSUME IInv, KInv, TInv, NEW a \in Spawners, pc[a] \in Spawning,
         loc[a].gen = proc.gen
  PROVE  /\ ~StopRuns /\ loc[a].gen = Ceiling /\ Stake(a, Ceiling)
         /\ pc[User] \notin {"stopOk", "begin"}
         /\ \A b \in Actors : pc[b] # "kill"
         /\ proc.desired /\ proc.status = "Starting" /\ proc.tree = NoTree
<1>1. ~StopRuns /\ loc[a].gen = Ceiling
  BY SpawningPast, Basics
<1>2. Stake(a, Ceiling)
  BY <1>1, SpawnOfTask, Basics DEF Stake, Respawning, Spawners
<1>3. a \in Actors /\ pc[a] \notin Waiting /\ pc[a] # "kill"
  BY Basics DEF Spawning, Waiting
<1>4. pc[User] \notin {"stopOk", "begin"} /\ \A b \in Actors : pc[b] # "kill"
  BY <1>1, <1>2, <1>3, OwnerAlone, OwnerBusy DEF StopRuns
<1>5. proc.desired /\ proc.status = "Starting" /\ proc.tree = NoTree
  BY <1>1, <1>3 DEF TInv, Placed, SpawnsAlone, Wanted, StatusOf
<1>6. QED
  BY <1>1, <1>2, <1>4, <1>5

(* A spawn is over without a commit: nobody has more of a stake.           *)
LEMMA SpawnEnds ==
  ASSUME IInv, IInv', TInv, NEW a \in Spawners, pc[a] \in Spawning,
         Others(a), UNCHANGED <<events, watch>>, Ceiling' >= Ceiling,
         pc'[a] = SpawnErr(a), pc'[a] # "idle" => loc'[a].expect = loc[a].expect,
         pc'[a] = "idle" => loc'[a] = Fresh
  PROVE  /\ Relaxes(a)
         /\ LeavesEmpty(a)' => Placed(a)'
<1>1. a \in Actors /\ a # Loop /\ User \notin Tasks
  BY Basics
<1>2. /\ SpawnErr(a) \in {"failed", "unstart", "rollback", "idle"}
      /\ a # User => SpawnErr(a) = "failed"
  BY DEF SpawnErr
<1>3. a \in Tasks => /\ loc'[a].expect = loc[a].expect /\ loc[a].expect \in Nat
                     /\ loc[a].expect < Ceiling /\ pc'[a] = "failed"
  BY <1>1, <1>2, SpawnOfTask
<1>4. \A g : Stake(a, g)' => Stake(a, g)
  BY <1>1, <1>2, <1>3 DEF Stake, Spawning, Respawning, Waiting, Serves, Spawners
<1>5. a \in Tasks => RespawnFits(a)'
  BY <1>2, <1>3, Basics, CeilingNext DEF RespawnFits, Serves, Respawning, Waiting, Spawning
<1>6. a = User => loc'[a].expect = NoGen
  BY DEF TInv, RespawnLocals, Fresh
<1>7. Relaxes(a)
  BY <1>1, <1>4, <1>5, <1>6 DEF Relaxes
<1>8. SpawnsAlone(a)' /\ KillsEntry(a)' /\ HasEmptied(a)' /\ BeginsAtRest(a)'
  BY <1>2 DEF SpawnsAlone, KillsEntry, HasEmptied, BeginsAtRest, Spawning
<1>9. WaitsEmpty(a)'
  BY <1>3, Basics, CeilingNext DEF WaitsEmpty
<1>10. QED
  BY <1>7, <1>8, <1>9 DEF Placed

(* A spawn fails before the OS has spawned anything: the entry is Errored  *)
(* and empty, with a generation of its own.                                *)
LEMMA SpawnExecFailTInv ==
  ASSUME IInv, IInv', KInv, TInv, NEW a \in Spawners, SpawnExecFail(a), proc' # proc
  PROVE  TInv'
<1>1. /\ a \in Actors /\ a # Loop /\ loc[a] \in Locals /\ ActorsType
      /\ proc \in Entries /\ User \notin Tasks
  BY Basics
<1>2. /\ pc[a] = "exec" /\ pc'[a] = SpawnErr(a)
      /\ loc'[a] = IF pc'[a] = "idle" THEN Fresh ELSE loc[a]
      /\ proc.gen = loc[a].gen /\ proc.desired
      /\ proc' = [Cleared(proc) EXCEPT !.status = "Errored", !.desired = FALSE,
                                       !.gen = proc.gen + 1]
  <2>1. proc' = [Cleared(proc) EXCEPT !.status = "Errored", !.desired = FALSE,
                                      !.gen = @ + 1]
        /\ proc.gen = loc[a].gen /\ proc.desired
    BY DEF SpawnExecFail
  <2>2. Cleared(proc).gen = proc.gen
    BY <1>1 DEF Cleared, Forgotten, Entries
  <2>3. QED
    BY <1>1, <2>1, <2>2, GotoMoves DEF SpawnExecFail
<1>3. /\ proc'.gen = proc.gen + 1 /\ proc'.status = "Errored"
      /\ proc'.tree = NoTree /\ proc'.pid = NoTree
  BY <1>1, <1>2 DEF Cleared, Forgotten, Entries
<1>4. UNCHANGED <<alive, spawned, cleaners, watch, events>>
  BY DEF SpawnExecFail, os, tasks
<1>5. /\ ~StopRuns /\ loc[a].gen = Ceiling
      /\ pc[User] \notin {"stopOk", "begin"}
      /\ \A b \in Actors : pc[b] # "kill"
  BY <1>2, SpawnOwner DEF Spawning
<1>6. proc.pid = NoTree
  BY <1>1, <1>2, <1>5 DEF TInv, Placed, SpawnsAlone, Spawning
<1>7. Ceiling' # Ceiling
  <2>1. pc'[User] = pc[User] \/ pc'[User] = SpawnErr(a)
    BY <1>1, <1>2, GotoMoves, Basics DEF SpawnExecFail
  <2>2. ~StopRuns'
    BY <1>5, <2>1 DEF StopRuns, SpawnErr
  <2>3. QED
    BY <1>3, <1>5, <2>2, Basics DEF Ceiling
<1>8. Advances(a) /\ Others(a) /\ NoNews /\ Ceiling' > Ceiling
  BY <1>7, SpawnKind DEF Keeps, Advances, Follows, Others
<1>9. Relaxes(a) /\ (LeavesEmpty(a)' => Placed(a)')
  BY <1>2, <1>4, <1>8, SpawnEnds, Basics, CeilingNext DEF Spawning
<1>10. LeavesEmpty(a)'
  <2>1. NoTree \notin alive
    BY DEF TInv, LiveTreesKnown, NoTree
  <2>2. QED
    BY <1>3, <1>4, <2>1 DEF LeavesEmpty
<1>11. Exclusive'
  BY <1>1, <1>9, RelaxesExclusive DEF TInv
<1>12. LiveTreesKnown'
  BY <1>1, <1>2, <1>3, <1>4, <1>6, <1>8, KnownKept
     DEF TInv, Settles, HoldingChild, Spawning
<1>13. proc'.pid \notin alive' /\ proc'.pid \in 0 .. spawned' /\ RunningIsDesired'
  BY <1>3, <1>4, Basics DEF TInv, LiveTreesKnown, NoTree, RunningIsDesired
<1>14. QED
  BY <1>1, <1>3, <1>5, <1>8, <1>9, <1>10, <1>11, <1>12, <1>13, AdvanceTInv DEF Relaxes

(* A spawn under way keeps the stakes it has.                              *)
LEMMA SpawnGoesOn ==
  ASSUME IInv, IInv', TInv, NEW a \in Spawners, pc[a] \in Spawning, Others(a),
         UNCHANGED <<events, watch>>, Ceiling' = Ceiling, pc'[a] \in Spawning,
         loc'[a].gen = loc[a].gen, loc'[a].expect = loc[a].expect
  PROVE  Relaxes(a) /\ RespawnLocals' /\ Exclusive'
<1>1. a \in Actors /\ a # Loop /\ User \notin Tasks
  BY Basics
<1>2. \A g : Stake(a, g)' => Stake(a, g)
  BY <1>1 DEF Stake, Respawning, Spawning, Serves
<1>3. a \in Tasks => RespawnFits(a)'
  <2>1. pc'[a] \notin Serves
    BY DEF Spawning, Serves
  <2>2. QED
    BY <2>1, SpawnOfTask DEF RespawnFits, TInv, RespawnLocals, Respawning
<1>4. a = User => loc'[a].expect = NoGen
  BY DEF TInv, RespawnLocals
<1>5. Relaxes(a)
  BY <1>1, <1>2, <1>3, <1>4 DEF Relaxes
<1>6. RespawnLocals'
  BY <1>1, <1>3, <1>4, RespawnKept, Basics DEF TInv
<1>7. QED
  BY <1>1, <1>5, <1>6, RelaxesExclusive DEF TInv

(* The OS spawns a tree: nothing the entry or anyone else knows of.        *)
LEMMA SpawnExecTInv ==
  ASSUME IInv, IInv', KInv, TInv, NEW a \in Spawners, SpawnExec(a)
  PROVE  TInv'
<1>1. /\ UNCHANGED <<proc, watch, events, cleaners>> /\ a \in Actors /\ a # Loop
      /\ loc[a] \in Locals /\ pc[a] = "exec" /\ spawned' = spawned + 1
      /\ alive' = alive \cup {spawned + 1} /\ spawned < MaxTrees
      /\ genOf' = [genOf EXCEPT ![spawned + 1] = loc[a].gen]
  BY Basics DEF SpawnExec, tasks
<1>2. /\ pc'[a] = "identify" /\ loc'[a].gen = loc[a].gen /\ loc'[a].child = spawned + 1
      /\ loc'[a].expect = loc[a].expect /\ Others(a)
  <2>1. /\ pc'[a] = "identify" /\ loc'[a] = [loc[a] EXCEPT !.child = spawned + 1]
        /\ Others(a)
    BY <1>1, StepMoves, Basics DEF SpawnExec, Others
  <2>2. QED
    BY <1>1, <2>1 DEF Locals
<1>3. (StopRuns' <=> StopRuns) /\ Ceiling' = Ceiling /\ StatusOf' = StatusOf
      /\ (Wanted' <=> Wanted)
  BY <1>1, <1>2, Basics DEF StopRuns, Ceiling, StatusOf, Wanted, Others
<1>4. Announced(Ceiling)' => Announced(Ceiling)
  BY <1>1, <1>2, <1>3, Basics DEF Announced, StopRuns, Others, Serves
<1>5. RespawnLocals' /\ Exclusive'
  BY <1>1, <1>2, <1>3, SpawnGoesOn DEF Spawning
<1>6. \A t \in Trees : t <= spawned => genOf'[t] = genOf[t]
  BY <1>1, Basics DEF IInv, TypeOK, OsType, Trees
<1>7. proc.pid \in 0 .. spawned /\ proc.pid # spawned + 1 /\ proc.pid # spawned'
  BY <1>1, Basics DEF TInv
<1>8. proc.pid # NoTree => genOf'[proc.pid] = genOf[proc.pid]
  BY <1>6, <1>7, Basics DEF Entries, MaybeTree
<1>9. AnnouncedWanted'
  BY <1>3, <1>4 DEF TInv, AnnouncedWanted
<1>10. TreeFits'
  BY <1>1, <1>3, <1>8 DEF TInv, TreeFits
<1>11. LiveTreesKnown'
  <2>1. alive' \subseteq 1 .. spawned'
    <3>1. alive \subseteq 1 .. spawned /\ spawned \in Nat
      BY Basics DEF TInv, LiveTreesKnown
    <3>2. QED
      BY <1>1, <3>1
  <2>2. ASSUME NEW t \in alive' PROVE Known(t)'
    <3>1. CASE t = spawned + 1
      BY <1>2, <3>1 DEF Known, HoldingChild, Spawning
    <3>2. CASE t # spawned + 1
      <4>1. Known(t)
        BY <1>1, <2>2, <3>2 DEF TInv, LiveTreesKnown
      <4>2. ASSUME NEW b \in Spawners, pc[b] \in HoldingChild
            PROVE  pc'[b] = pc[b] /\ loc'[b] = loc[b]
        BY <1>1, <1>2, <4>2, Basics DEF HoldingChild, Others
      <4>3. QED
        BY <1>1, <4>1, <4>2 DEF Known, Cleaned
    <3>3. QED
      BY <3>1, <3>2
  <2>3. QED
    BY <2>1, <2>2 DEF LiveTreesKnown
<1>12. RunningIsDesired' /\ proc'.pid \in 0 .. spawned'
  BY <1>1, Basics DEF TInv, RunningIsDesired
<1>13. ASSUME NEW b \in Actors, b # a PROVE Placed(b)'
  <2>1. pc'[b] = pc[b] /\ loc'[b] = loc[b] /\ Placed(b)
    BY <1>2, <1>13 DEF Others, TInv
  <2>2. SpawnsAlone(b)' /\ WaitsEmpty(b)' /\ HasEmptied(b)' /\ BeginsAtRest(b)'
    <3>1. pc[User] = "stopOk" => pc'[User] = "stopOk"
      BY <1>1, <1>2, Basics DEF Others
    <3>2. QED
      BY <1>1, <1>3, <2>1, <3>1 DEF Placed, SpawnsAlone, WaitsEmpty, HasEmptied,
         BeginsAtRest, Active
  <2>3. LeavesEmpty(b)'
    BY <1>1, <1>3, <1>7, <2>1 DEF Placed, LeavesEmpty, Cleaned
  <2>4. KillsEntry(b)'
    <3>1. \A c \in Spawners : Pending(c, Ceiling)' => Pending(c, Ceiling)
      BY <1>1, <1>2, <1>3 DEF Pending, Others, Actors, Spawners, Respawning, Spawning
    <3>2. pc[b] = "kill" => proc.pid # NoTree
      BY NobodyKills
    <3>3. QED
      BY <1>1, <1>3, <1>8, <2>1, <3>1, <3>2 DEF Placed, KillsEntry
  <2>5. QED
    BY <2>2, <2>3, <2>4 DEF Placed
<1>14. Placed(a)'
  <2>1. SpawnsAlone(a)
    BY <1>1 DEF TInv, Placed
  <2>2. SpawnsAlone(a)'
    BY <1>1, <1>2, <1>3, <2>1 DEF SpawnsAlone, Spawning, Attaching
  <2>3. QED
    BY <1>2, <2>2 DEF Placed, WaitsEmpty, LeavesEmpty, Waiting, KillsEntry,
       HasEmptied, BeginsAtRest
<1>15. QED
  BY <1>5, <1>9, <1>10, <1>11, <1>12, <1>13, <1>14 DEF TInv

(* The entry takes the PID of its spawn: it had none.                      *)
LEMMA SpawnPidTInv ==
  ASSUME IInv, IInv', KInv, TInv, NEW a \in Spawners, SpawnPid(a),
         Current(proc, loc[a].gen)
  PROVE  TInv'
<1>1. /\ UNCHANGED <<alive, spawned, genOf, watch, events, cleaners>>
      /\ a \in Actors /\ a # Loop /\ loc[a] \in Locals /\ proc \in Entries
      /\ pc[a] = "pid" /\ loc[a].child \in 1 .. spawned /\ loc[a].gen = proc.gen
      /\ proc' = [proc EXCEPT !.pid = loc[a].child, !.identity = TRUE]
  BY Basics DEF SpawnPid, os, tasks, IInv, SpawnLocals, HoldingChild, Spawning, Current
<1>2. pc'[a] = "attach" /\ loc'[a] = loc[a] /\ Others(a)
  BY <1>1, GotoMoves, Basics DEF SpawnPid, Others
<1>3. /\ proc'.pid = loc[a].child /\ proc'.tree = proc.tree /\ proc'.gen = proc.gen
      /\ proc'.status = proc.status /\ proc'.desired = proc.desired
  BY <1>1 DEF Entries
<1>4. /\ ~StopRuns /\ loc[a].gen = Ceiling /\ Stake(a, Ceiling)
      /\ pc[User] \notin {"stopOk", "begin"}
      /\ proc.desired /\ proc.status = "Starting" /\ proc.tree = NoTree
  BY <1>1, SpawnOwner DEF Spawning
<1>5. proc.pid = NoTree
  BY <1>1, <1>4 DEF TInv, Placed, SpawnsAlone, Spawning
<1>6. ~StopRuns' /\ Ceiling' = Ceiling
  BY <1>2, <1>3, <1>4, Basics DEF StopRuns, Others, Ceiling
<1>7. RespawnLocals' /\ Exclusive'
  BY <1>1, <1>2, <1>6, SpawnGoesOn DEF Spawning
<1>8. AnnouncedWanted'
  <2>1. ~Announced(Ceiling)
    BY <1>1, <1>4 DEF KInv, AnnouncedPast, Spawning
  <2>2. ~Announced(Ceiling)'
    BY <1>1, <1>2, <1>3, <1>4, <1>6, <2>1, Basics DEF Announced, Others, Serves
  <2>3. QED
    BY <2>2 DEF AnnouncedWanted
<1>9. TreeFits' /\ RunningIsDesired' /\ proc'.pid \in 0 .. spawned'
  BY <1>1, <1>3, <1>4, Basics DEF TreeFits, RunningIsDesired
<1>10. LiveTreesKnown'
  <2>1. ASSUME NEW t \in alive' PROVE Known(t)'
    <3>1. Known(t) /\ t # proc.pid
      BY <1>1, <1>5, <2>1 DEF TInv, LiveTreesKnown, NoTree
    <3>2. \A b \in Spawners : pc[b] \in HoldingChild =>
            pc'[b] \in HoldingChild /\ loc'[b].child = loc[b].child
      BY <1>1, <1>2, Basics DEF Others, HoldingChild, Spawning
    <3>3. QED
      BY <1>1, <3>1, <3>2 DEF Known, Cleaned
  <2>2. QED
    BY <1>1, <2>1 DEF TInv, LiveTreesKnown
<1>11. Placed(a)'
  <2>1. SpawnsAlone(a)'
    BY <1>2, <1>3, <1>4, <1>6 DEF SpawnsAlone, Wanted, StatusOf, Attaching
  <2>2. QED
    BY <1>2, <2>1 DEF Placed, WaitsEmpty, LeavesEmpty, Waiting, KillsEntry,
       HasEmptied, BeginsAtRest
<1>12. \A b \in Actors \ {a} : Placed(b)'
  BY <1>1, <1>2, <1>4, <1>6, <1>7, OwnerPlaces
<1>13. QED
  BY <1>7, <1>8, <1>9, <1>10, <1>11, <1>12 DEF TInv

(* A commit: the stake in the generation passes to the exit watcher.       *)
LEMMA SpawnCommitTInv ==
  ASSUME IInv, IInv', KInv, TInv, NEW a \in Spawners, SpawnCommit(a)
  PROVE  TInv'
<1> DEFINE w == [tree |-> loc[a].child, gen |-> loc[a].gen, count |-> loc[a].count]
<1>1. /\ UNCHANGED <<alive, spawned, genOf, events, cleaners>>
      /\ a \in Actors /\ a # Loop /\ loc[a] \in Locals /\ proc \in Entries
      /\ User \notin Tasks /\ pc[a] = "commit" /\ watch' = watch \cup {w}
      /\ loc[a].child \in 1 .. spawned /\ loc[a].gen = proc.gen
      /\ genOf[loc[a].child] = loc[a].gen
      /\ proc' = [proc EXCEPT !.status = "Running", !.tree = loc[a].child]
  BY Basics DEF SpawnCommit, os, IInv, SpawnLocals, HoldingChild, Spawning, Current
<1>2. /\ pc'[a] = SpawnOk(a) /\ Others(a)
      /\ loc'[a] = IF pc'[a] = "idle" THEN Fresh ELSE [loc[a] EXCEPT !.child = NoTree]
  BY <1>1, StepMoves, Basics DEF SpawnCommit, Others
<1>3. /\ SpawnOk(a) \in {"bump", "idle"} /\ (a # User => SpawnOk(a) = "idle")
      /\ loc'[a].expect \in {NoGen, loc[a].expect}
  BY <1>1, <1>2 DEF SpawnOk, Fresh, Locals
<1>4. /\ proc'.pid = proc.pid /\ proc'.tree = loc[a].child /\ proc'.gen = proc.gen
      /\ proc'.status = "Running" /\ proc'.desired = proc.desired
  BY <1>1 DEF Entries
<1>5. /\ ~StopRuns /\ loc[a].gen = Ceiling /\ Stake(a, Ceiling)
      /\ pc[User] \notin {"stopOk", "begin"} /\ proc.desired
  BY <1>1, SpawnOwner DEF Spawning
<1>6. proc.pid = loc[a].child
  BY <1>1, <1>5 DEF TInv, Placed, SpawnsAlone, Spawning, Attaching
<1>7. ~StopRuns' /\ Ceiling' = Ceiling
  BY <1>2, <1>3, <1>4, <1>5, Basics DEF StopRuns, Others, Ceiling
<1>8. \A g : ~Stake(a, g)'
  BY <1>1, <1>2, <1>3 DEF Stake, Spawning, Serves, Respawning, Waiting
<1>9. /\ \A e \in events : e.gen # Ceiling
      /\ \A v \in watch : v.gen # Ceiling
      /\ \A b \in Actors \ {a} : ~Stake(b, Ceiling)
  BY <1>1, <1>5, OwnerAlone
<1>10. Exclusive'
  <2>1. w.gen = Ceiling
    BY <1>5
  <2>2. /\ \A e, f \in events' : e.gen = f.gen => e = f
        /\ \A u, v \in watch' : u.gen = v.gen => u = v
        /\ \A e \in events', v \in watch' : e.gen # v.gen
    BY <1>1, <1>9, <2>1 DEF TInv, Exclusive
  <2>3. ASSUME NEW b \in Actors, NEW g, Stake(b, g)'
        PROVE  /\ \A e \in events' : e.gen # g
               /\ \A v \in watch' : v.gen # g
               /\ \A c \in Actors : Stake(c, g)' => b = c
    <3>1. b # a
      BY <1>8, <2>3
    <3>2. Stake(b, g)
      BY <1>2, <2>3, <3>1 DEF Stake, Others
    <3>3. ASSUME NEW c \in Actors, Stake(c, g)' PROVE Stake(c, g)
      BY <1>2, <1>8, <3>3 DEF Stake, Others
    <3>4. /\ \A e \in events : e.gen # g
          /\ \A v \in watch : v.gen # g
          /\ \A c \in Actors : Stake(c, g) => b = c
      BY <3>2 DEF TInv, Exclusive
    <3>5. g # Ceiling
      BY <1>9, <3>1, <3>2
    <3>6. QED
      BY <1>1, <2>1, <3>3, <3>4, <3>5
  <2>4. QED
    BY <2>2, <2>3 DEF Exclusive
<1>11. RespawnLocals'
  <2>1. a \in Tasks => RespawnFits(a)'
    BY <1>1, <1>2, <1>3 DEF RespawnFits, Serves, Respawning, Waiting, Spawning
  <2>2. a = User => loc'[a].expect = NoGen
    BY <1>3 DEF TInv, RespawnLocals
  <2>3. Ceiling' >= Ceiling
    BY <1>7, Basics
  <2>4. QED
    BY <1>1, <1>2, <2>1, <2>2, <2>3, RespawnKept DEF TInv
<1>12. AnnouncedWanted' /\ RunningIsDesired'
  BY <1>4, <1>5, <1>7 DEF AnnouncedWanted, Wanted, StatusOf, RunningIsDesired
<1>13. TreeFits' /\ proc'.pid \in 0 .. spawned'
  BY <1>1, <1>4, <1>5, <1>6, <1>7 DEF TreeFits, TInv
<1>14. LiveTreesKnown'
  <2>1. ASSUME NEW t \in alive' PROVE Known(t)'
    <3>1. Known(t)
      BY <1>1, <2>1 DEF TInv, LiveTreesKnown
    <3>2. \A b \in Spawners : pc[b] \in HoldingChild /\ loc[b].child = t =>
            t = proc'.pid \/ (pc'[b] \in HoldingChild /\ loc'[b].child = loc[b].child)
      BY <1>1, <1>2, <1>4, <1>6, Basics DEF Others
    <3>3. QED
      BY <1>1, <1>4, <3>1, <3>2 DEF Known, Cleaned
  <2>2. QED
    BY <1>1, <2>1 DEF TInv, LiveTreesKnown
<1>15. Placed(a)'
  BY <1>1, <1>2, <1>3, <1>8, <1>11, PlacedApart
<1>16. \A b \in Actors \ {a} : Placed(b)'
  BY <1>1, <1>2, <1>5, <1>7, <1>11, OwnerPlaces
<1>17. QED
  BY <1>10, <1>11, <1>12, <1>13, <1>14, <1>15, <1>16 DEF TInv

(* cleanup_failed_spawn lets go of the child only when it is dead or a     *)
(* cleaner has it.                                                         *)
LEMMA AbandonMoves ==
  ASSUME IInv, TInv, NEW a \in Spawners, AbandonOk(a) \/ AbandonFail(a)
  PROVE  /\ UNCHANGED <<spawned, genOf, watch, events>>
         /\ pc[a] = "abandon" /\ pc'[a] = SpawnErr(a) /\ Others(a)
         /\ pc'[a] # "idle" => loc'[a].expect = loc[a].expect
         /\ pc'[a] = "idle" => loc'[a] = Fresh
         /\ alive' \subseteq alive /\ cleaners \subseteq cleaners'
         /\ loc[a].child \in 1 .. spawned
         /\ \A t \in alive' : t = loc[a].child => Cleaned(t)'
         /\ proc.gen # loc[a].gen => proc' = proc
         /\ proc.gen = loc[a].gen =>
              /\ proc'.status = "Errored" /\ proc'.gen = proc.gen + 1
              /\ proc'.tree = proc.tree /\ proc'.pid \in {NoTree, loc[a].child}
<1>1. a \in Actors /\ ActorsType /\ loc[a] \in Locals /\ proc \in Entries
  BY Basics
<1>2. /\ pc[a] = "abandon" /\ UNCHANGED <<spawned, genOf, watch, events>>
      /\ Step(a, SpawnErr(a), [loc[a] EXCEPT !.child = NoTree, !.identity = FALSE])
      /\ proc' \in {Abandoned(a, NoTree), Abandoned(a, loc[a].child)}
  BY DEF AbandonOk, AbandonFail, tasks, os
<1>3. /\ pc'[a] = SpawnErr(a) /\ Others(a)
      /\ loc'[a] = IF pc'[a] = "idle" THEN Fresh
                   ELSE [loc[a] EXCEPT !.child = NoTree, !.identity = FALSE]
  BY <1>1, <1>2, StepMoves DEF Others
<1>4. [loc[a] EXCEPT !.child = NoTree, !.identity = FALSE].expect = loc[a].expect
  BY <1>1 DEF Locals
<1>5. loc[a].child \in 1 .. spawned
  BY <1>2 DEF IInv, SpawnLocals, HoldingChild, Spawning
<1>6. alive' \subseteq alive /\ cleaners \subseteq cleaners'
  BY DEF AbandonOk, AbandonFail, Terminated, tasks, os
<1>7. \A t \in alive' : t = loc[a].child => Cleaned(t)'
  <2>1. CASE AbandonOk(a)
    BY <2>1 DEF AbandonOk, Terminated
  <2>2. CASE AbandonFail(a)
    <3> DEFINE c == [tree |-> loc[a].child,
                     retained |-> IF proc.gen = loc[a].gen THEN proc.gen + 1 ELSE NoGen]
    <3>1. c \in cleaners' /\ c.tree = loc[a].child
      BY <2>2 DEF AbandonFail
    <3>2. QED
      BY <3>1 DEF Cleaned
  <2>3. QED
    BY <2>1, <2>2
<1>8. proc.gen # loc[a].gen => proc' = proc
  BY <1>2 DEF Abandoned
<1>9. proc.gen = loc[a].gen =>
        /\ proc'.status = "Errored" /\ proc'.gen = proc.gen + 1
        /\ proc'.tree = proc.tree /\ proc'.pid \in {NoTree, loc[a].child}
  BY <1>1, <1>2 DEF Abandoned, Entries
<1>10. QED
  BY <1>2, <1>3, <1>4, <1>5, <1>6, <1>7, <1>8, <1>9

(* Every live tree is known after it.                                      *)
LEMMA AbandonKnown ==
  ASSUME IInv, TInv, NEW a \in Spawners, AbandonOk(a) \/ AbandonFail(a),
         proc'.pid # proc.pid => proc.pid \in {NoTree, loc[a].child}
  PROVE  LiveTreesKnown'
<1>1. /\ Others(a) /\ alive' \subseteq alive /\ cleaners \subseteq cleaners'
      /\ UNCHANGED spawned
      /\ \A t \in alive' : t = loc[a].child => Cleaned(t)'
  BY AbandonMoves
<1>2. alive \subseteq 1 .. spawned /\ NoTree \notin alive
  BY DEF TInv, LiveTreesKnown, NoTree
<1>3. ASSUME NEW t \in alive' PROVE Known(t)'
  <2>1. CASE t = loc[a].child
    BY <1>1, <1>3, <2>1 DEF Known
  <2>2. CASE t # loc[a].child
    <3>1. Known(t) /\ t # NoTree
      BY <1>1, <1>2, <1>3 DEF TInv, LiveTreesKnown
    <3>2. ASSUME NEW b \in Spawners, pc[b] \in HoldingChild, loc[b].child = t
          PROVE  pc'[b] \in HoldingChild /\ loc'[b].child = t
      BY <1>1, <2>2, <3>2, Basics DEF Others
    <3>3. QED
      BY <1>1, <2>2, <3>1, <3>2 DEF Known, Cleaned
  <2>3. QED
    BY <2>1, <2>2
<1>4. QED
  BY <1>1, <1>2, <1>3 DEF LiveTreesKnown

(* A spawn of an older generation leaves the entry alone.                  *)
LEMMA AbandonStays ==
  ASSUME IInv, IInv', KInv, TInv, NEW a \in Spawners, AbandonOk(a) \/ AbandonFail(a),
         proc.gen # loc[a].gen
  PROVE  TInv'
<1>1. /\ proc' = proc /\ a \in Actors /\ a # Loop /\ loc[a].child # NoTree
      /\ UNCHANGED <<spawned, genOf, watch, events>> /\ User \in Actors
      /\ alive' \subseteq alive /\ cleaners \subseteq cleaners'
      /\ \A t \in alive' : t = loc[a].child => Cleaned(t)'
      /\ pc[a] = "abandon" /\ pc'[a] = SpawnErr(a) /\ Others(a)
      /\ pc'[a] # "idle" => loc'[a].expect = loc[a].expect
      /\ pc'[a] = "idle" => loc'[a] = Fresh
  BY AbandonMoves, Basics DEF NoTree
<1>2. a = User => pc'[User] \in {"idle", "unstart", "rollback"}
  BY <1>1 DEF SpawnErr
<1>3. (pc'[User] = pc[User] /\ loc'[User] = loc[User]) \/ a = User
  BY <1>1 DEF Others
<1>4. /\ StopRuns' <=> StopRuns
      /\ Ceiling' = Ceiling /\ StatusOf' = StatusOf /\ (Wanted' <=> Wanted)
      /\ pc[User] = "stopOk" => pc'[User] = "stopOk"
  BY <1>1, <1>2, <1>3 DEF StopRuns, Ceiling, StatusOf, Wanted
<1>5. NoNews
  <2>1. Keeps(a) \/ Advances(a)
    BY SpawnKind
  <2>2. QED
    BY <2>1 DEF Keeps, Advances, Follows
<1>6. Relaxes(a) /\ (LeavesEmpty(a)' => Placed(a)')
  <2>1. Ceiling' >= Ceiling
    BY <1>4, Basics
  <2>2. QED
    BY <1>1, <2>1, SpawnEnds DEF Spawning
<1>7. Steady
  <2>1. ASSUME NEW b \in Spawners, Pending(b, Ceiling)' PROVE Pending(b, Ceiling)
    <3>1. CASE b = a
      BY <1>1, <1>4, <2>1, <3>1, Basics DEF Pending, Respawning, Spawning, SpawnErr, Waiting
    <3>2. CASE b # a
      BY <1>1, <1>4, <2>1, <3>2, Basics DEF Pending, Others
    <3>3. QED
      BY <3>1, <3>2
  <2>2. QED
    BY <1>1, <1>4, <2>1 DEF Steady, Cleaned
<1>8. LiveTreesKnown' /\ RunningIsDesired'
  BY <1>1, AbandonKnown DEF TInv, RunningIsDesired
<1>9. LeavesEmpty(a)'
  <2>1. CASE a \in Tasks /\ loc'[a].expect + 1 = Ceiling /\ pc'[a] # "idle"
    <3>1. loc[a].gen = Ceiling
      BY <1>1, <2>1, SpawnOfTask DEF Spawning
    <3>2. proc.tree = NoTree /\ proc.pid \in {NoTree, loc[a].child}
      BY <1>1, <3>1 DEF TInv, Placed, SpawnsAlone, Spawning
    <3>3. NoTree \notin alive
      BY DEF TInv, LiveTreesKnown, NoTree
    <3>4. QED
      BY <1>1, <3>2, <3>3 DEF LeavesEmpty
  <2>2. CASE ~(a \in Tasks /\ loc'[a].expect + 1 = Ceiling /\ pc'[a] # "idle")
    BY <1>4, <2>2 DEF LeavesEmpty, Waiting
  <2>3. QED
    BY <2>1, <2>2
<1>10. QED
  BY <1>1, <1>5, <1>6, <1>7, <1>8, <1>9, StaysElse

(* Of the latest generation it leaves the entry with the PID of a child a  *)
(* cleaner has, or with none.                                              *)
LEMMA AbandonAdvances ==
  ASSUME IInv, IInv', KInv, TInv, NEW a \in Spawners, AbandonOk(a) \/ AbandonFail(a),
         proc.gen = loc[a].gen
  PROVE  TInv'
<1>1. /\ a \in Actors /\ User \notin Tasks /\ User \in Actors
      /\ UNCHANGED <<spawned, genOf, watch, events>>
      /\ alive' \subseteq alive /\ loc[a].child \in 1 .. spawned
      /\ \A t \in alive' : t = loc[a].child => Cleaned(t)'
      /\ pc[a] = "abandon" /\ pc'[a] = SpawnErr(a) /\ Others(a)
      /\ pc'[a] # "idle" => loc'[a].expect = loc[a].expect
      /\ pc'[a] = "idle" => loc'[a] = Fresh
      /\ proc'.status = "Errored" /\ proc'.gen = proc.gen + 1
      /\ proc'.tree = proc.tree /\ proc'.pid \in {NoTree, loc[a].child}
  BY AbandonMoves, Basics
<1>2. /\ ~StopRuns /\ loc[a].gen = Ceiling /\ proc.tree = NoTree
      /\ pc[User] \notin {"stopOk", "begin"}
      /\ \A b \in Actors : pc[b] # "kill"
  BY <1>1, SpawnOwner DEF Spawning
<1>3. proc.pid \in {NoTree, loc[a].child}
  BY <1>1, <1>2 DEF TInv, Placed, SpawnsAlone, Spawning
<1>4. Ceiling' # Ceiling
  <2>1. pc'[User] = pc[User] \/ pc'[User] = SpawnErr(a)
    BY <1>1 DEF Others
  <2>2. ~StopRuns'
    BY <1>2, <2>1 DEF StopRuns, SpawnErr
  <2>3. QED
    BY <1>1, <1>2, <2>2, Basics DEF Ceiling
<1>5. Advances(a) /\ Ceiling' > Ceiling
  BY <1>4, SpawnKind DEF Keeps, Advances
<1>6. Relaxes(a) /\ (LeavesEmpty(a)' => Placed(a)')
  BY <1>1, <1>5, SpawnEnds, Basics, CeilingNext DEF Spawning
<1>7. NoTree \notin alive'
  BY <1>1 DEF TInv, LiveTreesKnown, NoTree
<1>8. proc'.pid \in alive' => Cleaned(proc.pid)'
  BY <1>1, <1>7 DEF Cleaned
<1>9. LeavesEmpty(a)'
  BY <1>1, <1>2, <1>8 DEF LeavesEmpty, Cleaned
<1>10. Exclusive'
  BY <1>1, <1>6, RelaxesExclusive DEF TInv
<1>11. LiveTreesKnown'
  BY <1>3, AbandonKnown
<1>12. proc'.pid \in 0 .. spawned' /\ RunningIsDesired' /\ proc'.tree = NoTree
  BY <1>1, <1>2, Basics DEF RunningIsDesired, NoTree
<1>13. QED
  BY <1>1, <1>2, <1>5, <1>6, <1>8, <1>9, <1>10, <1>11, <1>12, AdvanceTInv DEF Relaxes

(* Every step of a spawn.                                                  *)
LEMMA SpawnTInv ==
  ASSUME IInv, IInv', KInv, TInv, NEW a \in Spawners, Spawn(a)
  PROVE  TInv'
<1>1. CASE SpawnBegin(a)
  BY <1>1, SpawnBeginTInv
<1>2. CASE SpawnExec(a)
  BY <1>2, SpawnExecTInv
<1>3. CASE SpawnPid(a)
  <2>1. CASE Current(proc, loc[a].gen)
    BY <1>3, <2>1, SpawnPidTInv
  <2>2. CASE ~Current(proc, loc[a].gen)
    <3>1. proc' = proc
      BY <1>3, <2>2 DEF SpawnPid
    <3>2. QED
      BY <1>3, <3>1, SpawnStays
  <2>3. QED
    BY <2>1, <2>2
<1>4. CASE SpawnCommit(a)
  BY <1>4, SpawnCommitTInv
<1>5. CASE AbandonOk(a) \/ AbandonFail(a)
  BY <1>5, AbandonStays, AbandonAdvances
<1>6. CASE SpawnExecFail(a) /\ proc' # proc
  BY <1>6, SpawnExecFailTInv
<1>7. CASE \/ SpawnCheck(a) \/ SpawnRefused(a) \/ (SpawnExecFail(a) /\ proc' = proc)
           \/ SpawnIdentify(a) \/ SpawnAttach(a) \/ SpawnCancelled(a)
  <2>1. proc' = proc
    BY <1>7 DEF SpawnCheck, SpawnRefused, SpawnIdentify, SpawnAttach, SpawnCancelled
  <2>2. QED
    BY <1>7, <2>1, SpawnStays
<1>8. QED
  BY <1>1, <1>2, <1>3, <1>4, <1>5, <1>6, <1>7 DEF Spawn

-----------------------------------------------------------------------------
(* restart_loop and its tasks.                                             *)

(* A background actor that leaves the entry alone.                         *)
LEMMA BackgroundStays ==
  ASSUME IInv, IInv', KInv, TInv, NEW a \in Actors \ {User}, Others(a), proc' = proc,
         UNCHANGED <<alive, spawned, genOf, cleaners, watch>>, events' \subseteq events,
         Exclusive', a \in Tasks => RespawnFits(a)',
         pc[a] \notin HoldingChild, \A g : Pending(a, g)' => Pending(a, g), Placed(a)',
         a = Loop /\ pc'[a] # "idle" => Announced(loc'[a].gen),
         a \in Tasks /\ pc'[a] \in Serves => Announced(loc'[a].gen)
  PROVE  TInv'
<1>1. /\ Ceiling' = Ceiling /\ StatusOf' = StatusOf /\ (Wanted' <=> Wanted)
      /\ pc'[User] = pc[User]
  BY Basics DEF StopRuns, Ceiling, StatusOf, Wanted, Others
<1>2. NoNews
  <2>1. proc'.status = "Running" => Announced(proc'.gen)
    BY DEF Announced
  <2>2. QED
    BY <2>1, ListsAnnounced, NewsOfStep DEF Others
<1>3. Steady
  <2>1. ASSUME NEW b \in Spawners, Pending(b, Ceiling)' PROVE Pending(b, Ceiling)
    <3>1. CASE b = a
      BY <1>1, <2>1, <3>1
    <3>2. CASE b # a
      BY <1>1, <2>1, <3>2, Basics DEF Pending, Others
    <3>3. QED
      BY <3>1, <3>2
  <2>2. QED
    BY <1>1, <2>1 DEF Steady, Cleaned
<1>4. LiveTreesKnown'
  BY KnownKept DEF TInv, Settles
<1>5. RunningIsDesired'
  BY DEF TInv, RunningIsDesired
<1>6. QED
  BY <1>2, <1>3, <1>4, <1>5, StaysWith

(* ... because it is done.                                                 *)
LEMMA BackgroundEnds ==
  ASSUME IInv, IInv', KInv, TInv, NEW a \in Actors \ {User}, Others(a), proc' = proc,
         UNCHANGED <<alive, spawned, genOf, cleaners, watch>>, events' \subseteq events,
         pc[a] \notin HoldingChild, pc'[a] = "idle"
  PROVE  TInv'
<1>1. \A g : ~Stake(a, g)' /\ ~Pending(a, g)'
  BY DEF Stake, Pending, Serves, Respawning, Waiting, Spawning
<1>2. a \in Tasks => RespawnFits(a)'
  BY DEF RespawnFits, Serves, Respawning, Waiting, Spawning
<1>3. Relaxes(a)
  BY <1>1, <1>2 DEF Relaxes
<1>4. Exclusive'
  BY <1>3, RelaxesExclusive DEF TInv
<1>5. Placed(a)'
  BY DEF Placed, SpawnsAlone, WaitsEmpty, LeavesEmpty, Waiting, Spawning, KillsEntry,
     HasEmptied, BeginsAtRest
<1>6. pc'[a] \notin Serves
  BY DEF Serves
<1>7. QED
  BY <1>1, <1>2, <1>4, <1>5, <1>6, BackgroundStays

(* An actor takes the stake of an event it takes.                          *)
LEMMA StakeTaken ==
  ASSUME Exclusive, NEW a \in Actors, NEW e \in events, Others(a),
         events' = events \ {e}, UNCHANGED watch,
         \A g : Stake(a, g)' => g = e.gen
  PROVE  Exclusive'
<1>1. /\ \A b \in Actors : ~Stake(b, e.gen)
      /\ \A f \in events : f.gen = e.gen => f = e
      /\ \A w \in watch : w.gen # e.gen
  BY DEF Exclusive
<1>2. ASSUME NEW b \in Actors \ {a}, NEW g PROVE Stake(b, g)' <=> Stake(b, g)
  BY DEF Stake, Others
<1>3. ASSUME NEW b \in Actors, NEW g, Stake(b, g)'
      PROVE  /\ \A f \in events' : f.gen # g
             /\ \A w \in watch' : w.gen # g
             /\ \A c \in Actors : Stake(c, g)' => b = c
  <2>1. CASE b = a
    BY <1>1, <1>2, <1>3, <2>1
  <2>2. CASE b # a
    <3>1. Stake(b, g)
      BY <1>2, <1>3, <2>2
    <3>2. g # e.gen
      BY <1>1, <3>1
    <3>3. /\ \A f \in events : f.gen # g
          /\ \A w \in watch : w.gen # g
          /\ \A c \in Actors : Stake(c, g) => b = c
      BY <3>1 DEF Exclusive
    <3>4. QED
      BY <1>2, <3>2, <3>3
  <2>3. QED
    BY <2>1, <2>2
<1>4. QED
  BY <1>3 DEF Exclusive

(* The owner of the latest generation acts on the entry without touching   *)
(* PID or tree.                                                            *)
LEMMA OwnerActs ==
  ASSUME IInv, IInv', KInv, TInv, NEW a \in Actors \ {User}, Stake(a, Ceiling), ~StopRuns,
         Ceiling' = Ceiling, Relaxes(a), pc[User] # "begin",
         proc'.pid = proc.pid, proc'.tree = proc.tree,
         UNCHANGED <<alive, spawned, genOf, cleaners>>, pc[a] \notin HoldingChild,
         AnnouncedWanted', RunningIsDesired', Placed(a)'
  PROVE  TInv'
<1>1. Others(a)
  BY DEF Relaxes
<1>2. RespawnLocals'
  <2>1. Ceiling' >= Ceiling
    BY Basics
  <2>2. QED
    BY <2>1, RespawnKept DEF TInv, Relaxes
<1>3. \A b \in Actors \ {a} : Placed(b)'
  BY <1>1, <1>2, OwnerPlaces
<1>4. Exclusive'
  BY RelaxesExclusive DEF TInv
<1>5. LiveTreesKnown'
  BY <1>1, KnownKept DEF TInv, Settles
<1>6. TreeFits' /\ proc'.pid \in 0 .. spawned'
  BY DEF TInv, TreeFits
<1>7. QED
  BY <1>2, <1>3, <1>4, <1>5, <1>6 DEF TInv

(* restart_loop takes an event and its stake.                              *)
LEMMA LoopTakesTInv ==
  ASSUME IInv, IInv', KInv, TInv, NEW e \in events, LoopRestart(e) \/ LoopExit(e)
  PROVE  TInv'
<1>1. /\ proc' = proc /\ UNCHANGED <<alive, spawned, genOf, cleaners, watch>>
      /\ pc[Loop] = "idle" /\ events' = events \ {e} /\ e.gen \in 0 .. Ceiling
      /\ Announced(e.gen)
  BY ListsAnnounced DEF LoopRestart, LoopExit, os, Take, KInv, AnnouncedPast
<1>2. Loop \in Actors \ {User} /\ Loop \notin Tasks /\ Tasks \subseteq Actors \ {User}
      /\ Loop \notin Spawners
  BY Basics
<1>3. CASE UNCHANGED <<pc, loc>>
  BY <1>1, <1>2, <1>3, BackgroundEnds DEF Others, HoldingChild, Spawning
<1>4. CASE LoopExit(e) /\ ~UNCHANGED <<pc, loc>>
  <2>1. /\ pc'[Loop] = "term" /\ Others(Loop)
        /\ loc'[Loop] = [Fresh EXCEPT !.op = e.kind, !.gen = e.gen, !.count = e.count]
    BY <1>4, StepMoves, Basics DEF LoopExit, Others
  <2>2. loc'[Loop].gen = e.gen
    BY <2>1, FreshType DEF Locals
  <2>3. \A g : Stake(Loop, g)' => g = e.gen
    BY <1>2, <2>2 DEF Stake
  <2>4. Exclusive'
    BY <1>1, <1>2, <2>1, <2>3, StakeTaken DEF TInv
  <2>5. Placed(Loop)'
    BY <1>2, <2>1 DEF Placed, SpawnsAlone, WaitsEmpty, LeavesEmpty, KillsEntry,
       HasEmptied, BeginsAtRest
  <2>6. \A g : ~Pending(Loop, g)'
    BY <1>2 DEF Pending
  <2>7. pc[Loop] \notin HoldingChild
    BY <1>1 DEF HoldingChild, Spawning
  <2>8. QED
    BY <1>1, <1>2, <2>1, <2>2, <2>4, <2>5, <2>6, <2>7, BackgroundStays
<1>5. CASE LoopRestart(e) /\ ~UNCHANGED <<pc, loc>>
  <2>1. PICK a \in Tasks :
          /\ pc[a] = "idle"
          /\ Step(a, "claim", [Fresh EXCEPT !.gen = e.gen, !.expect = e.gen])
    BY <1>5 DEF LoopRestart
  <2>2. /\ pc'[a] = "claim" /\ Others(a)
        /\ loc'[a] = [Fresh EXCEPT !.gen = e.gen, !.expect = e.gen]
    BY <1>2, <2>1, StepMoves, Basics DEF Others
  <2>3. loc'[a].gen = e.gen /\ loc'[a].expect = e.gen
    BY <2>2, FreshType DEF Locals
  <2>4. \A g : Stake(a, g)' => g = e.gen
    BY <1>2, <2>2, <2>3 DEF Stake, Respawning, Waiting, Spawning
  <2>5. Exclusive'
    BY <1>1, <1>2, <2>2, <2>4, StakeTaken DEF TInv
  <2>6. RespawnFits(a)' /\ \A g : ~Pending(a, g)'
    BY <1>2, <2>2, <2>3 DEF RespawnFits, Pending, Respawning, Waiting, Spawning
  <2>7. Placed(a)'
    BY <1>2, <2>2 DEF Placed, SpawnsAlone, WaitsEmpty, LeavesEmpty, Waiting, Spawning,
       KillsEntry, HasEmptied, BeginsAtRest
  <2>8. pc[a] \notin HoldingChild
    BY <2>1 DEF HoldingChild, Spawning
  <2>9. QED
    BY <1>1, <1>2, <2>2, <2>3, <2>5, <2>6, <2>7, <2>8, BackgroundStays
<1>6. QED
  BY <1>3, <1>4, <1>5

(* Handling an exit: the entry of the generation it is about is given up,  *)
(* after a termination that succeeded left nothing in it.                  *)
LEMMA LoopExitTInv ==
  ASSUME IInv, IInv', KInv, TInv, LoopExitErr \/ LoopExitOk
  PROVE  TInv'
<1>1. /\ Loop \in Actors \ {User} /\ Loop \notin Tasks /\ Loop \notin Spawners
      /\ proc \in Entries
  BY Basics
<1>2. /\ UNCHANGED <<alive, spawned, genOf, cleaners, watch, events>> /\ Others(Loop)
      /\ pc[Loop] \in {"exitErr", "exitOk"} /\ pc'[Loop] = "idle"
  BY GotoMoves, Basics DEF LoopExitErr, LoopExitOk, os, tasks, Others
<1>3. CASE proc' = proc
  BY <1>1, <1>2, <1>3, BackgroundEnds DEF HoldingChild, Spawning
<1>4. CASE proc' # proc
  <2>1. proc.gen = loc[Loop].gen /\ Announced(loc[Loop].gen)
    BY <1>2, <1>4 DEF LoopExitErr, LoopExitOk, Announced
  <2>2. ~StopRuns /\ Ceiling = loc[Loop].gen /\ Stake(Loop, Ceiling)
    BY <1>2, <2>1, Basics DEF KInv, AnnouncedPast, Stake
  <2>3. /\ proc'.pid = proc.pid /\ proc'.tree = proc.tree /\ proc'.gen = proc.gen
        /\ proc'.status # "Running"
    <3>1. CASE LoopExitErr
      BY <1>1, <1>4, <3>1 DEF LoopExitErr, Entries
    <3>2. CASE LoopExitOk
      <4>1. proc.pid = NoTree /\ proc.tree = NoTree
        BY <1>1, <2>2, <3>2 DEF TInv, Placed, HasEmptied, LoopExitOk
      <4>2. QED
        BY <1>1, <1>4, <3>2, <4>1 DEF LoopExitOk, Cleared, Forgotten, Entries
    <3>3. QED
      BY <3>1, <3>2
  <2>4. pc[User] # "begin"
    BY <1>1, <1>2, <2>2, OwnerBusy DEF Waiting
  <2>5. ~StopRuns' /\ Ceiling' = Ceiling
    BY <1>1, <1>2, <2>2, <2>3, Basics DEF StopRuns, Others, Ceiling
  <2>6. Relaxes(Loop)
    BY <1>1, <1>2 DEF Relaxes, Stake
  <2>7. ~Announced(Ceiling)'
    BY <1>1, <1>2, <2>2, <2>3, <2>5, OwnerAnnounces
  <2>8. Placed(Loop)'
    BY <1>1, <1>2 DEF Placed, SpawnsAlone, WaitsEmpty, LeavesEmpty, KillsEntry,
       HasEmptied, BeginsAtRest
  <2>9. AnnouncedWanted' /\ RunningIsDesired'
    BY <2>3, <2>7 DEF AnnouncedWanted, RunningIsDesired
  <2>10. pc[Loop] \notin HoldingChild
    BY <1>2 DEF HoldingChild, Spawning
  <2>11. QED
    BY <1>1, <1>2, <2>2, <2>3, <2>4, <2>5, <2>6, <2>8, <2>9, <2>10, OwnerActs
<1>5. QED
  BY <1>3, <1>4

(* What a restart task that serves an event of the entry's generation is   *)
(* worth.                                                                  *)
LEMMA ServesOwner ==
  ASSUME IInv, KInv, TInv, NEW a \in Tasks, pc[a] \in Serves, proc.gen = loc[a].gen
  PROVE  /\ ~StopRuns /\ loc[a].gen = Ceiling /\ Stake(a, Ceiling)
         /\ Announced(Ceiling) /\ proc.desired /\ proc.status \in {"Running", "Stopping"}
         /\ pc[User] # "begin" /\ loc[a].expect = Ceiling
<1>1. Announced(loc[a].gen)
  BY DEF Announced
<1>2. ~StopRuns /\ loc[a].gen = Ceiling
  BY <1>1, Basics DEF KInv, AnnouncedPast
<1>3. Stake(a, Ceiling) /\ pc[a] \notin Waiting
  BY <1>2 DEF Stake, Serves, Waiting
<1>4. pc[User] # "begin"
  BY <1>2, <1>3, OwnerBusy, Basics
<1>5. proc.desired /\ proc.status \in {"Running", "Stopping"}
  BY <1>1, <1>2 DEF TInv, AnnouncedWanted, Wanted, StatusOf
<1>6. QED
  BY <1>1, <1>2, <1>3, <1>4, <1>5 DEF TInv, RespawnLocals, RespawnFits

(* The task claims a running entry, and gives it back when it cannot       *)
(* terminate the old tree.                                                 *)
LEMMA TaskClaimTInv ==
  ASSUME IInv, IInv', KInv, TInv, NEW a \in Tasks, TaskClaim(a) \/ TaskRestore(a)
  PROVE  TInv'
<1>1. /\ a \in Actors \ {User} /\ a # Loop /\ a # User /\ proc \in Entries
      /\ loc[a] \in Locals
  BY Basics
<1>2. /\ UNCHANGED <<alive, spawned, genOf, cleaners, watch, events>> /\ Others(a)
      /\ pc[a] \in {"claim", "restore"} /\ pc'[a] \in {"idle", "term"}
  BY <1>1, StepMoves, GotoMoves, Basics DEF TaskClaim, TaskRestore, os, tasks, Others
<1>3. pc[a] \in Serves /\ pc[a] \notin HoldingChild
  BY <1>2 DEF Serves, HoldingChild, Spawning
<1>4. CASE pc'[a] = "idle" /\ proc' = proc
  BY <1>1, <1>2, <1>3, <1>4, BackgroundEnds
<1>5. CASE pc'[a] # "idle" \/ proc' # proc
  <2>1. /\ proc.gen = loc[a].gen
        /\ \/ /\ TaskClaim(a) /\ proc.status # "Stopping" /\ pc'[a] = "term"
              /\ proc' = [proc EXCEPT !.status = "Stopping"]
              /\ loc'[a] = [loc[a] EXCEPT !.prev = proc.status]
           \/ /\ TaskRestore(a) /\ pc'[a] = "idle"
              /\ proc' = [proc EXCEPT !.status = loc[a].prev]
    BY <1>1, <1>5, StepMoves, GotoMoves, Basics DEF TaskClaim, TaskRestore, Current
  <2>2. /\ ~StopRuns /\ loc[a].gen = Ceiling /\ Stake(a, Ceiling)
        /\ Announced(Ceiling) /\ proc.desired /\ pc[User] # "begin"
    BY <1>3, <2>1, ServesOwner
  <2>3. /\ proc'.pid = proc.pid /\ proc'.tree = proc.tree /\ proc'.gen = proc.gen
        /\ proc'.desired
        /\ pc'[a] = "term" => proc'.status = "Stopping"
    BY <1>1, <2>1, <2>2 DEF Entries
  <2>4. ~StopRuns' /\ Ceiling' = Ceiling
    BY <1>1, <1>2, <2>2, <2>3, Basics DEF StopRuns, Others, Ceiling
  <2>5. pc'[a] # "idle" => loc'[a].gen = loc[a].gen /\ loc'[a].expect = loc[a].expect
    BY <1>1, <2>1 DEF Locals
  <2>6. RespawnFits(a)'
    BY <1>2, <1>3, <2>5 DEF RespawnFits, TInv, RespawnLocals, Serves, Respawning,
       Waiting, Spawning
  <2>7. Relaxes(a)
    <3>1. \A g : Stake(a, g)' => Stake(a, g)
      BY <1>1, <1>2, <1>3, <2>5 DEF Stake, Serves, Respawning, Waiting, Spawning
    <3>2. QED
      BY <1>1, <1>2, <2>6, <3>1 DEF Relaxes
  <2>8. AnnouncedWanted'
    <3>1. Announced(Ceiling)' => pc'[a] = "term" \/ proc'.status = "Running"
      BY <1>1, <1>2, <2>2, <2>4, OwnerAnnounces DEF Serves
    <3>2. QED
      BY <2>3, <2>4, <3>1 DEF AnnouncedWanted, Wanted, StatusOf
  <2>9. RunningIsDesired'
    BY <2>3 DEF RunningIsDesired
  <2>10. Placed(a)'
    BY <1>1, <1>2 DEF Placed, SpawnsAlone, WaitsEmpty, LeavesEmpty, Waiting, Spawning,
       KillsEntry, HasEmptied, BeginsAtRest
  <2>11. QED
    BY <1>1, <1>2, <1>3, <2>2, <2>3, <2>4, <2>7, <2>8, <2>9, <2>10, OwnerActs
<1>6. QED
  BY <1>4, <1>5

(* The task has terminated the old tree: it clears the entry, and its      *)
(* stake grows by the generation it is about to begin.                     *)
LEMMA TaskClearTInv ==
  ASSUME IInv, IInv', KInv, TInv, NEW a \in Tasks, TaskClear(a)
  PROVE  TInv'
<1>1. /\ a \in Actors \ {User} /\ a # Loop /\ a # User /\ proc \in Entries
      /\ loc[a] \in Locals /\ a \in Spawners
  BY Basics DEF Spawners
<1>2. /\ UNCHANGED <<alive, spawned, genOf, cleaners, watch, events>> /\ Others(a)
      /\ pc[a] = "clear" /\ pc'[a] \in {"idle", "check"}
  BY <1>1, GotoMoves, Basics DEF TaskClear, os, tasks, Others
<1>3. pc[a] \in Serves /\ pc[a] \notin HoldingChild
  BY <1>2 DEF Serves, HoldingChild, Spawning
<1>4. CASE pc'[a] = "idle" /\ proc' = proc
  BY <1>1, <1>2, <1>3, <1>4, BackgroundEnds
<1>5. ASSUME pc'[a] # "idle" \/ proc' # proc
      PROVE  /\ proc.gen = loc[a].gen
             /\ \/ /\ pc'[a] = "check" /\ loc'[a] = loc[a]
                   /\ proc' = [Cleared(proc) EXCEPT !.restarts = @ + 1]
                \/ /\ pc'[a] = "idle"
                   /\ proc' = [Cleared(proc) EXCEPT !.status = "Stopped",
                                                    !.desired = FALSE]
  BY <1>1, <1>5, GotoMoves, Basics DEF TaskClear, Current
<1>6. CASE pc'[a] # "idle" \/ proc' # proc
  <2>1. /\ ~StopRuns /\ loc[a].gen = Ceiling /\ Stake(a, Ceiling)
        /\ proc.desired /\ pc[User] # "begin" /\ loc[a].expect = Ceiling
        /\ proc.status \in {"Running", "Stopping"}
    BY <1>3, <1>5, <1>6, ServesOwner
  <2>2. proc.pid = NoTree /\ proc.tree = NoTree
    BY <1>1, <1>2, <2>1 DEF TInv, Placed, HasEmptied
  <2>3. /\ proc'.pid = proc.pid /\ proc'.tree = proc.tree /\ proc'.gen = proc.gen
        /\ pc'[a] = "check" => proc'.status = proc.status /\ proc'.desired
        /\ pc'[a] = "idle" => proc'.status = "Stopped"
    BY <1>1, <1>5, <1>6, <2>1, <2>2 DEF Entries, Cleared, Forgotten
  <2>4. ~StopRuns' /\ Ceiling' = Ceiling /\ pc'[User] = pc[User]
    BY <1>1, <1>2, <2>1, <2>3, Basics DEF StopRuns, Others, Ceiling
  <2>5. AnnouncedWanted'
    <3>1. Announced(Ceiling)' => proc'.status = "Running"
      BY <1>1, <1>2, <2>1, <2>4, OwnerAnnounces DEF Serves
    <3>2. QED
      BY <1>2, <2>3, <2>4, <3>1 DEF AnnouncedWanted, Wanted, StatusOf
  <2>6. RunningIsDesired'
    BY <1>2, <2>3 DEF RunningIsDesired
  <2>7. CASE pc'[a] = "idle"
    <3>1. Relaxes(a)
      BY <1>1, <1>2, <2>7 DEF Relaxes, Stake, RespawnFits, Serves, Respawning, Waiting,
         Spawning
    <3>2. Placed(a)'
      BY <1>1, <2>7 DEF Placed, SpawnsAlone, WaitsEmpty, LeavesEmpty, Waiting, Spawning,
         KillsEntry, HasEmptied, BeginsAtRest
    <3>3. QED
      BY <1>1, <1>2, <1>3, <2>1, <2>3, <2>4, <2>5, <2>6, <3>1, <3>2, OwnerActs
  <2>8. CASE pc'[a] = "check"
    <3>1. loc'[a].expect = Ceiling /\ Ceiling \in Nat
      BY <1>5, <1>6, <2>1, <2>8, Basics
    <3>2. \A g : Stake(a, g)' <=> g \in {Ceiling, Ceiling + 1}
      BY <1>1, <2>8, <3>1 DEF Stake, Serves, Respawning, Waiting
    <3>3. /\ \A e \in events : e.gen # Ceiling
          /\ \A w \in watch : w.gen # Ceiling
          /\ \A b \in Actors \ {a} : ~Stake(b, Ceiling)
      BY <1>1, <2>1, OwnerAlone
    <3>4. ~Announced(Ceiling + 1)
      BY <3>1 DEF KInv, AnnouncedPast
    <3>5. ASSUME NEW b \in Actors, b # a PROVE ~Stake(b, Ceiling + 1)
      <4>1. CASE b \in Tasks /\ pc[b] \in Respawning /\ loc[b].expect = Ceiling + 1
        BY <3>1, <4>1 DEF TInv, RespawnLocals, RespawnFits
      <4>2. CASE b \in Tasks /\ pc[b] \in Respawning /\ loc[b].expect + 1 = Ceiling + 1
        <5>1. loc[b].expect = Ceiling
          BY <3>1, <4>2 DEF TInv, RespawnLocals, RespawnFits
        <5>2. Stake(b, Ceiling)
          BY <4>2, <5>1 DEF Stake
        <5>3. QED
          BY <3>3, <3>5, <5>2
      <4>3. CASE b = User /\ pc[b] \in Spawning /\ loc[b].gen = Ceiling + 1
        BY <3>1, <4>3, SpawningPast DEF Spawners
      <4>4. QED
        BY <3>4, <4>1, <4>2, <4>3 DEF Stake, Announced
    <3>6. Exclusive'
      <4>1. ASSUME NEW b \in Actors, NEW g, Stake(b, g)'
            PROVE  /\ \A e \in events' : e.gen # g
                   /\ \A w \in watch' : w.gen # g
                   /\ \A c \in Actors : Stake(c, g)' => b = c
        <5>1. \A c \in Actors \ {a} : Stake(c, g)' <=> Stake(c, g)
          BY <1>2 DEF Stake, Others
        <5>2. CASE b = a
          BY <1>2, <3>2, <3>3, <3>4, <3>5, <4>1, <5>1, <5>2 DEF Announced
        <5>3. CASE b # a
          <6>1. Stake(b, g) /\ g # Ceiling + 1 /\ g # Ceiling
            BY <3>3, <3>5, <4>1, <5>1, <5>3
          <6>2. /\ \A e \in events : e.gen # g
                /\ \A w \in watch : w.gen # g
                /\ \A c \in Actors : Stake(c, g) => b = c
            BY <6>1 DEF TInv, Exclusive
          <6>3. QED
            BY <1>2, <3>2, <5>1, <6>1, <6>2
        <5>4. QED
          BY <5>2, <5>3
      <4>2. QED
        BY <1>2, <4>1 DEF TInv, Exclusive
    <3>7. RespawnLocals'
      <4>1. RespawnFits(a)'
        BY <2>4, <2>8, <3>1 DEF RespawnFits, Serves, Spawning
      <4>2. QED
        BY <1>1, <1>2, <2>4, <3>1, <4>1, RespawnKept DEF TInv
    <3>8. Placed(a)'
      <4>1. WaitsEmpty(a)'
        BY <2>1, <2>2, <2>3, <2>4, <2>8 DEF WaitsEmpty, StatusOf, Busy
      <4>2. LeavesEmpty(a)'
        BY <2>4, <3>1 DEF LeavesEmpty
      <4>3. QED
        BY <1>1, <2>8, <4>1, <4>2 DEF Placed, SpawnsAlone, Spawning, KillsEntry,
           HasEmptied, BeginsAtRest
    <3>9. \A b \in Actors \ {a} : Placed(b)'
      BY <1>1, <1>2, <2>1, <2>4, <3>7, OwnerPlaces
    <3>10. LiveTreesKnown'
      BY <1>1, <1>2, <1>3, <2>3, KnownKept DEF TInv, Settles
    <3>11. TreeFits' /\ proc'.pid \in 0 .. spawned'
      BY <1>2, <2>2, <2>3 DEF TreeFits, TInv
    <3>12. QED
      BY <2>5, <2>6, <3>6, <3>7, <3>8, <3>9, <3>10, <3>11 DEF TInv
  <2>9. QED
    BY <1>2, <2>7, <2>8
<1>7. QED
  BY <1>2, <1>4, <1>6

(* mark_respawn_failed gives the entry up when it is still of the          *)
(* generation of the event, or of the spawn that failed.                   *)
LEMMA TaskFailedTInv ==
  ASSUME IInv, IInv', KInv, TInv, NEW a \in Tasks, TaskFailed(a)
  PROVE  TInv'
<1>1. /\ a \in Actors \ {User} /\ a # Loop /\ a # User /\ proc \in Entries
      /\ a \in Spawners /\ User \in Actors
  BY Basics DEF Spawners
<1>2. /\ UNCHANGED <<alive, spawned, genOf, cleaners, watch, events>> /\ Others(a)
      /\ pc[a] = "failed" /\ pc'[a] = "idle"
  BY <1>1, GotoMoves, Basics DEF TaskFailed, os, tasks, Others
<1>3. pc[a] \notin HoldingChild /\ pc[a] \in Waiting
  BY <1>2 DEF HoldingChild, Spawning, Waiting
<1>4. CASE proc' = proc
  BY <1>1, <1>2, <1>3, <1>4, BackgroundEnds
<1>5. CASE proc' # proc
  <2> DEFINE g == loc[a].expect
  <2>1. /\ proc.desired /\ proc.gen \in {g, g + 1}
        /\ proc' = [Cleared(proc) EXCEPT !.gen = g + 1, !.status = "Errored",
                                         !.desired = FALSE]
    BY <1>5 DEF TaskFailed
  <2>2. /\ proc'.gen = g + 1 /\ proc'.status = "Errored"
        /\ proc'.pid = NoTree /\ proc'.tree = NoTree
    BY <1>1, <2>1 DEF Cleared, Forgotten, Entries
  <2>3. g \in Nat /\ ~StopRuns /\ Ceiling = proc.gen /\ Ceiling \in Nat
    BY <1>2, <2>1, Basics DEF IInv, TaskLocals
  <2>4. ~StopRuns' /\ Ceiling' = g + 1 /\ pc'[User] = pc[User]
    BY <1>1, <1>2, <2>2, <2>3, Basics DEF StopRuns, Others, Ceiling
  <2>5. Stake(a, Ceiling)
    BY <1>3, <2>1, <2>3 DEF Stake, Respawning
  <2>6. Relaxes(a)
    BY <1>1, <1>2 DEF Relaxes, Stake, RespawnFits, Serves, Respawning, Waiting, Spawning
  <2>7. Exclusive'
    BY <1>1, <2>6, RelaxesExclusive DEF TInv
  <2>8. Placed(a)'
    BY <1>1, <1>2 DEF Placed, SpawnsAlone, WaitsEmpty, LeavesEmpty, Waiting, Spawning,
       KillsEntry, HasEmptied, BeginsAtRest
  <2>9. RunningIsDesired' /\ proc'.pid \in 0 .. spawned' /\ TreeFits' /\ NoTree \notin alive'
    BY <1>2, <2>2, Basics DEF RunningIsDesired, NoTree, TreeFits, TInv, LiveTreesKnown
  <2>10. /\ \A b \in Actors \ {a} : pc[b] # "kill" /\ ~Stake(b, Ceiling)
         /\ pc[User] # "stopOk"
    BY <1>1, <2>3, <2>5, OwnerAlone
  <2>11. proc.pid \in alive => Cleaned(proc.pid)
    <3>1. CASE g = Ceiling
      BY <1>1, <1>3, <3>1 DEF TInv, Placed, WaitsEmpty, LiveTreesKnown, NoTree
    <3>2. CASE g + 1 = Ceiling
      BY <1>1, <1>3, <3>2 DEF TInv, Placed, LeavesEmpty
    <3>3. QED
      BY <2>1, <2>3, <3>1, <3>2
  <2>12. LiveTreesKnown'
    <3>1. ASSUME NEW t \in alive' PROVE Known(t)'
      <4>1. Known(t)
        BY <1>2, <3>1 DEF TInv, LiveTreesKnown
      <4>2. t = proc.pid => Cleaned(t)
        BY <1>2, <2>11, <3>1
      <4>3. \A b \in Spawners : pc[b] \in HoldingChild =>
              pc'[b] \in HoldingChild /\ loc'[b].child = loc[b].child
        BY <1>2, <1>3, Basics DEF Others
      <4>4. QED
        BY <1>2, <4>1, <4>2, <4>3 DEF Known, Cleaned
    <3>2. QED
      BY <1>2, <3>1 DEF TInv, LiveTreesKnown
  <2>13. CASE proc.gen = g
    <3>1. pc[User] # "begin"
      BY <1>1, <2>3, <2>5, <2>13, OwnerBusy
    <3>2. NoNews
      <4>1. pc'[a] \notin Serves
        BY <1>2 DEF Serves
      <4>2. QED
        BY <1>1, <1>2, <2>2, <4>1, ListsAnnounced, NewsOfStep DEF Others
    <3>3. Advances(a)
      BY <1>2, <2>3, <2>4, <2>13, <3>2
         DEF Advances, Follows, Others, Spawning, HoldingChild
    <3>4. QED
      BY <1>1, <2>2, <2>6, <2>7, <2>8, <2>9, <2>10, <2>12, <3>1, <3>3, AdvanceTInv
         DEF Relaxes
  <2>14. CASE proc.gen = g + 1
    <3>1. Ceiling' = Ceiling
      BY <2>3, <2>4, <2>14
    <3>2. RespawnLocals'
      <4>1. Ceiling' >= Ceiling
        BY <2>3, <3>1
      <4>2. QED
        BY <1>1, <1>2, <2>6, <4>1, RespawnKept DEF TInv, Relaxes
    <3>3. ~Announced(Ceiling)'
      BY <1>1, <1>2, <2>2, <2>3, <2>4, <2>5, <3>1, OwnerAnnounces DEF Serves
    <3>4. ASSUME NEW b \in Actors \ {a} PROVE Placed(b)'
      <4>1. /\ pc'[b] = pc[b] /\ loc'[b] = loc[b] /\ pc[b] # "kill" /\ ~Stake(b, Ceiling)
            /\ b = User => pc[b] # "stopOk"
        BY <1>2, <2>10 DEF Others
      <4>2. ~Stake(b, Ceiling)'
        BY <3>1, <4>1 DEF Stake
      <4>3. CASE b = User /\ pc[b] = "begin"
        <5>1. BeginsAtRest(b)'
          BY <2>2 DEF BeginsAtRest, Active
        <5>2. QED
          BY <4>1, <4>3, <5>1, Basics DEF Placed, SpawnsAlone, WaitsEmpty, LeavesEmpty,
             Waiting, Spawning, KillsEntry, HasEmptied
      <4>4. CASE ~(b = User /\ pc[b] = "begin")
        BY <3>2, <4>1, <4>2, <4>4, PlacedApart
      <4>5. QED
        BY <4>3, <4>4
    <3>5. QED
      BY <2>7, <2>8, <2>9, <2>12, <3>2, <3>3, <3>4 DEF TInv, AnnouncedWanted
  <2>15. QED
    BY <2>1, <2>13, <2>14
<1>6. QED
  BY <1>4, <1>5

(* Every step of a restart task between its calls.                         *)
LEMMA TaskTInv ==
  ASSUME IInv, IInv', KInv, TInv, NEW a \in Tasks, TaskNext(a)
  PROVE  TInv'
BY TaskClaimTInv, TaskClearTInv, TaskFailedTInv DEF TaskNext

-----------------------------------------------------------------------------
(* terminate_retained_process_tree.                                        *)

(* What every step of it leaves alone.                                     *)
LEMMA TermMoves ==
  ASSUME IInv, IInv', KInv, TInv, NEW a \in Actors, Terminate(a)
  PROVE  /\ UNCHANGED <<spawned, genOf, watch, events, cleaners>> /\ alive' \subseteq alive
         /\ Others(a) /\ NoNews /\ Ceiling' = Ceiling
         /\ StatusOf' = StatusOf /\ (Wanted' <=> Wanted)
         /\ proc'.status = proc.status /\ RunningIsDesired' /\ AnnouncedWanted'
         /\ pc[a] \in {"term", "kill"} /\ pc'[a] \in {"kill", TermOk(a), TermErr(a)}
         /\ pc[User] = "stopOk" => pc'[User] = "stopOk"
         /\ Relaxes(a) /\ Exclusive' /\ RespawnLocals'
         /\ \A b \in Spawners : \A g : Pending(b, g)' => Pending(b, g)
         /\ \A b \in Spawners : pc[b] \in HoldingChild =>
              pc'[b] \in HoldingChild /\ loc'[b].child = loc[b].child
<1>1. /\ UNCHANGED <<spawned, genOf, watch, events, cleaners>> /\ alive' \subseteq alive
      /\ loc[a] \in Locals /\ proc \in Entries /\ User \notin Tasks /\ User # Loop
      /\ Loop \notin Tasks /\ User \in Actors
  BY Basics DEF Terminate, TermTimeout, TermReturn, TermTake, KillOk, KillFail,
     Terminated, os, tasks
<1>2. Others(a) /\ pc[a] \in {"term", "kill"} /\ pc'[a] \in {"kill", TermOk(a), TermErr(a)}
  BY StepMoves, GotoMoves, Basics DEF Terminate, TermTimeout, TermReturn, TermTake,
     KillOk, KillFail, Terminating, Others
<1>3. TermOk(a) # "idle" /\ TermErr(a) # "idle"
  BY DEF TermOk, TermErr
<1>4. \/ loc'[a] = loc[a]
      \/ loc'[a] = [loc[a] EXCEPT !.hold = NoTree, !.guard = FALSE]
      \/ loc'[a] = [loc[a] EXCEPT !.guard = proc.tree # NoTree, !.owned = proc.pid,
           !.hold = IF proc.tree # NoTree THEN proc.tree ELSE proc.pid]
  <2>1. CASE TermTimeout(a) \/ TermReturn(a)
    BY <1>3, <2>1, GotoMoves, Basics DEF TermTimeout, TermReturn
  <2>2. CASE TermTake(a)
    BY <2>2, StepMoves, Basics DEF TermTake
  <2>3. CASE KillOk(a) \/ KillFail(a)
    BY <1>3, <2>3, StepMoves, Basics DEF KillOk, KillFail
  <2>4. QED
    BY <2>1, <2>2, <2>3 DEF Terminate
<1>5. /\ loc'[a].gen = loc[a].gen /\ loc'[a].prev = loc[a].prev
      /\ loc'[a].prevGen = loc[a].prevGen /\ loc'[a].expect = loc[a].expect
  BY <1>1, <1>4 DEF Locals
<1>6. /\ proc'.gen = proc.gen /\ proc'.status = proc.status /\ proc'.desired = proc.desired
  BY Basics DEF Terminate, TermTimeout, TermReturn, TermTake, KillOk, KillFail,
     Forgotten, Entries
<1>7. a = User => /\ pc[User] \in {"term", "kill"}
                  /\ pc'[User] \in {"kill", "stopOk", "stopErr"}
  BY <1>2 DEF TermOk, TermErr
<1>8. (StopRuns' <=> StopRuns) /\ loc'[User].prev = loc[User].prev
      /\ loc'[User].prevGen = loc[User].prevGen
  BY <1>1, <1>2, <1>5, <1>7 DEF StopRuns, Others
<1>9. /\ Ceiling' = Ceiling /\ StatusOf' = StatusOf /\ (Wanted' <=> Wanted)
      /\ RunningIsDesired'
  BY <1>6, <1>8 DEF Ceiling, StatusOf, Wanted, TInv, RunningIsDesired
<1>10. NoNews
  <2>1. a \in Tasks => pc[a] \in Serves
    BY <1>2 DEF Serves
  <2>2. /\ a \in Tasks => Announced(loc'[a].gen)
        /\ a = Loop => Announced(loc'[a].gen)
        /\ proc'.status = "Running" => Announced(proc'.gen)
    BY <1>2, <1>5, <1>6, <2>1 DEF Announced
  <2>3. a = User /\ StopRuns' /\ loc'[a].prev = "Running" => Announced(loc'[a].prevGen)
    BY <1>5, <1>8 DEF Announced
  <2>4. QED
    BY <1>1, <1>2, <2>2, <2>3, ListsAnnounced, NewsOfStep DEF Others
<1>11. AnnouncedWanted'
  BY <1>9, <1>10 DEF NoNews, TInv, AnnouncedWanted
<1>12. a \in Spawners => pc'[a] \notin Respawning /\ pc[a] \notin Respawning
  BY <1>1, <1>2, Basics DEF TermOk, TermErr, Respawning, Waiting, Spawning
<1>13. a \in Tasks => RespawnFits(a)'
  <2>1. ASSUME a \in Tasks PROVE pc[a] \in Serves /\ a \in Spawners
    BY <1>2, <2>1 DEF Serves, Spawners
  <2>2. QED
    BY <1>5, <1>12, <2>1 DEF RespawnFits, TInv, RespawnLocals, Respawning
<1>14. Relaxes(a)
  <2>1. \A g : Stake(a, g)' => Stake(a, g)
    <3>1. a \in Tasks => pc[a] \in Serves
      BY <1>2 DEF Serves
    <3>2. a = Loop => pc[a] # "idle"
      BY <1>2
    <3>3. QED
      BY <1>1, <1>5, <1>12, <3>1, <3>2 DEF Stake, Spawners, Respawning
  <2>2. a = User => loc'[a].expect = NoGen
    BY <1>5 DEF TInv, RespawnLocals
  <2>3. QED
    BY <1>1, <1>2, <1>13, <2>1, <2>2 DEF Relaxes
<1>15. Exclusive' /\ RespawnLocals'
  <2>1. Ceiling' >= Ceiling
    BY <1>9, Basics
  <2>2. QED
    BY <1>14, <2>1, RespawnKept, RelaxesExclusive DEF TInv, Relaxes
<1>16. /\ \A b \in Spawners : \A g : Pending(b, g)' => Pending(b, g)
       /\ \A b \in Spawners : pc[b] \in HoldingChild =>
              pc'[b] \in HoldingChild /\ loc'[b].child = loc[b].child
  BY <1>2, <1>12, Basics DEF Others, Pending, Respawning, HoldingChild
<1>17. pc[User] = "stopOk" => pc'[User] = "stopOk"
  BY <1>1, <1>2 DEF Others
<1>18. QED
  BY <1>1, <1>2, <1>6, <1>9, <1>10, <1>11, <1>14, <1>15, <1>16, <1>17

(* Wherever its caller resumes, only a success asks something.             *)
LEMMA TermPlaced ==
  ASSUME IInv, IInv', KInv, TInv, NEW a \in Actors, pc'[a] \in {TermOk(a), TermErr(a)},
         pc'[a] = TermOk(a) =>
           ~proc'.cleaning /\ proc'.tree = NoTree /\ proc'.pid = NoTree
  PROVE  Placed(a)'
<1>1. /\ TermOk(a) \in {"stopOk", "exitOk", "clear"}
      /\ TermErr(a) \in {"stopErr", "exitErr", "restore"}
  BY DEF TermOk, TermErr
<1>2. HasEmptied(a)'
  BY <1>1 DEF HasEmptied
<1>3. QED
  BY <1>1, <1>2 DEF Placed, SpawnsAlone, WaitsEmpty, LeavesEmpty, Waiting, Spawning,
     KillsEntry, BeginsAtRest

(* It returns without having taken anything.                               *)
LEMMA TermReturnTInv ==
  ASSUME IInv, IInv', KInv, TInv, NEW a \in Actors, TermTimeout(a) \/ TermReturn(a)
  PROVE  TInv'
<1>1. Terminate(a)
  BY DEF Terminate
<1>2. /\ UNCHANGED <<spawned, genOf, cleaners>> /\ alive' \subseteq alive /\ Others(a)
      /\ NoNews /\ Ceiling' = Ceiling /\ StatusOf' = StatusOf /\ (Wanted' <=> Wanted)
      /\ RunningIsDesired' /\ Relaxes(a)
      /\ pc[User] = "stopOk" => pc'[User] = "stopOk"
      /\ \A b \in Spawners : \A g : Pending(b, g)' => Pending(b, g)
      /\ \A b \in Spawners : pc[b] \in HoldingChild =>
              pc'[b] \in HoldingChild /\ loc'[b].child = loc[b].child
  BY <1>1, TermMoves
<1>3. /\ proc' = proc /\ pc'[a] \in {TermOk(a), TermErr(a)}
      /\ pc'[a] = TermOk(a) => ~proc.cleaning /\ proc.tree = NoTree /\ proc.pid = NoTree
  <2>1. TermOk(a) # TermErr(a)
    BY DEF TermOk, TermErr
  <2>2. QED
    BY <2>1, GotoMoves, Basics DEF TermTimeout, TermReturn
<1>4. Steady
  BY <1>2, <1>3 DEF Steady, Cleaned
<1>5. Placed(a)'
  BY <1>3, TermPlaced
<1>6. LiveTreesKnown'
  BY <1>2, <1>3, KnownKept DEF TInv, Settles
<1>7. QED
  BY <1>2, <1>4, <1>5, <1>6, StaysElse

(* A background actor takes, and terminates, only of the latest            *)
(* generation and while no stop runs.                                      *)
LEMMA BackgroundTerm ==
  ASSUME IInv, KInv, TInv, NEW a \in Actors \ {User}, pc[a] \in {"term", "kill"},
         proc.gen = loc[a].gen \/ pc[a] = "kill"
  PROVE  /\ Announced(Ceiling) /\ loc[a].gen = Ceiling
         /\ proc.gen = loc[a].gen => ~StopRuns
<1>1. Announced(loc[a].gen)
  BY DEF Announced, Serves, Actors
<1>2. loc[a].gen \in 0 .. Ceiling
  BY <1>1 DEF KInv, AnnouncedPast
<1>3. loc[a].gen = Ceiling
  BY <1>2, Basics DEF TInv, Placed, KillsEntry
<1>4. QED
  BY <1>1, <1>3, Basics

(* It takes what the PID names.                                            *)
LEMMA TermTakeTInv ==
  ASSUME IInv, IInv', KInv, TInv, NEW a \in Actors, TermTake(a)
  PROVE  TInv'
<1>1. Terminate(a)
  BY DEF Terminate
<1>2. /\ UNCHANGED <<spawned, genOf, cleaners>> /\ Others(a)
      /\ Ceiling' = Ceiling /\ StatusOf' = StatusOf /\ (Wanted' <=> Wanted)
      /\ proc'.status = proc.status
      /\ RunningIsDesired' /\ AnnouncedWanted' /\ Exclusive' /\ RespawnLocals'
      /\ pc[User] = "stopOk" => pc'[User] = "stopOk"
      /\ \A b \in Spawners : \A g : Pending(b, g)' => Pending(b, g)
      /\ \A b \in Spawners : pc[b] \in HoldingChild =>
              pc'[b] \in HoldingChild /\ loc'[b].child = loc[b].child
  BY <1>1, TermMoves
<1>3. /\ loc[a] \in Locals /\ proc \in Entries /\ pc[a] = "term" /\ ~proc.cleaning
      /\ proc.gen = loc[a].gen /\ proc' = [proc EXCEPT !.tree = NoTree, !.cleaning = TRUE]
      /\ alive' = alive
  BY Basics DEF TermTake, Terminating, os
<1>4. /\ pc'[a] = "kill"
      /\ loc'[a] = [loc[a] EXCEPT !.guard = proc.tree # NoTree, !.owned = proc.pid,
                      !.hold = IF proc.tree # NoTree THEN proc.tree ELSE proc.pid]
  BY StepMoves, Basics DEF TermTake
<1>5. /\ loc'[a].guard = (proc.tree # NoTree) /\ loc'[a].owned = proc.pid
      /\ loc'[a].hold = (IF proc.tree # NoTree THEN proc.tree ELSE proc.pid)
      /\ loc'[a].gen = loc[a].gen
  BY <1>3, <1>4 DEF Locals
<1>6. proc'.tree = NoTree /\ proc'.pid = proc.pid
  BY <1>3 DEF Entries
<1>7. proc.tree # NoTree => /\ proc.tree = proc.pid /\ genOf[proc.pid] = Ceiling
                            /\ \A b \in Spawners : ~Pending(b, Ceiling)
  <2>1. proc.tree # NoTree => proc.tree = proc.pid /\ genOf[proc.pid] = Ceiling
    BY DEF TInv, TreeFits
  <2>2. ASSUME NEW b \in Spawners, Pending(b, Ceiling) PROVE proc.tree = NoTree
    <3>1. CASE b \in Tasks /\ pc[b] \in Waiting /\ loc[b].expect + 1 = Ceiling
      BY <3>1, Basics DEF TInv, Placed, LeavesEmpty
    <3>2. CASE pc[b] \in Spawning /\ loc[b].gen = Ceiling
      BY <2>2, <3>2, Basics DEF TInv, Placed, SpawnsAlone
    <3>3. CASE b \in Tasks /\ pc[b] \in Spawning /\ loc[b].expect + 1 = Ceiling
      BY <3>2, <3>3, SpawnOfTask
    <3>4. QED
      BY <2>2, <3>1, <3>2, <3>3 DEF Pending, Respawning
  <2>3. QED
    BY <2>1, <2>2
<1>8. a # User => loc[a].gen = Ceiling /\ ~StopRuns
  BY <1>3, BackgroundTerm
<1>9. Placed(a)'
  <2>1. KillsEntry(a)'
    BY <1>2, <1>5, <1>6, <1>7, <1>8 DEF KillsEntry
  <2>2. QED
    BY <1>4, <2>1 DEF Placed, SpawnsAlone, WaitsEmpty, LeavesEmpty, Waiting, Spawning,
       HasEmptied, BeginsAtRest
<1>10. ASSUME NEW b \in Actors, b # a PROVE Placed(b)'
  <2>1. pc'[b] = pc[b] /\ loc'[b] = loc[b] /\ Placed(b) /\ pc[b] # "kill"
    BY <1>2, <1>3, <1>10 DEF Others, TInv, IInv, CleanupExclusive
  <2>2. b = User => pc[b] # "stopOk"
    BY <1>8, <1>10 DEF StopRuns
  <2>3. SpawnsAlone(b)' /\ WaitsEmpty(b)' /\ LeavesEmpty(b)'
    BY <1>2, <1>3, <1>6, <2>1 DEF Placed, SpawnsAlone, WaitsEmpty, LeavesEmpty, Cleaned
  <2>4. KillsEntry(b)' /\ HasEmptied(b)' /\ BeginsAtRest(b)'
    BY <1>2, <1>6, <2>1, <2>2 DEF Placed, KillsEntry, HasEmptied, BeginsAtRest, Active
  <2>5. QED
    BY <2>3, <2>4 DEF Placed
<1>11. LiveTreesKnown'
  BY <1>2, <1>3, <1>6, KnownKept DEF TInv, Settles
<1>12. TreeFits' /\ proc'.pid \in 0 .. spawned'
  BY <1>2, <1>6 DEF TreeFits, TInv
<1>13. QED
  BY <1>2, <1>9, <1>10, <1>11, <1>12 DEF TInv

(* The OS confirms: the entry's tree is gone and the entry knows.          *)
LEMMA KillOkTInv ==
  ASSUME IInv, IInv', KInv, TInv, NEW a \in Actors, KillOk(a)
  PROVE  TInv'
<1>1. Terminate(a)
  BY DEF Terminate
<1>2. /\ UNCHANGED <<spawned, genOf, cleaners>> /\ Others(a)
      /\ Ceiling' = Ceiling /\ StatusOf' = StatusOf /\ (Wanted' <=> Wanted)
      /\ proc'.status = proc.status
      /\ RunningIsDesired' /\ AnnouncedWanted' /\ Exclusive' /\ RespawnLocals'
      /\ \A b \in Spawners : pc[b] \in HoldingChild =>
              pc'[b] \in HoldingChild /\ loc'[b].child = loc[b].child
  BY <1>1, TermMoves
<1>3. /\ proc \in Entries /\ pc[a] = "kill" /\ alive' = alive \ {loc[a].hold}
      /\ loc[a].hold = proc.pid /\ loc[a].owned = proc.pid /\ proc.tree = NoTree
  BY Basics DEF KillOk, Terminated, TInv, Placed, KillsEntry
<1>4. proc' = Forgotten([proc EXCEPT !.cleaning = FALSE])
  BY <1>3 DEF KillOk, StillOwned
<1>5. ~proc'.cleaning /\ proc'.pid = NoTree /\ proc'.tree = NoTree
  BY <1>3, <1>4 DEF Forgotten, Entries
<1>6. pc'[a] = TermOk(a)
  BY StepMoves, Basics DEF KillOk
<1>7. Placed(a)'
  BY <1>5, <1>6, TermPlaced
<1>8. NoTree \notin alive'
  BY <1>3 DEF TInv, LiveTreesKnown, NoTree
<1>9. ASSUME NEW b \in Actors, b # a PROVE Placed(b)'
  <2>1. pc'[b] = pc[b] /\ loc'[b] = loc[b] /\ Placed(b) /\ pc[b] # "kill"
    BY <1>2, <1>3, <1>9 DEF Others, TInv, IInv, CleanupExclusive
  <2>2. SpawnsAlone(b)'
    <3>1. CASE a = User
      BY <1>2, <1>5, <1>6, <2>1, <3>1 DEF TermOk, Placed, SpawnsAlone
    <3>2. CASE a # User
      <4>1. Announced(Ceiling)
        BY <1>3, <3>2, BackgroundTerm
      <4>2. b \in Spawners /\ pc[b] \in Spawning => loc[b].gen # Ceiling
        BY <4>1 DEF KInv, AnnouncedPast
      <4>3. QED
        BY <1>2, <2>1, <4>2 DEF SpawnsAlone
    <3>3. QED
      BY <3>1, <3>2
  <2>3. WaitsEmpty(b)' /\ LeavesEmpty(b)'
    BY <1>2, <1>5, <1>8, <2>1 DEF Placed, WaitsEmpty, LeavesEmpty
  <2>4. KillsEntry(b)' /\ HasEmptied(b)' /\ BeginsAtRest(b)'
    BY <1>2, <1>5, <2>1 DEF Placed, KillsEntry, HasEmptied, BeginsAtRest, Active
  <2>5. QED
    BY <2>2, <2>3, <2>4 DEF Placed
<1>10. LiveTreesKnown'
  <2>1. ASSUME NEW t \in alive' PROVE Known(t)'
    <3>1. Known(t) /\ t # proc.pid
      BY <1>3, <2>1 DEF TInv, LiveTreesKnown
    <3>2. QED
      BY <1>2, <3>1 DEF Known, Cleaned
  <2>2. QED
    BY <1>2, <1>3, <2>1 DEF TInv, LiveTreesKnown
<1>11. TreeFits' /\ proc'.pid \in 0 .. spawned'
  BY <1>2, <1>5, Basics DEF TreeFits, NoTree
<1>12. QED
  BY <1>2, <1>7, <1>9, <1>10, <1>11 DEF TInv

(* The OS refuses: the guard goes back into the entry, where no spawn and  *)
(* no task expects it to be empty.                                         *)
LEMMA KillFailTInv ==
  ASSUME IInv, IInv', KInv, TInv, NEW a \in Actors, KillFail(a)
  PROVE  TInv'
<1>1. Terminate(a)
  BY DEF Terminate
<1>2. /\ UNCHANGED <<spawned, genOf, cleaners>> /\ Others(a) /\ NoNews /\ Relaxes(a)
      /\ Ceiling' = Ceiling /\ StatusOf' = StatusOf /\ (Wanted' <=> Wanted)
      /\ proc'.status = proc.status
      /\ RunningIsDesired' /\ AnnouncedWanted' /\ Exclusive' /\ RespawnLocals'
      /\ pc[User] = "stopOk" => pc'[User] = "stopOk"
      /\ \A b \in Spawners : \A g : Pending(b, g)' => Pending(b, g)
      /\ \A b \in Spawners : pc[b] \in HoldingChild =>
              pc'[b] \in HoldingChild /\ loc'[b].child = loc[b].child
  BY <1>1, TermMoves
<1>3. /\ proc \in Entries /\ pc[a] = "kill" /\ alive' = alive
      /\ loc[a].hold = proc.pid /\ loc[a].owned = proc.pid /\ proc.tree = NoTree
      /\ loc[a].guard => /\ genOf[proc.pid] = Ceiling
                         /\ \A b \in Spawners : ~Pending(b, Ceiling)
  BY Basics DEF KillFail, os, TInv, Placed, KillsEntry
<1>4. proc' = [proc EXCEPT !.cleaning = FALSE,
                 !.tree = IF loc[a].guard THEN loc[a].hold ELSE NoTree]
  BY <1>3 DEF KillFail, StillOwned
<1>5. /\ ~proc'.cleaning /\ proc'.pid = proc.pid
      /\ proc'.tree = IF loc[a].guard THEN proc.pid ELSE NoTree
  BY <1>3, <1>4 DEF Entries
<1>6. pc'[a] = TermErr(a) /\ TermErr(a) # TermOk(a)
  BY StepMoves, Basics DEF KillFail, TermOk, TermErr
<1>7. Placed(a)'
  BY <1>6, TermPlaced
<1>8. LiveTreesKnown'
  BY <1>2, <1>3, <1>5, KnownKept DEF TInv, Settles
<1>9. CASE ~loc[a].guard
  <2>1. Steady
    BY <1>2, <1>3, <1>5, <1>9 DEF Steady, Cleaned
  <2>2. QED
    BY <1>2, <1>7, <1>8, <2>1, StaysElse
<1>10. CASE loc[a].guard
  <2>1. proc.pid # NoTree
    BY <1>3, NobodyKills
  <2>2. TreeFits' /\ proc'.pid \in 0 .. spawned'
    BY <1>2, <1>3, <1>5, <1>10 DEF TreeFits, TInv
  <2>3. ASSUME NEW b \in Actors, b # a PROVE Placed(b)'
    <3>1. pc'[b] = pc[b] /\ loc'[b] = loc[b] /\ Placed(b) /\ pc[b] # "kill"
      BY <1>2, <1>3, <2>3 DEF Others, TInv, IInv, CleanupExclusive
    <3>2. b \in Spawners => ~Pending(b, Ceiling)
      BY <1>3, <1>10
    <3>3. SpawnsAlone(b)'
      <4>1. b \in Spawners /\ pc[b] \in Spawning => loc[b].gen # Ceiling
        BY <3>2, SpawnOfTask DEF Pending, Respawning, Spawners
      <4>2. QED
        BY <1>2, <3>1, <4>1 DEF SpawnsAlone
    <3>4. WaitsEmpty(b)'
      BY <1>2, <2>1, <3>1 DEF Placed, WaitsEmpty
    <3>5. LeavesEmpty(b)'
      BY <1>2, <3>1, <3>2 DEF LeavesEmpty, Pending, Spawners, Respawning
    <3>6. HasEmptied(b)'
      BY <1>2, <2>1, <3>1 DEF Placed, HasEmptied
    <3>7. KillsEntry(b)' /\ BeginsAtRest(b)'
      BY <1>2, <1>5, <3>1 DEF Placed, KillsEntry, BeginsAtRest, Active
    <3>8. QED
      BY <3>3, <3>4, <3>5, <3>6, <3>7 DEF Placed
  <2>4. QED
    BY <1>2, <1>7, <1>8, <2>2, <2>3 DEF TInv
<1>11. QED
  BY <1>9, <1>10

(* Every step of it.                                                       *)
LEMMA TerminateTInv ==
  ASSUME IInv, IInv', KInv, TInv, NEW a \in Actors, Terminate(a)
  PROVE  TInv'
BY TermReturnTInv, TermTakeTInv, KillOkTInv, KillFailTInv DEF Terminate

-----------------------------------------------------------------------------
(* Cleaners, exit watchers and exits.                                      *)

(* A cleaner finds out which process its PID names.                        *)
LEMMA CleanerIdentifyTInv ==
  ASSUME IInv, IInv', KInv, TInv, NEW c \in cleaners, CleanerIdentify(c)
  PROVE  TInv'
<1>1. /\ UNCHANGED <<spawned, genOf, alive, cleaners, watch, events, pc, loc>>
      /\ proc'.gen = proc.gen /\ proc'.status = proc.status /\ proc'.pid = proc.pid
      /\ proc'.tree = proc.tree /\ proc'.desired = proc.desired
      /\ proc'.cleaning = proc.cleaning
  BY Basics DEF CleanerIdentify, os, tasks, Entries
<1>2. NoNews /\ Ceiling' = Ceiling
  BY OthersKeep DEF Keeps, Follows
<1>3. Steady
  BY <1>1, <1>2 DEF Steady, Cleaned, StatusOf, Wanted, StopRuns, Pending
<1>4. Relaxes(Loop) /\ Eases(Loop) /\ Settles(Loop)
  BY <1>1, Basics DEF Relaxes, Others, Stake, Eases, Settles
<1>5. RunningIsDesired'
  BY <1>1 DEF TInv, RunningIsDesired
<1>6. QED
  BY <1>2, <1>3, <1>4, <1>5, StaysTInv, Basics

(* The root of a tree exits.                                               *)
LEMMA RootExitTInv ==
  ASSUME IInv, IInv', KInv, TInv, NEW t \in Trees, RootExit(t)
  PROVE  TInv'
<1>1. /\ UNCHANGED <<proc, spawned, genOf, cleaners, watch, events, pc, loc>>
      /\ alive' \subseteq alive
  BY DEF RootExit, tasks
<1>2. NoNews /\ Ceiling' = Ceiling
  BY OthersKeep DEF Keeps, Follows, Environment
<1>3. Steady
  BY <1>1, <1>2 DEF Steady, Cleaned, StatusOf, Wanted, StopRuns, Pending
<1>4. Relaxes(Loop) /\ Eases(Loop) /\ Settles(Loop)
  BY <1>1, Basics DEF Relaxes, Others, Stake, Eases, Settles
<1>5. RunningIsDesired'
  BY <1>1 DEF TInv, RunningIsDesired
<1>6. QED
  BY <1>2, <1>3, <1>4, <1>5, StaysTInv, Basics

(* An exit watcher sends its event, which takes over its stake.            *)
LEMMA WatchExitTInv ==
  ASSUME IInv, IInv', KInv, TInv, NEW w \in watch, WatchExit(w)
  PROVE  TInv'
<1>1. /\ UNCHANGED <<proc, spawned, genOf, alive, cleaners, pc, loc>>
      /\ watch' = watch \ {w} /\ events' = events \cup {ExitEvent(w)}
      /\ ExitEvent(w).gen = w.gen
  BY DEF WatchExit, ExitEvent, os
<1>2. NoNews /\ Ceiling' = Ceiling
  BY OthersKeep DEF Keeps, Follows
<1>3. Steady
  BY <1>1, <1>2 DEF Steady, Cleaned, StatusOf, Wanted, StopRuns, Pending
<1>4. Exclusive'
  <2>1. /\ \A e \in events : e.gen # w.gen
        /\ \A v \in watch : v.gen = w.gen => v = w
        /\ \A b \in Actors : ~Stake(b, w.gen)
    BY DEF TInv, Exclusive
  <2>2. \A b \in Actors : \A g : Stake(b, g)' <=> Stake(b, g)
    BY <1>1 DEF Stake
  <2>3. /\ \A e, f \in events' : e.gen = f.gen => e = f
        /\ \A u, v \in watch' : u.gen = v.gen => u = v
        /\ \A e \in events', v \in watch' : e.gen # v.gen
    BY <1>1, <2>1 DEF TInv, Exclusive
  <2>4. ASSUME NEW b \in Actors, NEW g, Stake(b, g)
        PROVE  /\ \A e \in events' : e.gen # g
               /\ \A v \in watch' : v.gen # g
               /\ \A c \in Actors : Stake(c, g) => b = c
    <3>1. /\ \A e \in events : e.gen # g
          /\ \A v \in watch : v.gen # g
          /\ \A c \in Actors : Stake(c, g) => b = c
      BY <2>4 DEF TInv, Exclusive
    <3>2. QED
      BY <1>1, <3>1
  <2>5. QED
    BY <2>2, <2>3, <2>4 DEF Exclusive
<1>5. Placed(Loop)'
  BY <1>1, <1>3, PlacedSteady, Basics DEF TInv
<1>6. LiveTreesKnown' /\ RunningIsDesired'
  BY <1>1 DEF TInv, RunningIsDesired, LiveTreesKnown, Known, Cleaned
<1>7. QED
  BY <1>1, <1>2, <1>3, <1>4, <1>5, <1>6, StaysWith, Basics DEF Others

(* A cleaner that owns the entry clears a PID nobody acts on.              *)
LEMMA CleanerDoneTInv ==
  ASSUME IInv, IInv', KInv, TInv, NEW c \in cleaners, CleanerDone(c)
  PROVE  TInv'
<1>1. /\ UNCHANGED <<spawned, genOf, watch, events, pc, loc>> /\ proc \in Entries
      /\ alive' = alive \ {c.tree} /\ cleaners' = cleaners \ {c}
  BY Basics DEF CleanerDone, Terminated
<1>2. /\ proc'.gen = proc.gen /\ proc'.tree = proc.tree /\ proc'.desired = proc.desired
      /\ proc'.cleaning = proc.cleaning
      /\ proc' # proc => proc'.status = "Stopped" /\ proc'.pid = NoTree
  BY <1>1 DEF CleanerDone, Forgotten, Entries
<1>3. (StopRuns' <=> StopRuns) /\ Ceiling' = Ceiling
  BY <1>1, <1>2 DEF StopRuns, Ceiling
<1>4. NoNews
  <2>1. /\ proc'.status = "Running" => Announced(proc'.gen)
        /\ pc'[Loop] # "idle" => Announced(loc'[Loop].gen)
    BY <1>1, <1>2 DEF Announced
  <2>2. QED
    BY <1>1, <2>1, Basics, ListsAnnounced, NewsOfStep
<1>5. \A t \in alive' : Cleaned(t) => Cleaned(t)'
  BY <1>1 DEF Cleaned
<1>6. Relaxes(Loop)
  BY <1>1, Basics DEF Relaxes, Others, Stake
<1>7. RunningIsDesired'
  BY <1>2 DEF TInv, RunningIsDesired
<1>8. CASE ~Retains(c)
  <2>1. proc' = proc
    BY <1>8 DEF CleanerDone
  <2>2. Steady
    BY <1>1, <1>3, <1>5, <2>1 DEF Steady, StatusOf, Wanted, StopRuns, Pending
  <2>3. Placed(Loop)'
    BY <1>1, <2>2, PlacedSteady, Basics DEF TInv
  <2>4. LiveTreesKnown'
    BY <1>1, <1>5, <2>1 DEF TInv, LiveTreesKnown, Known
  <2>5. QED
    BY <1>1, <1>4, <1>6, <1>7, <2>2, <2>3, <2>4, StaysElse, Basics
<1>9. CASE Retains(c)
  <2>1. /\ proc.gen = c.retained /\ proc.pid = c.tree /\ proc.pid \in 1 .. spawned
        /\ c.retained \in 0 .. Ceiling /\ genOf[c.tree] < c.retained
    BY <1>1, <1>9, Basics DEF Retains, KInv, CleanersFit, CleanerFits, NoGen
  <2>2. ~StopRuns /\ Ceiling = proc.gen /\ genOf[proc.pid] < Ceiling
    BY <2>1, Basics
  <2>3. genOf[proc.pid] # Ceiling /\ proc.pid # NoTree
    <3>1. genOf[proc.pid] \in Gens
      BY <2>1, BoundsAssumption DEF IInv, TypeOK, OsType, Trees
    <3>2. QED
      BY <2>1, <2>2, <3>1, Basics DEF Gens, NoGen, NoTree
  <2>4. ~Announced(Ceiling)
    BY <2>3 DEF KInv, Settled
  <2>5. AnnouncedWanted'
    BY <1>3, <1>4, <2>4 DEF AnnouncedWanted, NoNews
  <2>6. proc'.status = "Stopped" /\ proc'.pid = NoTree /\ proc'.tree = NoTree
    <3>1. proc.tree = NoTree
      BY <2>3 DEF TInv, TreeFits
    <3>2. proc' = [Forgotten(proc) EXCEPT !.status = "Stopped"]
      BY <1>9 DEF CleanerDone
    <3>3. QED
      BY <1>1, <1>2, <3>1, <3>2 DEF Forgotten, Entries
  <2>7. Exclusive'
    BY <1>6, RelaxesExclusive, Basics DEF TInv
  <2>8. RespawnLocals'
    <3>1. Ceiling' >= Ceiling
      BY <1>3, Basics
    <3>2. QED
      BY <1>6, <3>1, RespawnKept, Basics DEF TInv, Relaxes
  <2>9. LiveTreesKnown'
    <3>1. ASSUME NEW t \in alive' PROVE Known(t)'
      <4>1. Known(t) /\ t # proc.pid
        BY <1>1, <2>1, <3>1 DEF TInv, LiveTreesKnown
      <4>2. QED
        BY <1>1, <1>5, <3>1, <4>1 DEF Known
    <3>2. QED
      BY <1>1, <3>1 DEF TInv, LiveTreesKnown
  <2>10. TreeFits' /\ proc'.pid \in 0 .. spawned'
    BY <1>1, <2>6, Basics DEF TreeFits, NoTree
  <2>11. ASSUME NEW b \in Actors PROVE Placed(b)'
    <3>1. pc'[b] = pc[b] /\ loc'[b] = loc[b] /\ Placed(b)
      BY <1>1 DEF TInv
    <3>2. SpawnsAlone(b)'
      <4>1. ASSUME b \in Spawners, pc[b] \in Spawning, loc[b].gen = Ceiling PROVE FALSE
        <5>1. pc[b] \in HoldingChild /\ proc.pid = loc[b].child
          BY <2>3, <3>1, <4>1 DEF Placed, SpawnsAlone, HoldingChild
        <5>2. genOf[loc[b].child] = Ceiling
          BY <4>1, <5>1 DEF IInv, SpawnLocals
        <5>3. QED
          BY <2>3, <5>1, <5>2
      <4>2. QED
        BY <1>3, <3>1, <4>1 DEF SpawnsAlone
    <3>3. WaitsEmpty(b)'
      BY <1>3, <2>3, <3>1 DEF Placed, WaitsEmpty
    <3>4. LeavesEmpty(b)'
      BY <1>1, <2>6 DEF LeavesEmpty, TInv, LiveTreesKnown, NoTree
    <3>5. KillsEntry(b)'
      <4>1. ASSUME pc[b] = "kill" PROVE FALSE
        <5>1. b # User
          BY <2>2, <4>1 DEF StopRuns
        <5>2. QED
          BY <2>4, <4>1, <5>1, BackgroundTerm
      <4>2. QED
        BY <3>1, <4>1 DEF KillsEntry
    <3>6. HasEmptied(b)'
      <4>1. b = User => pc[b] # "stopOk"
        BY <2>2 DEF StopRuns
      <4>2. QED
        BY <2>6, <3>1, <4>1 DEF HasEmptied
    <3>7. BeginsAtRest(b)'
      BY <2>6 DEF BeginsAtRest, Active
    <3>8. QED
      BY <3>2, <3>3, <3>4, <3>5, <3>6, <3>7 DEF Placed
  <2>12. QED
    BY <1>7, <2>5, <2>7, <2>8, <2>9, <2>10, <2>11 DEF TInv
<1>10. QED
  BY <1>8, <1>9

-----------------------------------------------------------------------------
(* The theorems.                                                           *)

(* The inductive invariant holds initially ...                             *)
LEMMA InitTInv == Init => TInv
<1> SUFFICES ASSUME Init PROVE TInv
  OBVIOUS
<1>1. /\ \A a \in Actors : pc[a] = "idle" /\ loc[a] = Fresh
      /\ proc = NewEntry /\ events = {} /\ watch = {} /\ alive = {} /\ spawned = 0
  BY DEF Init
<1>2. User \in Actors /\ Tasks \subseteq Actors /\ Spawners \subseteq Actors
      /\ Loop \in Actors
  BY DEF Actors, Spawners
<1>3. \A a \in Actors : \A g : ~Stake(a, g)
  BY <1>1, <1>2 DEF Stake, Spawning, Serves, Respawning, Waiting
<1>4. Exclusive
  BY <1>1, <1>3 DEF Exclusive
<1>5. RespawnLocals
  BY <1>1, <1>2 DEF RespawnLocals, RespawnFits, Spawning, Serves, Respawning, Waiting, Fresh
<1>6. AnnouncedWanted
  BY <1>1, <1>2 DEF AnnouncedWanted, Announced, Serves, StopRuns, NewEntry
<1>7. TreeFits /\ LiveTreesKnown /\ RunningIsDesired /\ proc.pid \in 0 .. spawned
  BY <1>1 DEF TreeFits, LiveTreesKnown, RunningIsDesired, NewEntry, NoTree
<1>8. \A a \in Actors : Placed(a)
  BY <1>1 DEF Placed, SpawnsAlone, WaitsEmpty, LeavesEmpty, Waiting, Spawning,
     KillsEntry, HasEmptied, BeginsAtRest
<1>9. QED
  BY <1>4, <1>5, <1>6, <1>7, <1>8 DEF TInv

(* ... and every step keeps it while no file watcher reports changes.      *)
LEMMA NextTInv ==
  ASSUME ~WatchMode, IInv, IInv', KInv, TInv, [Next]_vars
  PROVE  TInv'
<1>1. CASE Requests
  BY <1>1, RequestsTInv
<1>2. CASE UserStep
  BY <1>2, UserKeepsTInv, UserAdvancesTInv
<1>3. CASE LoopNext
  BY <1>3, LoopTakesTInv, LoopExitTInv DEF LoopNext
<1>4. ASSUME NEW a \in Spawners, Spawn(a) PROVE TInv'
  BY <1>4, SpawnTInv
<1>5. ASSUME NEW a \in Tasks, TaskNext(a) PROVE TInv'
  BY <1>5, TaskTInv
<1>6. ASSUME NEW a \in Actors, Terminate(a) PROVE TInv'
  BY <1>6, TerminateTInv
<1>7. ASSUME NEW c \in cleaners, CleanerIdentify(c) \/ CleanerDone(c) PROVE TInv'
  BY <1>7, CleanerIdentifyTInv, CleanerDoneTInv
<1>8. ASSUME NEW w \in watch, WatchExit(w) PROVE TInv'
  BY <1>8, WatchExitTInv
<1>9. CASE Environment
  BY <1>9, RootExitTInv DEF Environment, FileChanged
<1>10. CASE UNCHANGED vars
  <2>1. /\ UNCHANGED <<proc, spawned, genOf, alive, cleaners, watch, events, pc, loc>>
        /\ Ceiling' = Ceiling /\ NoNews
    BY <1>10, OthersKeep DEF vars, Keeps, Follows
  <2>2. Steady
    BY <2>1 DEF Steady, Cleaned, StatusOf, Wanted, StopRuns, Pending
  <2>3. Relaxes(Loop) /\ Eases(Loop) /\ Settles(Loop) /\ RunningIsDesired'
    BY <2>1, Basics DEF Relaxes, Others, Stake, Eases, Settles, TInv, RunningIsDesired
  <2>4. QED
    BY <2>1, <2>2, <2>3, StaysTInv, Basics
<1>11. QED
  BY <1>1, <1>2, <1>3, <1>4, <1>5, <1>6, <1>7, <1>8, <1>9, <1>10 DEF Next

(* The invariant of every execution without a file watcher.                *)
THEOREM TreeInvariantHolds ==
  ASSUME ~WatchMode
  PROVE  Spec => [](IInv /\ KInv /\ TInv)
<1>1. Init => IInv /\ KInv /\ TInv
  BY InitIInv, InitKInv, InitTInv
<1>2. (IInv /\ KInv /\ TInv) /\ [Next]_vars => (IInv /\ KInv /\ TInv)'
  BY NextIInv, NextKInv, NextTInv
<1>3. QED
  BY <1>1, <1>2, PTL DEF Spec

(* An entry shown as running is meant to run, so its exit is acted on.     *)
THEOREM RunningEntriesAreWanted ==
  ASSUME ~WatchMode
  PROVE  Spec => []RunningIsDesired
<1>1. IInv /\ KInv /\ TInv => RunningIsDesired
  BY DEF TInv
<1>2. QED
  BY <1>1, TreeInvariantHolds, PTL

(* No live process tree is lost, through failing spawns, failing           *)
(* terminations and superseded restarts alike.                             *)
THEOREM NoTreeIsLost ==
  ASSUME ~WatchMode
  PROVE  Spec => []LiveTreesOwned
<1>1. IInv /\ KInv /\ TInv => LiveTreesOwned
  <2> SUFFICES ASSUME IInv, TInv, NEW t \in alive PROVE Owned(t)
    BY DEF LiveTreesOwned
  <2>1. Known(t)
    BY DEF TInv, LiveTreesKnown
  <2>2. QED
    BY <2>1, Basics DEF Known, Owned, Cleaned
<1>2. QED
  BY <1>1, TreeInvariantHolds, PTL

(* A replacement is spawned only after the old tree is confirmed gone: the *)
(* one live tree that is nobody's child and no cleaner's is the entry's.   *)
THEOREM TreesServeAlone ==
  ASSUME ~WatchMode
  PROVE  Spec => []OneServing
<1>1. IInv /\ KInv /\ TInv => OneServing
  <2> SUFFICES ASSUME IInv, TInv, NEW t \in Trees, Serving(t) PROVE t = proc.pid
    BY DEF OneServing
  <2>1. Known(t)
    BY DEF TInv, LiveTreesKnown, Serving
  <2>2. QED
    BY <2>1, Basics DEF Known, Serving, Cleaned
<1>2. QED
  BY <1>1, TreeInvariantHolds, PTL
=============================================================================
